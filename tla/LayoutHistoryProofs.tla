------------------------ MODULE LayoutHistoryProofs ------------------------
(***************************************************************************)
(* Why undo takes back the last change of geometry and redo the last undo: *)
(* the history and the layout agree (GeometryFollowsHistory) for every     *)
(* value of the constants.  The property says where a row is; what makes   *)
(* it last says in addition what every entry remembers, the entries that   *)
(* are undone included: the place that the entries below it gave the row   *)
(* (Remembers).  And it says that a call which overlaps with no other      *)
(* still has at hand what the database holds (ReadsFit).                   *)
(*                                                                         *)
(* Every other step leaves a row where it is and names rows as nothing was *)
(* ever named (Undisturbed): so no entry speaks of a row made later.       *)
(***************************************************************************)
EXTENDS LayoutProofs
-----------------------------------------------------------------------------
(* Where a history puts a row *)

\* The entries S of history h leave row i, which was at first at place at, here.
PutBy(h, at, i, S) ==
    LET about == {n \in S : i \in DOMAIN h[n].after}
    IN  IF about = {} THEN at ELSE h[Max(about)].after[i]

LEMMA PutByNone ==
    ASSUME NEW h, NEW at, NEW i, NEW S, \A n \in S : i \notin DOMAIN h[n].after
    PROVE  PutBy(h, at, i, S) = at
BY DEF PutBy

Bounded(S) == \E k \in Nat : S \subseteq 0 .. k

SameChanges(g, h, S) == \A n \in S : g[n].after = h[n].after

Newest(n, S) == n \in S /\ \A m \in S : m <= n

LEMMA PutBySame ==
    ASSUME NEW h, NEW g, NEW at, NEW i, NEW S, Bounded(S), SameChanges(g, h, S)
    PROVE  PutBy(g, at, i, S) = PutBy(h, at, i, S)
<1> DEFINE about == {n \in S : i \in DOMAIN h[n].after}
<1>0. PICK k \in Nat : S \subseteq 0 .. k
  BY DEF Bounded
<1>1. about = {n \in S : i \in DOMAIN g[n].after} /\ about \in SUBSET (0 .. k)
  BY <1>0 DEF SameChanges
<1>2. about # {} => Max(about) \in S
  BY <1>1, MaxIsGreatest
<1> HIDE DEF about
<1>3. PutBy(h, at, i, S) = IF about = {} THEN at ELSE h[Max(about)].after[i]
  BY DEF PutBy, about
<1>4. PutBy(g, at, i, S) = IF about = {} THEN at ELSE g[Max(about)].after[i]
  BY <1>1 DEF PutBy
<1>5. about # {} => g[Max(about)].after = h[Max(about)].after
  BY <1>2 DEF SameChanges
<1> QED BY <1>3, <1>4, <1>5

LEMMA PutByNewest ==
    ASSUME NEW h, NEW at, NEW i, NEW S, Bounded(S), NEW n, Newest(n, S),
           i \in DOMAIN h[n].after
    PROVE  PutBy(h, at, i, S) = h[n].after[i]
<1> DEFINE about == {m \in S : i \in DOMAIN h[m].after}
<1>0. PICK k \in Nat : S \subseteq 0 .. k
  BY DEF Bounded
<1>1. n \in about /\ about \in SUBSET (0 .. k)
  BY <1>0 DEF Newest
<1>2. Max(about) \in about /\ n <= Max(about) /\ Max(about) \in Nat
  BY <1>1, MaxIsGreatest
<1>3. Max(about) \in S /\ n \in Nat
  BY <1>1, <1>2
<1> HIDE DEF about
<1>4. Max(about) = n
  BY <1>2, <1>3 DEF Newest
<1> QED BY <1>1, <1>4 DEF PutBy, about

LEMMA PutByOthers ==
    ASSUME NEW h, NEW at, NEW i, NEW S, NEW n, i \notin DOMAIN h[n].after
    PROVE  PutBy(h, at, i, S \cup {n}) = PutBy(h, at, i, S)
<1>1. {m \in S \cup {n} : i \in DOMAIN h[m].after} = {m \in S : i \in DOMAIN h[m].after}
  OBVIOUS
<1> QED BY <1>1 DEF PutBy
-----------------------------------------------------------------------------
(* What lasts *)

Undone == DOMAIN history \ Applied

Below(n) == {k \in DOMAIN history : k < n}

\* A call that overlaps with no other.
AloneFits ==
    \A p, q \in Callers : p # q /\ pc[p] # "idle" /\ alone[p] => pc[q] = "idle"

\* The entry that is undone is the newest, and the one that is redone the oldest undone.
Chosen(o, n) ==
    \/ o = "undo" /\ n \in Applied /\ \A k \in Applied : k <= n
    \/ o = "redo" /\ n \in Undone /\ \A k \in Undone : n <= k

\* What call p has read of the layout and of the history is so.
ReadFits(p) ==
    /\ pc[p] = "apply" =>
         /\ DOMAIN input[p] \subseteq DOMAIN rows /\ DOMAIN found[p] = DOMAIN input[p]
         /\ \A i \in DOMAIN found[p] : found[p][i] = rows[i].place
    /\ pc[p] = "entry" =>
         \E n \in DOMAIN history : Chosen(op[p], n) /\ found[p] = One(n, history[n])

ReadsFit == \A p \in Callers : alone[p] => ReadFits(p)

\* Entries speak of rows there were.
Named == \A n \in DOMAIN history : /\ DOMAIN history[n].after \subseteq 1 .. next
                                   /\ DOMAIN history[n].before = DOMAIN history[n].after

UndoneLast == \A n \in Applied, k \in Undone : n < k

IsPut(i) == rows[i].place = PutBy(history, origin[i], i, Applied)

Remembers(n, i) == i \in DOMAIN history[n].before =>
                       history[n].before[i] = PutBy(history, origin[i], i, Below(n))

HistoryFits ==
    /\ DOMAIN origin = DOMAIN rows
    /\ ~raced => /\ Named /\ UndoneLast
                 /\ \A i \in DOMAIN rows \ moved :
                      IsPut(i) /\ \A n \in DOMAIN history : Remembers(n, i)

Follows == AloneFits /\ ReadsFit /\ HistoryFits

LEMMA FollowsHistory ==
    ASSUME Follows
    PROVE  GeometryFollowsHistory
BY DEF Follows, HistoryFits, UndoneLast, Undone, IsPut, PutBy, GeometryFollowsHistory
-----------------------------------------------------------------------------
(* Steps that the history does not hear of *)

\* Rows stay where they are, unless the step moved them; other rows are new.
Undisturbed ==
    /\ history' = history /\ raced' = raced /\ moved \subseteq moved'
    /\ next \in Nat /\ next' \in Nat /\ next <= next'
    /\ DOMAIN origin' = DOMAIN rows'
    /\ \A i \in DOMAIN rows' :
         \/ /\ i \in DOMAIN rows /\ origin'[i] = origin[i]
            /\ rows'[i].place = rows[i].place \/ i \in moved'
         \/ i \in Nat /\ next < i /\ origin'[i] = rows'[i].place

LEMMA HistoryUndisturbed ==
    ASSUME HistoryFits, Undisturbed
    PROVE  HistoryFits'
<1>1. Applied' = Applied /\ Undone' = Undone /\ \A n : Below(n)' = Below(n)
  BY DEF Undisturbed, Applied, Undone, Below
<1>2. ASSUME ~raced'
      PROVE  /\ Named' /\ UndoneLast'
             /\ \A i \in DOMAIN rows' \ moved' :
                  IsPut(i)' /\ \A n \in DOMAIN history' : Remembers(n, i)'
  <2>1. ~raced /\ Named /\ UndoneLast
    BY <1>2 DEF HistoryFits, Undisturbed
  <2>2. Named'
    <3>1. 1 .. next \subseteq 1 .. next'
      BY DEF Undisturbed
    <3> QED BY <2>1, <3>1 DEF Named, Undisturbed
  <2>3. UndoneLast'
    BY <1>1, <2>1 DEF UndoneLast
  <2>4. ASSUME NEW i \in DOMAIN rows' \ moved'
        PROVE  IsPut(i)' /\ \A n \in DOMAIN history' : Remembers(n, i)'
    <3>1. CASE i \in DOMAIN rows /\ origin'[i] = origin[i] /\ rows'[i].place = rows[i].place
      <4>1. i \in DOMAIN rows \ moved
        BY <2>4, <3>1 DEF Undisturbed
      <4>2. IsPut(i) /\ \A n \in DOMAIN history : Remembers(n, i)
        BY <2>1, <4>1 DEF HistoryFits
      <4>3. history' = history
        BY DEF Undisturbed
      <4> QED BY <1>1, <3>1, <4>2, <4>3 DEF IsPut, Remembers
    <3>2. CASE i \in Nat /\ next < i /\ origin'[i] = rows'[i].place
      <4>1. history' = history /\ next \in Nat
        BY DEF Undisturbed
      <4>2. \A n \in DOMAIN history : i \notin DOMAIN history[n].after /\ i \notin DOMAIN history[n].before
        BY <2>1, <3>2, <4>1 DEF Named
      <4>3. \A n \in Applied : i \notin DOMAIN history[n].after
        BY <4>2 DEF Applied
      <4>4. PutBy(history, origin'[i], i, Applied) = origin'[i]
        BY <4>3, PutByNone
      <4> QED BY <1>1, <3>2, <4>1, <4>2, <4>4 DEF IsPut, Remembers
    <3> QED BY <2>4, <3>1, <3>2 DEF Undisturbed
  <2> QED BY <2>2, <2>3, <2>4
<1>3. (DOMAIN origin = DOMAIN rows)'
  BY DEF Undisturbed
<1> QED BY <1>2, <1>3 DEF HistoryFits

LEMMA NothingDisturbed ==
    ASSUME HistoryFits, next \in Nat, UNCHANGED <<history, raced, moved, next, rows, origin>>
    PROVE  Undisturbed
BY DEF HistoryFits, Undisturbed

\* The rows that Put leaves, if they are where they were, and the new ones.
LEMMA PutUndisturbed ==
    ASSUME HistoryFits, next \in Nat, NEW d, Put(d), NEW n \in Nat, DOMAIN d \subseteq 0 .. n,
           history' = history, raced' = raced, moved \subseteq moved',
           \A i \in DOMAIN d : \/ i \in DOMAIN rows /\ (d[i].place = rows[i].place \/ i \in moved')
                               \/ i \notin DOMAIN rows /\ i \in Nat /\ next < i
    PROVE  Undisturbed
<1>1. next' \in Nat /\ next <= next' /\ rows' = d
  BY PutNext
<1>2. /\ DOMAIN origin' = DOMAIN d
      /\ \A i \in DOMAIN d : origin'[i] = IF i \in DOMAIN rows THEN origin[i] ELSE d[i].place
  BY DEF Put, HistoryFits
<1> QED BY <1>1, <1>2 DEF Undisturbed
-----------------------------------------------------------------------------
(* Calls that overlap with no other *)

\* A step of p: it begins a call, or goes on with one, or ends it.
Turn(p) ==
    /\ OthersStay(p)
    /\ \/ \E o, label : Begin(p, o, label)
       \/ pc[p] # "idle" /\ (alone' = alone \/ pc'[p] = "idle")
    /\ \A q \in Callers \ {p} : alone'[q] => alone[q]

LEMMA AloneStays ==
    ASSUME FramesInv, AloneFits, NEW p \in Callers, Turn(p)
    PROVE  /\ AloneFits'
           /\ \A q \in Callers \ {p} : pc[q] # "idle" => ~alone'[q]
<1>1. CASE \E o, label : Begin(p, o, label)
  <2>1. /\ alone'[p] = (\A r \in Callers \ {p} : pc[r] = "idle")
        /\ \A q \in Callers \ {p} : alone'[q] = (alone[q] /\ pc[q] = "idle")
    BY <1>1 DEF Begin
  <2> QED BY <2>1 DEF Turn, OthersStay, AloneFits
<1>2. CASE pc[p] # "idle" /\ (alone' = alone \/ pc'[p] = "idle")
  <2>1. ASSUME NEW q \in Callers \ {p}, pc[q] # "idle"
        PROVE  ~alone'[q]
    BY <1>2, <2>1 DEF Turn, AloneFits
  <2>2. ASSUME NEW q \in Callers, NEW r \in Callers, q # r, pc'[q] # "idle", alone'[q]
        PROVE  pc'[r] = "idle"
    <3>1. q = p
      BY <2>1, <2>2 DEF Turn, OthersStay
    <3>2. pc'[r] = pc[r] /\ alone' = alone
      BY <1>2, <2>2, <3>1 DEF Turn, OthersStay
    <3> QED BY <1>2, <2>2, <3>1, <3>2 DEF AloneFits
  <2> QED BY <2>1, <2>2 DEF AloneFits
<1> QED BY <1>1, <1>2 DEF Turn

LEMMA ReadsStay ==
    ASSUME FramesInv, AloneFits, NEW p \in Callers, Turn(p), alone'[p] => ReadFits(p)'
    PROVE  ReadsFit'
<1>1. ASSUME NEW q \in Callers \ {p}, alone'[q]
      PROVE  ReadFits(q)'
  <2>1. pc[q] = "idle"
    BY <1>1, AloneStays
  <2>2. pc'[q] = "idle"
    BY <2>1 DEF Turn, OthersStay
  <2> QED BY <2>2 DEF ReadFits
<1> QED BY <1>1 DEF ReadsFit

\* A step that begins neither a change of geometry nor the use of an entry.
LEMMA QuietStep ==
    ASSUME FramesInv, Follows, NEW p \in Callers, Turn(p), pc'[p] \notin {"apply", "entry"},
           Undisturbed
    PROVE  Follows'
<1>1. ReadFits(p)'
  BY DEF ReadFits
<1>2. AloneFits' /\ ReadsFit'
  BY <1>1, AloneStays, ReadsStay DEF Follows
<1>3. HistoryFits'
  BY HistoryUndisturbed DEF Follows
<1> QED BY <1>2, <1>3 DEF Follows

OthersKeep(p) == \A q \in Callers \ {p} : /\ input'[q] = input[q] /\ snap'[q] = snap[q]
                                          /\ found'[q] = found[q]

LEMMA CallTurns ==
    ASSUME FramesInv, NEW p \in Callers, NEW o, NEW label, Begin(p, o, label), OthersKeep(p)
    PROVE  Turn(p) /\ pc'[p] = label
<1>1. /\ pc'[p] = label
      /\ \A q \in Callers \ {p} : pc'[q] = pc[q] /\ op'[q] = op[q]
  BY BeginsAlone
<1>2. \A q \in Callers \ {p} : alone'[q] => alone[q]
  BY DEF Begin
<1> QED BY <1>1, <1>2 DEF Turn, OthersStay, OthersKeep

LEMMA CallGoesOn ==
    ASSUME FramesInv, NEW p \in Callers, pc[p] # "idle", alone' = alone, op' = op,
           NEW label, Goto(p, label) \/ (pc' = pc /\ pc[p] = label), OthersKeep(p)
    PROVE  Turn(p) /\ pc'[p] = label
<1>1. pc'[p] = label /\ \A q \in Callers \ {p} : pc'[q] = pc[q]
  BY DEF Goto, FramesInv
<1> QED BY <1>1 DEF Turn, OthersStay, OthersKeep

LEMMA CallEnds ==
    ASSUME FramesInv, NEW p \in Callers, pc[p] # "idle", End(p)
    PROVE  Turn(p) /\ pc'[p] = "idle"
<1>1. OthersStay(p) /\ pc'[p] = "idle"
  BY EndKeeps
<1>2. \A q \in Callers \ {p} : alone'[q] => alone[q]
  BY DEF End, FramesInv
<1> QED BY <1>1, <1>2 DEF Turn

LEMMA NextIsNumber ==
    ASSUME Inv
    PROVE  FramesInv /\ next \in Nat /\ DOMAIN rows \subseteq 1 .. next /\ DOMAIN rows \subseteq 0 .. next
BY RowsNumbered DEF Inv, StateInv

LEMMA EndFollows ==
    ASSUME Inv, Follows, NEW p \in Callers, pc[p] # "idle", End(p),
           UNCHANGED <<rows, next, history, ghost>>
    PROVE  Follows'
<1>1. Undisturbed
  BY NextIsNumber, NothingDisturbed DEF Follows, ghost
<1> QED BY <1>1, NextIsNumber, CallEnds, QuietStep

LEMMA ThrowFollows ==
    ASSUME Inv, Follows, NEW p \in Callers, pc[p] # "idle", Throw(p)
    PROVE  Follows'
BY EndFollows DEF Throw

\* A call begins, and leaves the layout and its history alone.
LEMMA BeginFollows ==
    ASSUME Inv, Follows, NEW p \in Callers, NEW o, NEW label, label \notin {"apply", "entry"},
           Begin(p, o, label), OthersKeep(p), UNCHANGED <<rows, next, history, ghost>>
    PROVE  Follows'
<1>1. Undisturbed
  BY NextIsNumber, NothingDisturbed DEF Follows, ghost
<1> QED BY <1>1, NextIsNumber, CallTurns, QuietStep

\* A call goes on, and leaves the layout and its history alone.
LEMMA GoFollows ==
    ASSUME Inv, Follows, NEW p \in Callers, pc[p] # "idle", NEW label, Goto(p, label),
           label \notin {"apply", "entry"}, alone' = alone, op' = op, OthersKeep(p),
           UNCHANGED <<rows, next, history, raced, moved, origin>>
    PROVE  Follows'
<1>1. Undisturbed
  BY NextIsNumber, NothingDisturbed DEF Follows
<1> QED BY <1>1, NextIsNumber, CallGoesOn, QuietStep

\* A call goes on and changes rows.
LEMMA PutFollows ==
    ASSUME Inv, Follows, NEW p \in Callers, pc[p] # "idle", Undisturbed,
           NEW label, Goto(p, label), label \notin {"apply", "entry"},
           alone' = alone, op' = op, OthersKeep(p)
    PROVE  Follows'
BY NextIsNumber, CallGoesOn, QuietStep

LEMMA PutRemains ==
    ASSUME Inv, Follows, NEW p \in Callers, pc[p] = "copy", Undisturbed, pc' = pc,
           alone' = alone, op' = op, OthersKeep(p)
    PROVE  Follows'
BY NextIsNumber, CallGoesOn, QuietStep
-----------------------------------------------------------------------------
(* The steps of calls that leave the layout alone *)

LEMMA BeginningsFollow ==
    ASSUME Inv, Follows, NEW p \in Callers,
           \/ Receive(p) \/ Generate(p) \/ Save(p)
           \/ \E o, i : Copy(p, o, i)
    PROVE  Follows'
<1>1. FramesInv
  BY NextIsNumber
<1>2. CASE Receive(p)
  <2>1. Begin(p, "create", "wipe seats") /\ UNCHANGED <<rows, next, history, ghost>> /\ OthersKeep(p)
    BY <1>1, <1>2 DEF Receive, OthersKeep, FramesInv
  <2> QED BY <2>1, BeginFollows
<1>3. CASE Generate(p)
  <2>1. Begin(p, "generate", "wipe seats") /\ UNCHANGED <<rows, next, history, ghost>> /\ OthersKeep(p)
    BY <1>1, <1>3 DEF Generate, Call, OthersKeep, FramesInv
  <2> QED BY <2>1, BeginFollows
<1>4. CASE Save(p)
  <2>1. Begin(p, "save", "read sections") /\ UNCHANGED <<rows, next, history, ghost>> /\ OthersKeep(p)
    BY <1>1, <1>4 DEF Save, Call, OthersKeep, FramesInv
  <2> QED BY <2>1, BeginFollows
<1>5. ASSUME NEW o, NEW i, Copy(p, o, i)
      PROVE  Follows'
  <2>1. /\ Begin(p, o, "copy") /\ UNCHANGED <<rows, next, history, ghost, snap, found>>
        /\ \E d : input' = [input EXCEPT ![p] = d]
    BY <1>5 DEF Copy, Call
  <2>2. OthersKeep(p)
    BY <1>1, <2>1 DEF OthersKeep, FramesInv
  <2> QED BY <2>1, <2>2, BeginFollows
<1> QED BY <1>2, <1>3, <1>4, <1>5

LEMMA ReadingsFollow ==
    ASSUME Inv, Follows, NEW p \in Callers,
           Serialize(p) \/ CreateVersion(p) \/ ReadLatest(p) \/ ReadOther(p)
    PROVE  Follows'
<1>1. FramesInv
  BY NextIsNumber
<1>2. CASE Serialize(p)
  <2>1. PICK s \in {<<"read sections", "section", "read tables">>, <<"read tables", "table", "read seats">>,
                 <<"read seats", "seat", "version">>} :
         /\ pc[p] = s[1]
         /\ snap' = [snap EXCEPT ![p] = Join(@, [i \in Of(s[2], rows) |-> rows[i]])]
         /\ Goto(p, s[3])
    BY <1>2 DEF Serialize
  <2>2. pc[p] # "idle" /\ s[3] \notin {"apply", "entry"}
    <3>1. CASE s = <<"read sections", "section", "read tables">>
      BY <2>1, <3>1
    <3>2. CASE s = <<"read tables", "table", "read seats">>
      BY <2>1, <3>2
    <3>3. CASE s = <<"read seats", "seat", "version">>
      BY <2>1, <3>3
    <3> QED BY <3>1, <3>2, <3>3
  <2>3. UNCHANGED <<rows, next, history, raced, moved, origin>> /\ alone' = alone /\ op' = op
    BY <1>2 DEF Serialize, ghost
  <2>4. OthersKeep(p)
    BY <1>1, <1>2, <2>1 DEF OthersKeep, FramesInv, Serialize
  <2> QED BY <2>1, <2>2, <2>3, <2>4, GoFollows
<1>3. CASE CreateVersion(p)
  <2>1. pc[p] # "idle"
    BY <1>3 DEF CreateVersion
  <2>2. Throw(p) \/ /\ Goto(p, "done") /\ alone' = alone /\ op' = op
                    /\ UNCHANGED <<input, snap, found, rows, next, history, raced, moved, origin>>
    BY <1>3 DEF CreateVersion
  <2> QED BY <2>1, <2>2, ThrowFollows, GoFollows DEF OthersKeep
<1>4. CASE ReadLatest(p)
  <2>1. /\ pc[p] # "idle" /\ alone' = alone /\ op' = op
        /\ UNCHANGED <<input, snap, rows, next, history, raced, moved, origin>>
        /\ Goto(p, "done") \/ Goto(p, "other")
        /\ found' = found \/ \E f : found' = [found EXCEPT ![p] = f]
    BY <1>4 DEF ReadLatest, ghost
  <2>2. OthersKeep(p)
    BY <1>1, <2>1 DEF OthersKeep, FramesInv
  <2> QED BY <2>1, <2>2, GoFollows
<1>5. CASE ReadOther(p)
  <2>1. /\ pc[p] # "idle" /\ alone' = alone /\ op' = op
        /\ UNCHANGED <<input, rows, next, history, raced, moved, origin>>
        /\ Goto(p, "done") \/ Goto(p, "restore")
        /\ found' = found \/ \E f : found' = [found EXCEPT ![p] = f]
        /\ snap' = snap \/ \E f : snap' = [snap EXCEPT ![p] = f]
    BY <1>5 DEF ReadOther, ghost
  <2>2. OthersKeep(p)
    BY <1>1, <2>1 DEF OthersKeep, FramesInv
  <2> QED BY <2>1, <2>2, GoFollows
<1> QED BY <1>2, <1>3, <1>4, <1>5

\* A call begins that changes rows.
LEMMA EditFollows ==
    ASSUME Inv, Follows, NEW p \in Callers, NEW o, NEW d, Change(p, o, d),
           NEW n \in Nat, DOMAIN d \subseteq 0 .. n,
           \A i \in DOMAIN d : i \in DOMAIN rows \/ next < i
    PROVE  Follows'
<1>1. /\ Begin(p, o, "done") /\ Put(d) /\ UNCHANGED <<history, raced, input, snap, found>>
      /\ moved' = moved \cup {i \in DOMAIN rows \cap DOMAIN d : d[i].place # rows[i].place}
  BY DEF Change, Call
<1>2. FramesInv /\ next \in Nat /\ HistoryFits
  BY NextIsNumber DEF Follows
<1>3. \A i \in DOMAIN d : \/ i \in DOMAIN rows /\ (d[i].place = rows[i].place \/ i \in moved')
                          \/ i \notin DOMAIN rows /\ i \in Nat /\ next < i
  BY <1>1
<1>4. Undisturbed
  BY <1>1, <1>2, <1>3, PutUndisturbed
<1>5. Turn(p) /\ pc'[p] = "done"
  BY <1>1, <1>2, CallTurns DEF OthersKeep
<1> QED BY <1>2, <1>4, <1>5, QuietStep
-----------------------------------------------------------------------------
(* The steps that change rows *)

\* Drawing d keeps rows, or has new ones up to c.
Keeps(d, c) == \A i \in DOMAIN d : /\ i \in 0 .. c
                                   /\ \/ i \in DOMAIN rows /\ d[i] = rows[i]
                                      \/ i \notin DOMAIN rows /\ next < i

LEMMA KeepsUndisturbed ==
    ASSUME Inv, HistoryFits, NEW d, NEW c \in Nat, Keeps(d, c), Put(d),
           UNCHANGED <<history, raced, moved>>
    PROVE  Undisturbed
<1>1. \A i \in DOMAIN d : \/ i \in DOMAIN rows /\ (d[i].place = rows[i].place \/ i \in moved')
                          \/ i \notin DOMAIN rows /\ i \in Nat /\ next < i
  BY DEF Keeps
<1>2. DOMAIN d \subseteq 0 .. c
  BY DEF Keeps
<1> QED BY <1>1, <1>2, NextIsNumber, PutUndisturbed

LEMMA KeepsRows ==
    ASSUME Inv, NEW c \in Nat, next <= c
    PROVE  Keeps(rows, c)
<1>1. DOMAIN rows \subseteq 1 .. next /\ next \in Nat
  BY NextIsNumber
<1> QED BY <1>1 DEF Keeps

LEMMA KeepsWithout ==
    ASSUME Inv, NEW X
    PROVE  next \in Nat /\ Keeps(Without(X), next)
<1>1. DOMAIN rows \subseteq 1 .. next /\ next \in Nat
  BY NextIsNumber
<1> QED BY <1>1 DEF Keeps, Without

LEMMA KeepsJoined ==
    ASSUME Inv, NEW c \in Nat, NEW d, Keeps(d, c), NEW N, DOMAIN N \subseteq (next + 1) .. c
    PROVE  Keeps(Join(d, N), c)
<1> DEFINE e == Join(d, N)
<1>1. DOMAIN rows \subseteq 1 .. next /\ next \in Nat
  BY NextIsNumber
<1>2. /\ DOMAIN e = DOMAIN d \cup DOMAIN N
      /\ \A i \in DOMAIN d : e[i] = d[i]
  BY DEF Join
<1>3. \A i \in DOMAIN N : i \in 0 .. c /\ i \notin DOMAIN rows /\ next < i
  BY <1>1
<1> HIDE DEF e
<1>4. Keeps(e, c)
  BY <1>2, <1>3 DEF Keeps
<1> QED BY <1>4 DEF e

LEMMA KeepsDrawn ==
    ASSUME Inv, NEW c \in Nat, NEW N, DOMAIN N \subseteq (next + 1) .. c
    PROVE  Keeps(N, c)
<1>1. DOMAIN rows \subseteq 1 .. next /\ next \in Nat
  BY NextIsNumber
<1> QED BY <1>1 DEF Keeps

LEMMA WipeFollows ==
    ASSUME Inv, Follows, NEW p \in Callers, Wipe(p)
    PROVE  Follows'
<1>1. PICK t \in {<<"wipe seats", "seat", "wipe tables">>, <<"wipe tables", "table", "wipe sections">>,
                  <<"wipe sections", "section", "write">>} :
         /\ pc[p] = t[1]
         /\ Put(Without(Of(t[2], rows)))
         /\ Goto(p, t[3])
  BY DEF Wipe
<1> DEFINE to == t[3]
           X == Of(t[2], rows)
<1>2. pc[p] # "idle" /\ to \notin {"apply", "entry"}
  <2>1. CASE t = <<"wipe seats", "seat", "wipe tables">>
    BY <1>1, <2>1
  <2>2. CASE t = <<"wipe tables", "table", "wipe sections">>
    BY <1>1, <2>2
  <2>3. CASE t = <<"wipe sections", "section", "write">>
    BY <1>1, <2>3
  <2> QED BY <2>1, <2>2, <2>3
<1>3. Goto(p, to) /\ Put(Without(X))
  BY <1>1
<1>4. alone' = alone /\ op' = op /\ OthersKeep(p) /\ UNCHANGED <<history, raced, moved>>
  BY DEF Wipe, OthersKeep
<1> HIDE DEF to, X
<1>5. Undisturbed
  BY <1>3, <1>4, KeepsWithout, KeepsUndisturbed DEF Follows
<1> QED BY <1>2, <1>3, <1>4, <1>5, PutFollows

LEMMA WriteFollows ==
    ASSUME Inv, Follows, NEW p \in Callers, WriteGeometry(p)
    PROVE  Follows'
<1>1. PICK G : StateInv(G)
  BY DEF Inv
<1>2. pc[p] = "write" /\ IsGeometry(input[p])
  BY <1>1 DEF StateInv, CallOK, WriteGeometry
<1> DEFINE X == DOMAIN input[p]
           c == next + Cardinality(X)
           id == Fresh(X)
<1>3. /\ next \in Nat /\ c \in Nat /\ next <= c
      /\ \A i \in X : id[i] \in (next + 1) .. c
  <2>1. X \in SUBSET Nat /\ IsFiniteSet(X) /\ next \in Nat
    BY <1>2, GeometryRows, NextIsNumber
  <2> HIDE DEF X
  <2>2. Cardinality(X) \in Nat
    BY <2>1, FreshIsNew
  <2> QED BY <2>1, <2>2, FreshIsNew
<1>4. CASE Throw(p)
  BY <1>2, <1>4, ThrowFollows
<1>5. ASSUME ~Throw(p)
      PROVE  /\ \E d : Keeps(d, c) /\ Put(d)
             /\ Goto(p, "read sections")
             /\ UNCHANGED <<history, raced, moved, op, alone, input, snap, found>>
  <2> DEFINE d == input[p]
             Named1(s, r) == {i \in Of("section", r) : r[i].name = d[s].name}
             new == {s \in Of("section", d) :
                      /\ Named1(s, rows) = {}
                      /\ \A t \in Of("section", d) : d[t].name = d[s].name => s <= t}
             r1 == Join(rows, Drawn(d, new, id))
             section == [s \in Of("section", d) |-> CHOOSE i \in Named1(s, r1) : TRUE]
             tables == Of("table", d)
             m2 == [i \in DOMAIN d |-> IF i \in tables THEN id[i]
                                       ELSE IF i \in DOMAIN section THEN section[i] ELSE i]
             r2 == Join(r1, Drawn(d, tables, m2))
             names == {d[t].name : t \in tables}
  <2>1. \E table \in [names -> Of("table", r2)] :
            LET At(i) == table[d[d[i].table].name]
                seats == [n \in {id[i] : i \in Of("seat", d)} |->
                            LET i == CHOOSE i \in Of("seat", d) : id[i] = n
                            IN  [d[i] EXCEPT !.table = At(i),
                                             !.section = SectionOfSeat(d, i, section, At(i), r2)]]
            IN  /\ Put(Join(r2, seats))
                /\ Goto(p, "read sections")
                /\ UNCHANGED <<group, versions, history, pending, calls, faults, op,
                               input, snap, found, alone, raced, moved, outlines>>
    BY <1>5 DEF WriteGeometry
  <2>2. /\ \E N : DOMAIN N = {id[i] : i \in Of("seat", d)} /\ Put(Join(r2, N))
        /\ Goto(p, "read sections")
        /\ UNCHANGED <<history, raced, moved, op, alone, input, snap, found>>
    BY <2>1
  <2>3. /\ \A i \in Of("seat", d) : i \in X
        /\ \A i \in tables : i \in X /\ m2[i] = id[i]
        /\ \A i \in new : i \in X
    BY DEF Of
  <2>4. DOMAIN Drawn(d, new, id) = {id[i] : i \in new}
    BY DEF Drawn
  <2>5. DOMAIN Drawn(d, tables, m2) = {m2[i] : i \in tables}
    BY DEF Drawn
  <2> HIDE DEF new, tables, m2, X, c, id, d
  <2>6. Keeps(rows, c)
    BY <1>3, KeepsRows
  <2>7. Keeps(r1, c)
    BY <1>3, <2>3, <2>4, <2>6, KeepsJoined
  <2> HIDE DEF r1
  <2>8. Keeps(r2, c)
    BY <1>3, <2>3, <2>5, <2>7, KeepsJoined
  <2> HIDE DEF r2
  <2>9. PICK N : DOMAIN N = {id[i] : i \in Of("seat", d)} /\ Put(Join(r2, N))
    BY <2>2
  <2>10. DOMAIN N \subseteq (next + 1) .. c
    BY <1>3, <2>3, <2>9
  <2>11. Keeps(Join(r2, N), c)
    BY <1>3, <2>8, <2>10, KeepsJoined
  <2> QED BY <2>2, <2>9, <2>11
<1>6. CASE ~Throw(p)
  <2>1. PICK d : Keeps(d, c) /\ Put(d)
    BY <1>5, <1>6
  <2>2. Undisturbed
    BY <1>3, <1>5, <1>6, <2>1, KeepsUndisturbed DEF Follows
  <2>3. OthersKeep(p)
    BY <1>5, <1>6 DEF OthersKeep
  <2>4. pc[p] # "idle" /\ Goto(p, "read sections") /\ alone' = alone /\ op' = op
    BY <1>2, <1>5, <1>6
  <2> QED BY <2>2, <2>3, <2>4, PutFollows
<1> QED BY <1>4, <1>6

LEMMA CopyRowsFollow ==
    ASSUME Inv, Follows, NEW p \in Callers, CopyRows(p)
    PROVE  Follows'
<1>1. PICK G : StateInv(G)
  BY DEF Inv
<1>2. pc[p] = "copy" /\ CopyInv(input[p], found[p], G) /\ LayoutInv(G)
  BY <1>1 DEF StateInv, CallOK, CopyRows
<1>3. CASE Throw(p)
  BY <1>2, <1>3, ThrowFollows
<1>4. ASSUME NEW X \in Batches(input[p], DOMAIN input[p] \ DOMAIN found[p]),
             LET m == Join(found[p], Fresh(X))
                 copied == Join(rows, Drawn(input[p], X, m))
             IN  /\ Put(copied) /\ found' = [found EXCEPT ![p] = m],
             UNCHANGED <<history, raced, moved, pc, op, input, snap, alone>>
      PROVE  Follows'
  <2> DEFINE m == Join(found[p], Fresh(X))
             c == next + Cardinality(X)
             N == Drawn(input[p], X, m)
  <2>1. /\ X \subseteq DOMAIN input[p] \ DOMAIN found[p]
        /\ DOMAIN input[p] \subseteq Nat /\ IsFiniteSet(DOMAIN input[p])
    <3>1. Lineage(G)
      BY <1>2 DEF LayoutInv
    <3>2. X \subseteq DOMAIN input[p] \ DOMAIN found[p]
      BY <1>2, <3>1, BatchIsReady
    <3> QED BY <1>2, <3>1, <3>2 DEF CopyInv, Copies, Lineage
  <2>2. /\ next \in Nat /\ c \in Nat /\ next <= c
        /\ \A i \in X : Fresh(X)[i] \in (next + 1) .. c
    <3>1. X \in SUBSET Nat /\ IsFiniteSet(X) /\ next \in Nat
      BY <2>1, FS_Subset, NextIsNumber
    <3>2. Cardinality(X) \in Nat /\ \A i \in X : Fresh(X)[i] \in (next + 1) .. (next + Cardinality(X))
      BY <3>1, FreshIsNew
    <3> QED BY <3>1, <3>2
  <2>3. \A i \in X : m[i] = Fresh(X)[i]
    BY <2>1 DEF Join, Fresh
  <2>4. DOMAIN N = {m[i] : i \in X}
    BY DEF Drawn
  <2>5. Put(Join(rows, N)) /\ found' = [found EXCEPT ![p] = m]
    BY <1>4
  <2> HIDE DEF m, c, N
  <2>6. DOMAIN N \subseteq (next + 1) .. c
    BY <2>2, <2>3, <2>4
  <2>7. Keeps(Join(rows, N), c)
    BY <2>2, <2>6, KeepsRows, KeepsJoined
  <2>8. Undisturbed
    BY <1>4, <2>2, <2>5, <2>7, KeepsUndisturbed DEF Follows
  <2>9. OthersKeep(p)
    BY <1>4, <2>5 DEF OthersKeep, Inv, FramesInv
  <2> QED BY <1>2, <1>4, <2>8, <2>9, PutRemains
<1>5. CASE Goto(p, "read sections") /\ UNCHANGED <<rows, next, history, ghost, op, input, snap, found, alone>>
  BY <1>2, <1>5, GoFollows DEF OthersKeep, ghost
<1> QED BY <1>3, <1>4, <1>5 DEF CopyRows

LEMMA RestoreFollows ==
    ASSUME Inv, Follows, NEW p \in Callers, RestoreVersion(p)
    PROVE  Follows'
<1>1. PICK G : StateInv(G)
  BY DEF Inv
<1>2. pc[p] = "restore" /\ SnapInv(snap[p], G) /\ LayoutInv(G)
  BY <1>1 DEF StateInv, CallOK, RestoreVersion
<1> DEFINE X == Restorable(snap[p])
           c == next + Cardinality(X)
           N == Drawn(snap[p], X, Fresh(X))
<1>3. Put(N) /\ Goto(p, "done") /\ UNCHANGED <<history, raced, moved, op, input, snap, found, alone>>
  BY DEF RestoreVersion
<1>4. X \in SUBSET Nat /\ IsFiniteSet(X)
  <2>1. Lineage(G) /\ next \in Nat /\ DOMAIN G \subseteq 1 .. next
    BY <1>2 DEF LayoutInv
  <2>2. X \subseteq DOMAIN snap[p] /\ X \subseteq Nat \ {0}
    BY <1>2, <2>1, RestorableRows
  <2>3. X \subseteq 1 .. next
    BY <1>2, <2>1, <2>2 DEF SnapInv, Akin
  <2>4. IsFiniteSet(1 .. next)
    BY <2>1, FS_Interval
  <2> HIDE DEF X
  <2> QED BY <2>2, <2>3, <2>4, FS_Subset
<1> HIDE DEF X
<1>5. /\ next \in Nat /\ c \in Nat /\ next <= c
      /\ \A i \in X : Fresh(X)[i] \in (next + 1) .. c
  <2>1. next \in Nat
    BY NextIsNumber
  <2>2. Cardinality(X) \in Nat /\ \A i \in X : Fresh(X)[i] \in (next + 1) .. (next + Cardinality(X))
    BY <1>4, <2>1, FreshIsNew
  <2> QED BY <2>1, <2>2
<1>6. DOMAIN N = {Fresh(X)[i] : i \in X}
  BY DEF Drawn
<1> HIDE DEF c, N
<1>7. Keeps(N, c)
  BY <1>5, <1>6, KeepsDrawn
<1>8. Undisturbed
  BY <1>3, <1>5, <1>7, KeepsUndisturbed DEF Follows
<1> QED BY <1>2, <1>3, <1>8, PutFollows DEF OthersKeep

LEMMA CreateFollows ==
    ASSUME Inv, Follows, NEW p \in Callers, NEW r, Create(p, r)
    PROVE  Follows'
<1> DEFINE d == Join(rows, One(next + 1, r))
<1>1. next \in Nat /\ DOMAIN rows \subseteq 0 .. next
  BY NextIsNumber
<1>2. DOMAIN d = DOMAIN rows \cup {next + 1}
  BY DEF Join, One
<1>3. DOMAIN d \subseteq 0 .. (next + 1) /\ next + 1 \in Nat
  BY <1>1, <1>2
<1>4. Change(p, "edit", d)
  BY DEF Create
<1> HIDE DEF d
<1>5. \A i \in DOMAIN d : i \in DOMAIN rows \/ next < i
  BY <1>1, <1>2
<1> QED BY <1>3, <1>4, <1>5, EditFollows

LEMMA ChangesFollow ==
    ASSUME Inv, Follows, NEW p \in Callers, NEW i,
           Delete(p, i) \/ Rename(p, i) \/ Move(p, i) \/ Update(p, i)
    PROVE  Follows'
<1>1. next \in Nat /\ DOMAIN rows \subseteq 0 .. next
  BY NextIsNumber
<1>2. \E o, d : Edit(p, o, d) /\ DOMAIN d \subseteq DOMAIN rows
  <2>1. CASE Delete(p, i)
    <3>1. DOMAIN Without({i}) \subseteq DOMAIN rows
      BY DEF Without
    <3> QED BY <2>1, <3>1 DEF Delete
  <2>2. CASE Rename(p, i)
    <3>1. DOMAIN [rows EXCEPT ![i].name = Name(9)] \subseteq DOMAIN rows
      OBVIOUS
    <3> QED BY <2>2, <3>1 DEF Rename
  <2>3. CASE Move(p, i)
    <3>1. PICK at \in Places : Edit(p, "move", [rows EXCEPT ![i].place = at])
      BY <2>3 DEF Move
    <3>2. DOMAIN [rows EXCEPT ![i].place = at] \subseteq DOMAIN rows
      OBVIOUS
    <3> QED BY <3>1, <3>2
  <2>4. CASE Update(p, i)
    <3>1. PICK name \in {rows[i].name, Name(9)}, at \in Places :
              Edit(p, "update", [rows EXCEPT ![i].name = name, ![i].place = at])
      BY <2>4 DEF Update
    <3>2. DOMAIN [rows EXCEPT ![i].name = name, ![i].place = at] \subseteq DOMAIN rows
      OBVIOUS
    <3> QED BY <3>1, <3>2
  <2> QED BY <2>1, <2>2, <2>3, <2>4
<1>3. PICK o, d : Edit(p, o, d) /\ DOMAIN d \subseteq DOMAIN rows
  BY <1>2
<1>4. DOMAIN d \subseteq 0 .. next /\ \A j \in DOMAIN d : j \in DOMAIN rows \/ next < j
  BY <1>1, <1>3
<1> QED BY <1>1, <1>3, <1>4, EditFollows DEF Edit

LEMMA EditsFollow ==
    ASSUME Inv, Follows, NEW p \in Callers,
           \/ CreateSection(p) \/ UpdateSection(p) \/ RenameSection(p) \/ DeleteSection(p)
           \/ MoveSection(p) \/ CreateTable(p) \/ UpdateTable(p) \/ RenameTable(p)
           \/ DeleteTable(p) \/ MoveTable(p) \/ CreateSeat(p) \/ UpdateSeat(p)
           \/ DeleteSeat(p) \/ MoveSeat(p)
    PROVE  Follows'
<1>1. \/ \E r : Create(p, r)
      \/ \E i : Delete(p, i) \/ Rename(p, i) \/ Move(p, i) \/ Update(p, i)
  BY DEF CreateSection, UpdateSection, RenameSection, DeleteSection, MoveSection, CreateTable,
         UpdateTable, RenameTable, DeleteTable, MoveTable, CreateSeat, UpdateSeat, DeleteSeat,
         MoveSeat
<1> QED BY <1>1, CreateFollows, ChangesFollow

LEMMA DeleteSeatsFollows ==
    ASSUME Inv, Follows, NEW p \in Callers, DeleteSeats(p)
    PROVE  Follows'
<1>1. /\ Begin(p, "delete", "done") /\ Put(Empty)
      /\ UNCHANGED <<history, raced, moved, input, snap, found>>
  BY DEF DeleteSeats, Call
<1>2. DOMAIN Empty = {}
  BY DEF Empty
<1>3. FramesInv /\ next \in Nat /\ Keeps(Empty, next)
  BY <1>2, NextIsNumber DEF Keeps
<1>4. Undisturbed
  BY <1>1, <1>3, KeepsUndisturbed DEF Follows
<1>5. Turn(p) /\ pc'[p] = "done"
  BY <1>1, <1>3, CallTurns DEF OthersKeep
<1> QED BY <1>3, <1>4, <1>5, QuietStep
-----------------------------------------------------------------------------
(* Reading the layout or the history *)

LEMMA ApplyFollows ==
    ASSUME Inv, Follows, NEW p \in Callers, Apply(p)
    PROVE  Follows'
<1>1. FramesInv /\ next \in Nat
  BY NextIsNumber
<1>2. PICK X \in SUBSET Of("seat", rows) :
          \E after \in [X -> Places] :
              /\ input' = [input EXCEPT ![p] = after]
              /\ found' = [found EXCEPT ![p] = [i \in X |-> rows[i].place]]
  BY DEF Apply
<1>3. /\ Begin(p, "apply", "apply")
      /\ UNCHANGED <<rows, next, history, raced, moved, origin, snap>>
  BY DEF Apply, Call, ghost
<1>4. OthersKeep(p)
  BY <1>1, <1>2, <1>3 DEF OthersKeep, FramesInv
<1>5. Turn(p) /\ pc'[p] = "apply"
  BY <1>1, <1>3, <1>4, CallTurns
<1>6. ReadFits(p)'
  <2>1. input'[p] \in [X -> Places] /\ found'[p] = [i \in X |-> rows[i].place] /\ X \subseteq DOMAIN rows
    BY <1>1, <1>2 DEF FramesInv, Of
  <2>2. DOMAIN input'[p] = X /\ DOMAIN found'[p] = X /\ \A i \in X : found'[p][i] = rows[i].place
    BY <2>1
  <2> QED BY <1>3, <1>5, <2>1, <2>2 DEF ReadFits
<1>7. AloneFits' /\ ReadsFit'
  BY <1>1, <1>5, <1>6, AloneStays, ReadsStay DEF Follows
<1>8. Undisturbed
  BY <1>1, <1>3, NothingDisturbed DEF Follows
<1> QED BY <1>7, <1>8, HistoryUndisturbed DEF Follows

LEMMA LookFollows ==
    ASSUME Inv, Follows, NEW p \in Callers, NEW o, o \in {"undo", "redo"},
           NEW entries, entries = IF o = "undo" THEN Applied ELSE Undone, Look(p, o, entries)
    PROVE  Follows'
<1>1. FramesInv /\ next \in Nat /\ HistoryInv
  BY NextIsNumber DEF Inv
<1>2. CASE entries = {}
  <2>1. Begin(p, o, "latest") /\ UNCHANGED <<rows, next, history, ghost, input, snap>>
        /\ found' = [found EXCEPT ![p] = @]
    BY <1>2 DEF Look, Call
  <2>2. OthersKeep(p)
    BY <1>1, <2>1 DEF OthersKeep, FramesInv
  <2> QED BY <2>1, <2>2, BeginFollows
<1>3. CASE entries # {}
  <2> DEFINE n == Candidate(o)
  <2>1. /\ Begin(p, o, "entry") /\ UNCHANGED <<rows, next, history, raced, moved, origin, input, snap>>
        /\ found' = [found EXCEPT ![p] = One(n, history[n])]
    BY <1>3 DEF Look, Call, ghost
  <2>2. n \in DOMAIN history /\ Chosen(o, n)
    <3>1. CASE o = "undo"
      <4>1. n = Max(Applied) /\ Applied # {}
        BY <1>3, <3>1 DEF Candidate
      <4> HIDE DEF n
      <4>2. n \in Applied /\ \A k \in Applied : k <= n
        BY <1>1, <4>1, AppliedMax
      <4> QED BY <3>1, <4>2 DEF Chosen, Applied
    <3>2. CASE o = "redo"
      <4>1. n = Min(Undone) /\ Undone # {} /\ Undone \in SUBSET Nat
        BY <1>1, <1>3, <3>2 DEF Candidate, HistoryInv, Undone
      <4> HIDE DEF n
      <4>2. n \in Undone /\ \A k \in Undone : n <= k
        BY <4>1, MinIsLeast
      <4> QED BY <3>2, <4>2 DEF Chosen, Undone
    <3> QED BY <3>1, <3>2
  <2> HIDE DEF n
  <2>3. OthersKeep(p)
    BY <1>1, <2>1 DEF OthersKeep, FramesInv
  <2>4. Turn(p) /\ pc'[p] = "entry" /\ op'[p] = o
    BY <1>1, <2>1, <2>3, CallTurns, BeginsAlone
  <2>5. ReadFits(p)'
    <3>1. found'[p] = One(n, history[n])
      BY <1>1, <2>1 DEF FramesInv
    <3>2. history' = history
      BY <2>1
    <3>3. Applied' = Applied /\ Undone' = Undone
      BY <3>2 DEF Applied, Undone
    <3>4. \E k \in DOMAIN history' : Chosen(op[p], k)' /\ found'[p] = One(k, history'[k])
      BY <2>2, <2>4, <3>1, <3>2, <3>3 DEF Chosen
    <3> QED BY <2>4, <3>4 DEF ReadFits
  <2>6. AloneFits' /\ ReadsFit'
    BY <1>1, <2>4, <2>5, AloneStays, ReadsStay DEF Follows
  <2>7. Undisturbed
    BY <1>1, <2>1, NothingDisturbed DEF Follows
  <2> QED BY <2>6, <2>7, HistoryUndisturbed DEF Follows
<1> QED BY <1>2, <1>3
-----------------------------------------------------------------------------
(* Changing the geometry *)

\* The rows of d are put where it says.
LEMMA RowsMoved ==
    ASSUME Inv, NEW d, rows' = Moved(d)
    PROVE  /\ DOMAIN rows' = DOMAIN rows
           /\ \A i \in DOMAIN rows : rows'[i].place = IF i \in DOMAIN d THEN d[i] ELSE rows[i].place
<1>1. PICK G : StateInv(G)
  BY DEF Inv
<1>2. \A i \in DOMAIN rows : IsRow(rows[i])
  BY <1>1 DEF StateInv, LayoutInv, Akin
<1>3. DOMAIN rows' = DOMAIN rows
  BY DEF Moved
<1>4. ASSUME NEW i \in DOMAIN rows
      PROVE  rows'[i].place = IF i \in DOMAIN d THEN d[i] ELSE rows[i].place
  <2> DEFINE r == rows[i]
             at == d[i]
  <2>1. rows'[i] = IF i \in DOMAIN d THEN [r EXCEPT !.place = at] ELSE r
    BY DEF Moved
  <2>2. IsRow(r)
    BY <1>2
  <2> HIDE DEF r, at
  <2>3. [r EXCEPT !.place = at].place = at
    BY <2>2 DEF IsRow, Row
  <2>4. rows'[i].place = IF i \in DOMAIN d THEN at ELSE r.place
    BY <2>1, <2>3
  <2> QED BY <2>4 DEF r, at
<1> QED BY <1>3, <1>4

\* A new entry comes after those that are applied, and drops the others.
LEMMA EntryAdded ==
    ASSUME HistoryInv, HistoryFits, ~raced, next \in Nat, DOMAIN rows \subseteq 1 .. next,
           next' = next + 1, moved' = moved, origin' = origin,
           DOMAIN rows' = DOMAIN rows,
           NEW g, history' = g, NEW n \in Nat, \A k \in Applied : k < n,
           DOMAIN g = Applied \cup {n}, Applied' = Applied \cup {n},
           \A k \in Applied : g[k] = history[k],
           NEW X \in SUBSET DOMAIN rows,
           DOMAIN g[n].after = X, DOMAIN g[n].before = X,
           \A i \in X : /\ g[n].before[i] = rows[i].place
                        /\ rows'[i].place = g[n].after[i],
           \A i \in DOMAIN rows \ X : rows'[i].place = rows[i].place
    PROVE  HistoryFits'
<1>1. Bounded(Applied \cup {n}) /\ Newest(n, Applied \cup {n}) /\ \A S \in SUBSET Applied : Bounded(S)
  <2>1. PICK k1 \in Nat : DOMAIN history \subseteq 0 .. k1
    BY DEF HistoryInv
  <2>2. Applied \subseteq 0 .. (k1 + n) /\ n \in 0 .. (k1 + n) /\ k1 + n \in Nat
    BY <2>1 DEF Applied
  <2>3. \A k \in Applied \cup {n} : k <= n
    <3>1. \A k \in Applied : k \in Nat /\ k <= n
      BY <2>1 DEF Applied
    <3>2. n <= n
      OBVIOUS
    <3> QED BY <3>1, <3>2
  <2> QED BY <2>2, <2>3 DEF Bounded, Newest
<1>2. /\ DOMAIN origin = DOMAIN rows /\ Named /\ UndoneLast
      /\ \A i \in DOMAIN rows \ moved : IsPut(i) /\ \A k \in DOMAIN history : Remembers(k, i)
  BY DEF HistoryFits
<1>3. Applied \subseteq DOMAIN history /\ n \notin Applied
  BY DEF Applied
<1>4. Undone' = {}
  BY DEF Undone
<1>5. Named'
  <2>1. ASSUME NEW k \in Applied
        PROVE  DOMAIN history[k].after \subseteq 1 .. next'
    BY <1>2, <1>3 DEF Named
  <2>2. X \subseteq 1 .. next'
    OBVIOUS
  <2> QED BY <1>2, <1>3, <2>1, <2>2 DEF Named
<1>6. UndoneLast'
  BY <1>4 DEF UndoneLast
<1>7. Below(n)' = Applied
  <2>1. ~(n < n)
    OBVIOUS
  <2> QED BY <2>1 DEF Below
<1>8. ASSUME NEW k \in Applied
      PROVE  Below(k)' = Below(k) /\ Below(k) \subseteq Applied
  <2>1. \A j \in DOMAIN history : j \notin Applied => k < j
    BY <1>2 DEF UndoneLast, Undone
  <2>2. \A j \in DOMAIN history : j \in Nat
    BY DEF HistoryInv
  <2>3. k \in Nat /\ k < n
    BY <1>3, <2>2
  <2>4. \A j \in DOMAIN history : j < k => j \in Applied
    BY <2>1, <2>2, <2>3
  <2>5. ~(n < k)
    BY <2>3
  <2> QED BY <1>3, <2>4, <2>5 DEF Below
<1>9. ASSUME NEW i, NEW S \in SUBSET Applied
      PROVE  PutBy(g, origin[i], i, S) = PutBy(history, origin[i], i, S)
  <2>1. Bounded(S) /\ SameChanges(g, history, S)
    BY <1>1 DEF SameChanges
  <2> QED BY <2>1, PutBySame
<1>10. ASSUME NEW i \in DOMAIN rows \ moved
       PROVE  IsPut(i)' /\ \A k \in DOMAIN history' : Remembers(k, i)'
  <2>1. rows[i].place = PutBy(history, origin[i], i, Applied)
    BY <1>2 DEF IsPut
  <2>2. rows[i].place = PutBy(g, origin[i], i, Applied)
    BY <1>9, <2>1
  <2>3. IsPut(i)'
    <3>1. CASE i \in X
      <4>1. PutBy(g, origin[i], i, Applied \cup {n}) = g[n].after[i]
        BY <1>1, <3>1, PutByNewest
      <4> QED BY <3>1, <4>1 DEF IsPut
    <3>2. CASE i \notin X
      <4>1. PutBy(g, origin[i], i, Applied \cup {n}) = PutBy(g, origin[i], i, Applied)
        BY <3>2, PutByOthers
      <4> QED BY <2>2, <3>2, <4>1 DEF IsPut
    <3> QED BY <3>1, <3>2
  <2>4. Remembers(n, i)'
    BY <1>7, <2>2 DEF Remembers
  <2>5. ASSUME NEW k \in Applied
        PROVE  Remembers(k, i)'
    <3>1. Remembers(k, i)
      BY <1>2, <1>3
    <3>2. PutBy(g, origin[i], i, Below(k)) = PutBy(history, origin[i], i, Below(k))
      BY <1>8, <1>9
    <3> QED BY <1>8, <3>1, <3>2 DEF Remembers
  <2> QED BY <2>3, <2>4, <2>5
<1> QED BY <1>2, <1>5, <1>6, <1>10 DEF HistoryFits

\* Operation o takes entry n back, or back in: rows go where d says, the history becomes g.
Uses(o, n, d, g) ==
    /\ n \in DOMAIN history /\ Chosen(o, n)
    /\ history' = g /\ DOMAIN g = DOMAIN history /\ SameChanges(g, history, DOMAIN history)
    /\ \A k \in DOMAIN history : g[k].before = history[k].before
    /\ Applied' = IF o = "undo" THEN Applied \ {n} ELSE Applied \cup {n}
    /\ d = IF o = "undo" THEN history[n].before ELSE history[n].after
    /\ DOMAIN rows' = DOMAIN rows
    /\ \A i \in DOMAIN rows : rows'[i].place = IF i \in DOMAIN d THEN d[i] ELSE rows[i].place

LEMMA EntryUsed ==
    ASSUME HistoryInv, HistoryFits, ~raced, next' = next, moved' = moved, origin' = origin,
           NEW o, NEW n, NEW d, NEW g, Uses(o, n, d, g)
    PROVE  HistoryFits'
<1> USE DEF Uses
<1>1. /\ DOMAIN origin = DOMAIN rows /\ Named /\ UndoneLast
      /\ \A i \in DOMAIN rows \ moved : IsPut(i) /\ \A k \in DOMAIN history : Remembers(k, i)
  BY DEF HistoryFits
<1>2. /\ Bounded(DOMAIN history) /\ \A k \in DOMAIN history : k \in Nat
      /\ \A S \in SUBSET DOMAIN history : Bounded(S)
  BY DEF HistoryInv, Bounded
<1>3. Applied \subseteq DOMAIN history /\ Undone' = DOMAIN history \ Applied'
  BY DEF Applied, Undone
<1>4. Applied \ {n} = Below(n)
  <2>1. CASE o = "undo"
    <3>1. n \in Applied /\ \A k \in Applied : k <= n
      BY <2>1 DEF Chosen
    <3>2. \A k \in Applied \ {n} : k < n
      BY <1>2, <1>3, <3>1
    <3>3. \A k \in DOMAIN history \ Applied : ~(k < n)
      BY <1>1, <1>2, <3>1 DEF UndoneLast, Undone
    <3>4. ~(n < n)
      BY <1>2
    <3> QED BY <1>3, <3>2, <3>3, <3>4 DEF Below
  <2>2. CASE o = "redo"
    <3>1. n \in Undone /\ \A k \in Undone : n <= k
      BY <2>2 DEF Chosen
    <3>2. \A k \in Applied : k < n
      BY <1>1, <3>1 DEF UndoneLast
    <3>3. \A k \in DOMAIN history \ Applied : ~(k < n)
      BY <1>2, <3>1 DEF Undone
    <3>4. ~(n < n)
      BY <1>2
    <3> QED BY <1>3, <3>2, <3>3, <3>4 DEF Below
  <2> QED BY <2>1, <2>2 DEF Chosen
<1>5. Named' /\ \A k : Below(k)' = Below(k)
  <2>1. Named'
    BY <1>1 DEF Named, SameChanges
  <2> QED BY <2>1 DEF Below
<1>6. ASSUME NEW k \in Applied', NEW j \in Undone'
      PROVE  k < j
  <2>1. CASE o = "undo"
    <3>1. k \in Below(n) /\ k \in Applied /\ n \in Applied
      BY <1>4, <1>6, <2>1 DEF Chosen
    <3>2. j \in Undone \/ j = n
      BY <1>3, <1>6, <2>1 DEF Undone
    <3> QED BY <1>1, <3>1, <3>2 DEF UndoneLast, Below
  <2>2. CASE o = "redo"
    <3>1. k \in Applied \/ k = n
      BY <1>6, <2>2
    <3>2. j \in Undone /\ j # n
      BY <1>3, <1>6, <2>2 DEF Undone
    <3>3. n <= j /\ n \in Nat /\ j \in Nat
      BY <1>2, <2>2, <3>2 DEF Chosen, Undone
    <3> QED BY <1>1, <3>1, <3>2, <3>3 DEF UndoneLast
  <2> QED BY <2>1, <2>2 DEF Chosen
<1>7. ASSUME NEW i, NEW S \in SUBSET DOMAIN history
      PROVE  PutBy(g, origin[i], i, S) = PutBy(history, origin[i], i, S)
  <2>1. Bounded(S) /\ SameChanges(g, history, S)
    BY <1>2 DEF SameChanges
  <2> QED BY <2>1, PutBySame
<1>8. ASSUME NEW i \in DOMAIN rows \ moved
      PROVE  IsPut(i)' /\ \A k \in DOMAIN history' : Remembers(k, i)'
  <2>1. /\ rows[i].place = PutBy(history, origin[i], i, Applied)
        /\ \A k \in DOMAIN history : Remembers(k, i)
    BY <1>1 DEF IsPut
  <2>2. ASSUME NEW k \in DOMAIN history
        PROVE  Remembers(k, i)'
    <3>1. Below(k) \in SUBSET DOMAIN history
      BY DEF Below
    <3>2. PutBy(g, origin[i], i, Below(k)) = PutBy(history, origin[i], i, Below(k))
      BY <1>7, <3>1
    <3> QED BY <1>5, <2>1, <3>2 DEF Remembers
  <2>3. i \in DOMAIN history[n].after <=> i \in DOMAIN history[n].before
    BY <1>1 DEF Named
  <2>4. i \notin DOMAIN history[n].after =>
           /\ PutBy(history, origin[i], i, (Applied \ {n}) \cup {n})
                = PutBy(history, origin[i], i, Applied \ {n})
           /\ PutBy(history, origin[i], i, Applied \cup {n})
                = PutBy(history, origin[i], i, Applied)
    <3>1. ASSUME i \notin DOMAIN history[n].after, NEW S
          PROVE  PutBy(history, origin[i], i, S \cup {n}) = PutBy(history, origin[i], i, S)
      BY <3>1, PutByOthers
    <3> QED BY <3>1
  <2>5. rows'[i].place = PutBy(history, origin[i], i, Applied')
    <3>1. CASE o = "undo"
      <4>1. (Applied \ {n}) \cup {n} = Applied /\ Applied' = Applied \ {n}
        BY <3>1 DEF Chosen
      <4>2. CASE i \in DOMAIN history[n].before
        <5>1. rows'[i].place = history[n].before[i]
          BY <3>1, <4>2
        <5>2. history[n].before[i] = PutBy(history, origin[i], i, Below(n))
          BY <2>1, <4>2 DEF Remembers
        <5> QED BY <1>4, <4>1, <5>1, <5>2
      <4>3. CASE i \notin DOMAIN history[n].before
        <5>1. rows'[i].place = rows[i].place
          BY <3>1, <4>3
        <5> QED BY <2>1, <2>3, <2>4, <4>1, <4>3, <5>1
      <4> QED BY <4>2, <4>3
    <3>2. CASE o = "redo"
      <4>1. Applied' = Applied \cup {n} /\ n \notin Applied
        BY <3>2 DEF Chosen, Undone
      <4>2. CASE i \in DOMAIN history[n].after
        <5>1. rows'[i].place = history[n].after[i]
          BY <3>2, <4>2
        <5>2. Applied = Below(n) /\ n <= n
          <6>1. Applied \ {n} = Applied
            BY <4>1
          <6>2. n <= n
            BY <1>2
          <6> QED BY <1>4, <6>1, <6>2
        <5>3. \A k \in Applied : k <= n
          BY <1>2, <5>2 DEF Below
        <5>4. Newest(n, Applied \cup {n}) /\ Bounded(Applied \cup {n})
          BY <1>2, <1>3, <5>2, <5>3 DEF Newest
        <5>5. PutBy(history, origin[i], i, Applied \cup {n}) = history[n].after[i]
          BY <4>2, <5>4, PutByNewest
        <5> QED BY <4>1, <5>1, <5>5
      <4>3. CASE i \notin DOMAIN history[n].after
        <5>1. rows'[i].place = rows[i].place
          BY <3>2, <4>3
        <5> QED BY <2>1, <2>4, <4>1, <4>3, <5>1
      <4> QED BY <4>2, <4>3
    <3> QED BY <3>1, <3>2 DEF Chosen
  <2>6. Applied' \in SUBSET DOMAIN history
    BY <1>3
  <2>7. IsPut(i)'
    BY <1>7, <2>5, <2>6 DEF IsPut
  <2> QED BY <2>2, <2>7
<1>9. UndoneLast'
  BY <1>6 DEF UndoneLast
<1> QED BY <1>1, <1>5, <1>8, <1>9 DEF HistoryFits

\* After a change of geometry that overlapped with others, nothing is said of the history.
LEMMA RacedFits ==
    ASSUME HistoryFits, raced', DOMAIN rows' = DOMAIN rows, origin' = origin
    PROVE  HistoryFits'
BY DEF HistoryFits

\* A call that is done with the history.
LEMMA DoneFollows ==
    ASSUME Inv, Follows, NEW p \in Callers, pc[p] # "idle", Goto(p, "done"),
           alone' = alone, op' = op, OthersKeep(p), HistoryFits'
    PROVE  Follows'
<1>1. FramesInv
  BY NextIsNumber
<1>2. Turn(p) /\ pc'[p] = "done"
  BY <1>1, CallGoesOn
<1>3. ReadFits(p)'
  BY <1>2 DEF ReadFits
<1> QED BY <1>1, <1>2, <1>3, AloneStays, ReadsStay DEF Follows

LEMMA ApplyGeometryFollows ==
    ASSUME Inv, Follows, NEW p \in Callers, ApplyGeometry(p)
    PROVE  Follows'
<1>1. /\ FramesInv /\ next \in Nat /\ HistoryInv /\ HistoryFits
      /\ DOMAIN rows \subseteq 1 .. next
  BY NextIsNumber DEF Inv, Follows
<1>2. pc[p] = "apply"
  BY DEF ApplyGeometry
<1>3. CASE Throw(p)
  BY <1>2, <1>3, ThrowFollows
<1>4. CASE ~Throw(p)
  <2> DEFINE n == IF Applied = {} THEN 0 ELSE Max(Applied) + 1
             X == DOMAIN input[p]
             e == [id |-> next', before |-> found[p], after |-> input[p], applied |-> TRUE]
             g == Join([k \in Applied |-> history[k]], One(n, e))
  <2>1. /\ rows' = Moved(input[p]) /\ next' = next + 1 /\ history' = g
        /\ raced' = (raced \/ ~alone[p]) /\ Goto(p, "done")
        /\ UNCHANGED <<op, input, snap, found, alone, moved, origin>>
        /\ X \subseteq DOMAIN rows
    BY <1>4 DEF ApplyGeometry
  <2>2. /\ DOMAIN rows' = DOMAIN rows
        /\ \A i \in DOMAIN rows : rows'[i].place = IF i \in X THEN input[p][i] ELSE rows[i].place
    BY <2>1, RowsMoved
  <2>3. HistoryFits'
    <3>1. CASE raced'
      BY <1>1, <2>1, <2>2, <3>1, RacedFits
    <3>2. CASE ~raced'
      <4>1. ~raced /\ alone[p]
        BY <2>1, <3>2
      <4>2. /\ DOMAIN found[p] = X
            /\ \A i \in X : found[p][i] = rows[i].place
        BY <1>2, <4>1 DEF Follows, ReadsFit, ReadFits
      <4>3. n \in Nat /\ \A k \in Applied : k < n
        <5>1. CASE Applied = {}
          BY <5>1
        <5>2. CASE Applied # {}
          <6>1. Max(Applied) \in Nat /\ \A k \in Applied : k <= Max(Applied)
            BY <1>1, <5>2, AppliedMax
          <6>2. n = Max(Applied) + 1
            BY <5>2
          <6>3. \A k \in Applied : k \in Nat
            BY <1>1 DEF HistoryInv, Applied
          <6> HIDE DEF n
          <6> QED BY <6>1, <6>2, <6>3
        <5> QED BY <5>1, <5>2
      <4> HIDE DEF n
      <4>4. n \notin Applied
        <5>1. ~(n < n)
          BY <4>3
        <5> QED BY <4>3, <5>1
      <4>5. /\ DOMAIN g = Applied \cup {n} /\ g[n] = e
            /\ \A k \in Applied : g[k] = history[k]
        BY <4>4 DEF Join, One
      <4>6. g[n].after = input[p] /\ g[n].before = found[p] /\ g[n].applied
        BY <4>5
      <4> HIDE DEF e, g
      <4>7. Applied' = Applied \cup {n}
        BY <2>1, <4>5, <4>6 DEF Applied
      <4>8. X \in SUBSET DOMAIN rows /\ DOMAIN g[n].after = X /\ DOMAIN g[n].before = X
        BY <2>1, <4>2, <4>6
      <4>9. /\ \A i \in X : /\ g[n].before[i] = rows[i].place
                            /\ rows'[i].place = g[n].after[i]
            /\ \A i \in DOMAIN rows \ X : rows'[i].place = rows[i].place
        BY <2>2, <4>2, <4>6, <4>8
      <4>10. history' = g /\ next' = next + 1 /\ moved' = moved /\ origin' = origin
        BY <2>1
      <4> HIDE DEF X
      <4> QED BY <1>1, <2>2, <4>1, <4>3, <4>5, <4>7, <4>8, <4>9, <4>10, EntryAdded
    <3> QED BY <3>1, <3>2
  <2> QED BY <1>2, <2>1, <2>3, DoneFollows DEF OthersKeep
<1> QED BY <1>3, <1>4

LEMMA ApplyEntryFollows ==
    ASSUME Inv, Follows, NEW p \in Callers, ApplyEntry(p)
    PROVE  Follows'
<1>1. FramesInv /\ HistoryInv /\ HistoryFits
  BY NextIsNumber DEF Inv, Follows
<1>2. pc[p] = "entry"
  BY DEF ApplyEntry
<1>3. CASE Throw(p)
  BY <1>2, <1>3, ThrowFollows
<1>4. CASE ~Throw(p)
  <2> DEFINE n == CHOOSE n \in DOMAIN found[p] : TRUE
             e == found[p][n]
             d == IF op[p] = "undo" THEN e.before ELSE e.after
             v == op[p] = "redo"
             g == [history EXCEPT ![n].applied = v]
  <2>1. /\ rows' = Moved(d) /\ history' = g
        /\ raced' = (raced \/ ~alone[p]) /\ Goto(p, "done")
        /\ UNCHANGED <<next, op, input, snap, found, alone, moved, origin>>
    BY <1>4 DEF ApplyEntry
  <2> HIDE DEF d
  <2>2. /\ DOMAIN rows' = DOMAIN rows
        /\ \A i \in DOMAIN rows : rows'[i].place = IF i \in DOMAIN d THEN d[i] ELSE rows[i].place
    BY <2>1, RowsMoved
  <2>3. HistoryFits'
    <3>1. CASE raced'
      BY <1>1, <2>1, <2>2, <3>1, RacedFits
    <3>2. CASE ~raced'
      <4>1. ~raced /\ alone[p]
        BY <2>1, <3>2
      <4>2. PICK m \in DOMAIN history : Chosen(op[p], m) /\ found[p] = One(m, history[m])
        BY <1>2, <4>1 DEF Follows, ReadsFit, ReadFits
      <4>3. n = m /\ e = history[m]
        BY <4>2 DEF One
      <4>4. IsEntry(history[m])
        BY <1>1 DEF HistoryInv
      <4>5. d = IF op[p] = "undo" THEN history[m].before ELSE history[m].after
        BY <4>3 DEF d
      <4>6. history' = [history EXCEPT ![m].applied = v]
        BY <2>1, <4>3
      <4> HIDE DEF n, e, g, v
      <4> DEFINE f == [history EXCEPT ![m].applied = v]
                 h == history[m]
      <4>7. f[m] = [h EXCEPT !.applied = v] /\ \A k \in DOMAIN history \ {m} : f[k] = history[k]
        OBVIOUS
      <4>8. DOMAIN f = DOMAIN history
        OBVIOUS
      <4>9. f[m].after = history[m].after /\ f[m].before = history[m].before /\ f[m].applied = v
        <5>1. IsEntry(h)
          BY <4>4
        <5> HIDE DEF h, f
        <5>2. f[m].after = h.after /\ f[m].before = h.before /\ f[m].applied = v
          BY <4>7, <5>1 DEF IsEntry
        <5> QED BY <5>2 DEF h
      <4>10. history' = f
        BY <4>6
      <4> HIDE DEF f
      <4>11. SameChanges(f, history, DOMAIN history) /\ \A k \in DOMAIN history : f[k].before = history[k].before
        BY <4>7, <4>9 DEF SameChanges
      <4>12. Applied' = {k \in DOMAIN history : f[k].applied}
        BY <4>8, <4>10 DEF Applied
      <4>13. Applied' = IF op[p] = "undo" THEN Applied \ {m} ELSE Applied \cup {m}
        <5>1. CASE op[p] = "undo"
          <6>1. ~f[m].applied
            BY <4>9, <5>1 DEF v
          <6> QED BY <4>7, <4>12, <5>1, <6>1 DEF Applied
        <5>2. CASE op[p] = "redo"
          <6>1. f[m].applied
            BY <4>9, <5>2 DEF v
          <6> QED BY <4>7, <4>12, <5>2, <6>1 DEF Applied
        <5> QED BY <4>2, <5>1, <5>2 DEF Chosen
      <4>14. next' = next /\ moved' = moved /\ origin' = origin
        BY <2>1
      <4>15. Uses(op[p], m, d, f)
        BY <2>2, <4>2, <4>5, <4>8, <4>10, <4>11, <4>13 DEF Uses
      <4> QED BY <1>1, <4>1, <4>14, <4>15, EntryUsed
    <3> QED BY <3>1, <3>2
  <2> QED BY <1>2, <2>1, <2>3, DoneFollows DEF OthersKeep
<1> QED BY <1>3, <1>4
-----------------------------------------------------------------------------
(* The theorem *)

LEMMA FollowsInit == Init => Follows
<1> SUFFICES ASSUME Init
             PROVE  Follows
  OBVIOUS
<1>1. DOMAIN history = {} /\ (\A p \in Callers : pc[p] = "idle") /\ ~raced /\ moved = {}
      /\ DOMAIN origin = DOMAIN rows /\ (\A i \in DOMAIN rows : origin[i] = rows[i].place)
  BY DEF Init
<1>2. AloneFits /\ ReadsFit
  BY <1>1 DEF AloneFits, ReadsFit, ReadFits
<1>3. Applied = {} /\ Undone = {}
  BY <1>1 DEF Applied, Undone
<1>4. \A i \in DOMAIN rows : IsPut(i)
  BY <1>1, <1>3, PutByNone DEF IsPut
<1>5. Named /\ UndoneLast /\ \A i : \A n \in DOMAIN history : Remembers(n, i)
  BY <1>1, <1>3 DEF Named, UndoneLast
<1> QED BY <1>1, <1>2, <1>4, <1>5 DEF Follows, HistoryFits

LEMMA StillFollows ==
    ASSUME Inv, Follows, UNCHANGED <<rows, next, history, call, ghost>>
    PROVE  Follows'
<1>1. Undisturbed
  BY NextIsNumber, NothingDisturbed DEF Follows, ghost
<1>2. HistoryFits'
  BY <1>1, HistoryUndisturbed DEF Follows
<1>3. UNCHANGED <<rows, history, pc, op, input, found, alone>>
  BY DEF call
<1>4. \A p \in Callers : ReadFits(p) => ReadFits(p)'
  BY <1>3 DEF ReadFits, Chosen, Applied, Undone
<1>5. AloneFits' /\ ReadsFit'
  BY <1>3, <1>4 DEF Follows, AloneFits, ReadsFit
<1> QED BY <1>2, <1>5 DEF Follows

LEMMA FollowsNext == Inv /\ Follows /\ [Next]_vars => Follows'
<1> SUFFICES ASSUME Inv, Follows, [Next]_vars
             PROVE  Follows'
  OBVIOUS
<1>1. CASE Ask
  BY <1>1, StillFollows DEF Ask
<1>2. CASE UNCHANGED vars
  BY <1>2, StillFollows DEF vars
<1>3. ASSUME NEW p \in Callers, Step(p)
      PROVE  Follows'
  <2>1. CASE Receive(p) \/ Generate(p) \/ Save(p) \/ DuplicateTable(p) \/ CloneSection(p)
    BY <2>1, BeginningsFollow DEF DuplicateTable, CloneSection
  <2>2. CASE Serialize(p) \/ CreateVersion(p) \/ ReadLatest(p) \/ ReadOther(p)
    BY <2>2, ReadingsFollow
  <2>3. CASE Wipe(p) \/ WriteGeometry(p) \/ CopyRows(p) \/ RestoreVersion(p) \/ DeleteSeats(p)
    BY <2>3, WipeFollows, WriteFollows, CopyRowsFollow, RestoreFollows, DeleteSeatsFollows
  <2>4. CASE \/ CreateSection(p) \/ UpdateSection(p) \/ RenameSection(p) \/ DeleteSection(p)
             \/ MoveSection(p) \/ CreateTable(p) \/ UpdateTable(p) \/ RenameTable(p)
             \/ DeleteTable(p) \/ MoveTable(p) \/ CreateSeat(p) \/ UpdateSeat(p)
             \/ DeleteSeat(p) \/ MoveSeat(p)
    BY <2>4, EditsFollow
  <2>5. CASE Apply(p) \/ ApplyGeometry(p) \/ ApplyEntry(p)
    BY <2>5, ApplyFollows, ApplyGeometryFollows, ApplyEntryFollows
  <2>6. CASE Undo(p) \/ Redo(p)
    <3>1. \E o \in {"undo", "redo"} : Look(p, o, IF o = "undo" THEN Applied ELSE Undone)
      BY <2>6 DEF Undo, Redo, Undone
    <3> QED BY <3>1, LookFollows
  <2>7. CASE Return(p) \/ Fail(p)
    <3>1. pc[p] # "idle" /\ End(p) /\ UNCHANGED <<rows, next, history, ghost>>
      BY <2>7 DEF Return, Fail
    <3> QED BY <3>1, EndFollows
  <2> QED BY <1>3, <2>1, <2>2, <2>3, <2>4, <2>5, <2>6, <2>7 DEF Step
<1> QED BY <1>1, <1>2, <1>3 DEF Next

\* What was undone comes after what was not, and every row is where the newest entry that is
\* applied and names it put it, or where it was at first: however calls that create, copy,
\* wipe, restore and edit rows are mixed with undo and redo, and wherever they fail.
THEOREM HistoryFollowed == Spec => []GeometryFollowsHistory
<1>1. Init => Follows
  BY FollowsInit
<1>2. Inv /\ Follows /\ [Next]_vars => Follows'
  BY FollowsNext
<1>3. Follows => GeometryFollowsHistory
  BY FollowsHistory
<1>4. Spec => []Inv
  BY InvHolds
<1> QED BY <1>1, <1>2, <1>3, <1>4, PTL DEF Spec
=============================================================================
