# Verification of the seat service

TLA+ specifications of omnixys/seat-service: a NestJS service over PostgreSQL (Prisma), Kafka
and Valkey that keeps the seating plan of an event and says who sits where. Paths below are
relative to the repository; `W` stands for `src/seat/services/seat-write.service.ts`.

## 1. The system

Several replicas of the service share one database. Each handles GraphQL mutations of
administrators and Kafka messages of the Event, Authentication, Invitation and Ticket services
side by side, so every operation may interleave with every other between any two statements.

| Component | State | Operations | Correct when |
|---|---|---|---|
| Seat write service (`W`) | table `seat` (status, guest, invitation), `seat_assignment_log` | create, delete, assign, assign to guest, reserve, unassign, unassign all seats of a guest | one seat per guest and invitation of an event; nobody loses a seat to a claim; log and facts agree with the holder, and so does the status of every seat but those the layout service copied with a status; every call answers |
| Analytics outbox (`src/analytics`) | table `analytics_outbox` | enqueue in the seat transaction; publish by a timer in each replica | every fact is published or given up, duplicates only after a failure or an overrun lease |
| Layout write service (`src/layout`) | sections, tables, seats, `layout_version`, `layout_geometry_history`, `layout_change_log` | generate, wipe, move, save a version, undo, redo, restore, copy, delete | the tree of sections, tables and seats is sound; undo and redo walk one history; a restore looks as the version did; a redelivered generation ends with its plan |
| Section and table write services | `section`, `table` | single-row writes | names stay unique, cascades leave no orphans |
| Guest provisioning (`src/handlers/authentication.handler.ts`) | Valkey keys, messages | `seat.addGuestId` to seat to `ticket.create`; `seat.removeGuestId` | every seat taken is followed by its ticket, a removal leaves no seat, no retry takes a second seat |
| Reservation handler (`src/handlers/guest-seat-reservation.handler.ts`) | none | `seat.reserve` to `seat.reserved` or `seat.reservationFailed` | the acknowledgment says what happened |
| Projections (`event-role`, `event-settings`, `milestone`, `invitation-seating` handlers) | projection tables | one upsert or delete per message | a copy agrees with its owner, the newest access wins, presence follows the scans |
| Event lifecycle (`src/handlers/event.handler.ts`) | none | `seat.create` to `autoGenerateFromMaxSeats`, `seat.delete` to `deleteSeats` | what is asked for is there after any number of failures |
| Layout import (`src/layout-import`) | count of running imports, a worker thread | analyze with a deadline of 20 s | at most two imports and workers, every abort is answered with its reason, every slot is given back |
| Reads, resolvers, mappers, geometry, recognizers, security, configuration | none | pure functions and I/O | not modelled |

How they interact: a resolver or a handler calls the write service; the write service opens a
Prisma transaction, writes `seat`, then `seat_assignment_log` and `analytics_outbox` in it, and
calls `logChange` of the layout service on another connection, after the commit or (in
`assignSeat`) before it. The publisher of any replica reads the outbox and sends to Kafka.

The hard behaviours are races of claims, moves and releases under READ COMMITTED; rows read
outside a transaction and used in it; `UPDATE ... WHERE id` that overwrites whoever holds the
seat by then; waits for row locks and unique index entries, deadlocks among them; work after the
commit that fails; crashes and overrun leases of the publisher; redelivered and reordered
messages in the projections, as far as the idempotency cache of the Kafka package
(`src/app.module.ts:117`, a day by default) lets them through. `PROJECT.json` lists each
hazard at its line.

## 2. Modules

| Module | What it is |
|---|---|
| `SeatLedger` | what the seat service promises: one variable, who holds each seat; atomic grants and releases |
| `SeatAssignment` | `W` one action per database statement, any number of processes, PostgreSQL's rules for visibility and waiting; implements `SeatLedger` |
| `GuestProvisioning` | the Kafka handlers of sign-ups, removals and reservations over `SeatLedger`, one action per call |
| `AnalyticsOutbox` | enqueue and publish, one action per database or Kafka call, several replicas |
| `EventProjections` | the handlers that copy roles, access, settings, presence and seating, one action per statement |
| `Layout` | sections, tables, seats, versions and the geometry history, one action per transaction or statement outside of one |
| `LayoutImport` | admission, upload, worker, timer and disconnection of layout imports, one action per event of Node's loop |
| `SeatAssignmentProofs`, `GuestProvisioningProofs`, `AnalyticsOutboxProofs`, `EventProjectionsProofs`, `LayoutProofs`, `LayoutHistoryProofs`, `LayoutOutlineProofs`, `LayoutImportProofs` | the theorems of section 4 |
| `MCSeatAssignment`, `MCGuestProvisioning`, `MCEventProjections`, `MCLayout`, `MCLayoutImport` | small instances for TLC, with symmetry |

`GuestProvisioning` composes the handlers with the seat service through the abstract
specification: `SeatAssignment` implements `SeatLedger` (checked and proved), and the handlers use
the ledger's atomic steps for the transactions. `EventProjections`, `Layout` and `LayoutImport`
share no state with the others but the rows of seats, of which `Layout` sees the place and
`SeatAssignment` the holder.

### SeatAssignment and the code

- `seat` is the committed table; a row is its status, guest and invitation. `UNBORN` and
  `DELETED` are rows before their INSERT and after their DELETE.
- `InsertedAs[s]` is the status seat `s` is inserted with. `createSeat` inserts AVAILABLE seats;
  `InsertSeat` stands for the inserts of the layout service (`writeGeometry`, `duplicateTable`,
  `cloneSection`, `restoreVersion`), which write the status of a plan, or of the seat they copy or
  restore, ASSIGNED and RESERVED included, and never its holder.
- `writes[p]` are the rows the open transaction of process `p` has written, `journal[p]` the log
  row and fact it wrote beside each. `Visible(p, s)` is what a statement of `p` reads. `Commit`
  publishes both at once; `Finish` drops them.
- `MustWait` is the wait for a row lock or for an open transaction that writes or replaces the
  same key of a unique index, `Duplicate` the violation (P2002) found when nobody is waited for.
  An UPDATE evaluates its WHERE clause on what is committed when its wait ends.
- `history[s]` is the holder that a reader of `seat_assignment_log` concludes, `facts[s]` the
  subject that a consumer of `seat.assigned.v1` and `seat.unassigned.v1` concludes.
- `pc`, `call`, `target`, `view`, `rest`, `outcome` are a process's statement, arguments and local
  variables: `view` is the row read before the UPDATE (`existing`, `seat`, `selected` in the
  code), `rest` the list a loop works off.
- `AssignSeat` is `assignSeat` (W:171-368), `AssignSeatToGuest` W:370-497,
  `ReserveSeatForInvitation` W:510-593, `UnassignSeat` both releases (W:600-670), `CreateSeat` and
  `DeleteRow` the single statements W:66-80 and W:143-153.
- `Abort` is every way a transaction ends without its next statement: Prisma's timeout,
  PostgreSQL's deadlock detector, a lost connection, `enqueue` without a tenant.

Left out: `updateSeat`, which never writes a holder or a status and is an action of `Layout`;
notes, names and positions; the rows of `layout_change_log`, although the calls that write them and their failure are steps.

### AnalyticsOutbox and the code

- `row[r]` is a row of `analytics_outbox`. `lockedAt` is `lockedBy` and `fresh` (younger than
  60 s), `nextAttemptAt` is `due`, `publishedAt` and `deadLetteredAt` are Booleans.
- `pc[i]` is the next call of a replica's run of `publishReady`; `idle` is `running = false`.
- `FindCandidates` is the `findMany`, `Claim` the conditional `updateMany`, which does not look at
  `nextAttemptAt` again, `Read`, `Send`, `MarkPublished` and `RecordFailure` are `publish`, whose
  two updates go by id alone, whoever holds the lock.
- `Send` delivers, fails, or fails although the message was delivered. `LeaseExpires` hits a
  replica that is still publishing only as a fault; so do crashes and failing database calls.
- `sent`, `failed` and `expired` count what happened to a row and guard nothing.

### GuestProvisioning and the code

- `ledger` is the seat table as `SeatLedger` sees it. `Holder(i)` and `Keeper(i)` are the columns
  of a seat claimed or reserved for invitation `i`. `AssignSeatToGuest` and `Reserve` are whole
  transactions of `W`, with the decision taken in the same step: `SeatAssignment` shows that a
  decision on a row that changed meanwhile ends in an exception, which is an alternative of each.
- A message waits, is taken by a handler, and ends done or dead. `Throw` is what the Kafka package
  does with a handler that rejects: some retries, then the dead-letter topic. `Fail` lets any call
  reject, `Answered` lets `logChange` reject after the commit, `Done(h) \/ Throw(h)` after a send
  stands for a send that reached Kafka and failed for the caller.
- `keys` are the Valkey keys of the sign-up service; they expire at any time. `Named[i]` is the
  `seatId` in the key.
- `tickets`, `reserved` and `refused` are the messages sent. The mapping in Valkey that
  `ticket.create` names is written in the same action: when it fails nothing is sent.
- `UnassignSeats` works off the list read by `FindSeats` and frees a seat whoever holds it by then,
  as `unassignSeat` does. `AdminRelease` is `unassignSeat` and `AdminAssign` the `assignSeat` of an
  administrator, to a guest or to an invitation (`Appointees`), which frees their other seats.
- A seat of the ledger without a holder is AVAILABLE; those that the layout service inserted with
  another status are handed out by no handler and are left out.
- `lost` remembers what removals and administrators took back, `gone` the removals that a
  property speaks of, in progress or done, `appointed` the seats whose last holder an administrator
  chose, which no message announces; they guard nothing.

### EventProjections and the code

- `row[k]` is a row of one of the five tables, with the time its handler compares messages to:
  `occurredAt` for access, `updatedAt`, the time of processing, for roles and settings, none for
  presence and seating. `source[k]` is what the owning service says.
- `Read` is the `findUnique`, `Write` the stale check and the upsert or delete, with `Written` split
  into one operator per handler. `ReadOld` and `DeleteOld` are the first half of
  `handleOwnerChanged`, `DeleteTable` one of the three deletes of `handleEventDeleted`, which run
  side by side.
- Messages of all topics are delivered in any order; `Again` is a failing statement or a crash,
  after which the message is handled from the start.
- `late`, `raced`, `newest` and `scans` record what the properties speak of and guard nothing.

### Layout and the code

- `rows` holds sections, tables and seats alike. A place stands for `x` and `y`; `Name` for the
  name of a section or table, the number of a seat. A geometry to be written, the serializer's
  snapshot and a version are drawings of the same form.
- `pc` and `op` say where a call is. Between two labels other calls run: after each of the three
  deletes of `autoGenerate` (`Wipe`), between reading and copying (`CopyRows` copies what one
  statement copies), between the three reads of the serializer, between reading an entry of the
  history and applying it, between reading a version and restoring it. What runs in one
  `$transaction` is one action (`WriteGeometry`, `ApplyGeometry`, `ApplyEntry`, `RestoreVersion`,
  `DeleteSeats`); PostgreSQL's row locks order two of them on the same rows, and the race of two
  inserts with one position is `Fail` of one of them.
- `WriteGeometry` chooses any table of the name when several have it, as `findFirst` may.
- `NumbersFor` gives versions of other calls the next number, as `Date.now()` does, and those of
  administrators any.
- `Fail` ends a call after any of its actions; a `seat.create` message is then delivered again.
- `CreateSeat` takes any section and any table, as `createSeat` checks nothing between the two.
  `astray` are the seats so put to a table of another section, and what `duplicateTable` and
  `restoreVersion` make of them; `cloneSection` gives its own section to every seat.
- `raced`, `alone`, `moved`, `origin`, `astray` and `outlines` record what the properties speak of
  and guard nothing.

### LayoutImport and the code

- `active` is the counter of the service. A request is `new`, reads `parts` or a `file`, is
  `working` while the promise of `runImportWorker` is open, `terminating` until
  `worker.terminate()` resolves, `ended`.
- `Finish` is `catch` and `finally` of `analyze`. `Abort` is the abort signal: an upload rejects
  through `abortable`, a worker's promise through `cancel`; the first reason stays.
- `WorkerDies` is `error` or `exit`; a worker that posted and exits still has its message delivered
  first, as Node does.

## 3. What the runs check

| Run | Instance | States | Shows |
|---|---|---|---|
| `seat_claims` | 2 processes, 2 seats, 2 guests, 2 invitations; assign, claim, reserve, release | 1.34 million | `UniqueHolders`, and `LedgerSpec`: each commit is one step of the ledger |
| `seat_lifecycle` | all seven operations and the layout service's inserts, 2 processes; a free seat, one inserted later, one copied from an assigned seat; 2 events | 3.51 million | `TypeOK`; the log and the facts replay to the committed seats; `StatusMatchesHolder` |
| `seat_progress` | 2 processes, 2 seats; assign, both releases, delete, with fairness | 242,000 | `EveryCallEnds`: moves that deadlock, waits and loops all end |
| `seat_release_log` | 2 processes; assign and release | violated | finding 1 below |
| `seat_reservation` | 2 reservations, 2 seats | violated | finding 2 below |
| `analytics_outbox` | 2 replicas, 2 rows, 2 attempts, batch 1, 1 fault, with fairness | 409,000 | only sent rows are marked, a row is given up only after `MaxAttempts` failures, duplicates have a cause, every row settles |
| `guest_sign_ups` | 2 handlers, 2 seats, 2 sign-ups, one with a named seat, 1 reservation, 1 retry, 1 incident | 570,000 | for each seat a handler gave, the ticket is sent or still owed, tickets name the guest's own seat, every step is one of the ledger |
| `guest_removals` | 2 handlers, seats in 2 events, 1 sign-up, 2 removals of its guest, one without an actor, 2 incidents, with fairness | 305,000 | a removal that reads the seats and ends leaves none but those given since; every message ends or is a dead letter |
| `guest_redelivery` | as `guest_removals` without incidents | violated | finding 3 below |
| `event_projections` | 2 handlers, 2 users, 3 messages of one of seven mixes, 2 times, 1 fault | 1.94 million | copies agree with their owners, the newest access wins, presence is the parity of scans |
| `layout` | 2 callers, 2 to 5 calls of one of eight mixes of operations, 2 seats at 2 tables in 2 sections, 1 fault | 1.01 million | the tree is sound, a `seat.create` ends as planned, places follow the history, a restore looks as its version |
| `layout_import` | 3 requests, 2 slots, with fairness | 71,000 | slots are counted, aborts are answered, every import ends |

Why the bounds are enough: a race in `W` is between two processes over one or two seats (a claim,
a move from one to another, an eviction), every property speaks of at most two seats, and the
third actor that could matter, a holder committed between a read and a write, is the second
process's next call, as processes loop. One copied seat shows what becomes of a status without a
holder; `FreeRow` is the only other status a row without one can get. Two guests and two invitations are the least for a seat
to go to somebody else. In `seat_lifecycle` a second event has no seats, so calls with a foreign
event occur. A second fault in the outbox only repeats the first: the counters show the effect of
one, and the theorems cover any number. The number of attempts and the batch are constants (10
and 50 in the code); 2 and 1 make the last attempt and the truncated batch happen.

In `GuestProvisioning` one retry makes both the retry and the dead letter happen, and
`MaxIncidents` counts crashes, redeliveries and changes by administrators; the theorems cover any
number. `EventProjections` runs one mix of topics at a time because topics of different tables
meet only in the deletion of the event; three messages are an old one, a new one and one that
overtakes, and two times tell before from after and allow equal times. `Layout` runs one mix of
operations at a time (`MCGroups`), so that calls that can disturb each other meet and the product of all does not
explode; 10 seats per table and 5 tables per section are constants, 1 and 1 make two tables and
two sections out of two seats. `MCInputs` has two tables of one name in two sections, the case
that `writeGeometry` gets wrong or right. `MaxNumber`, `MaxPlace`, `group.calls` and `MaxFaults`
bound it; `applyGeometry` moves only seats in the model and puts each elsewhere. Three imports
for two slots are one too many, and one more after another ended.

Handlers, callers, processes, users, guests, invitations and seats that start alike are
interchangeable, so the runs without liveness use symmetry. Deadlock is not checked where the
messages, calls or requests of a run come to an end.

Fairness. `SeatAssignment`: a process inside an operation takes its next statement or is aborted
(Prisma's transaction timeout and PostgreSQL's `deadlock_timeout` guarantee the second); a DELETE
outside a transaction waits in the first-come queue of its row lock, hence strong fairness for it.
`Begin` and `CreateSeat` have none: nobody must call. `AnalyticsOutbox`: the timer of each replica
keeps firing and each call returns, leases and waiting times end. `Send` has no fairness
among its outcomes: Kafka may refuse every message. `GuestProvisioning`: Kafka delivers a waiting
message to a free handler and a handler's next call returns or throws; nothing makes it succeed.
`LayoutImport`: the timer fires and `worker.terminate()` resolves; clients and workers owe
nothing.

### Findings

1. `ReleaseNamesHolder` (`seat_release_log`). The comments at W:244 and W:324 say a release stores
   the previous holder. It stores the holder read before the UPDATE; one who committed in between
   loses the seat and appears in no release. (A release that takes the seat from nobody, as the
   second of two, also logs the holder it read; the property does not count that.) `LogMatchesSeats` still holds, as replaying
   the log only needs to know that a release happened.
2. `ReservationFailsWhenFull` (`seat_reservation`). The reservation handler documents
   `seat.reservationFailed` for an event without a free seat. Of two reservations that chose the
   same seat the loser gets it while other seats are free.
3. `RedeliveryIsSafe` (`guest_redelivery`). `README.md:46` of the service calls redelivery safe. It
   is while the assignment stands (`HoldersAreTold`, `TicketsNameOwnSeats`). A sign-up that
   committed and then failed, whose guest is removed before the retry, seats the guest again.

## 4. What is proved

All theorems hold for every value of the constants under the named assumptions:
`SeatAssumption` (seats belong to events, have a creation rank and a status they are inserted
with, and some are inserted later), `CleanAssumption` (the marker for an unwritten row is not a row), `OutboxAssumption`
(finitely many replicas, positive limits), `ProvisioningAssumption` (the types of invitations,
messages and keys; `None` is none of them), `ProjectionAssumption` (there is a time; `None` is no
user, seat or value of a row), `LayoutAssumption` (positive sizes, and the geometries that
administrators ask for consist of sections, tables of them and seats at those, as the geometry
engine makes them) and `ImportAssumption` (there is a slot). TLC evaluates them in every run.

`SeatAssignmentProofs`: `TypeCorrect`. `TypeOK` is not inductive, as a statement writes the row it
selected before; `TypeInv` adds which local variable is set at which statement. `HoldersAreUnique`,
`StatusAgrees`, `LogIsComplete`, `FactsAreComplete` and `RefinesLedger` follow from the inductive
invariant `SeatInv` (`SeatInvariant`). `StatusAgrees` holds for any statuses that the layout service
inserts: a row keeps the one it was inserted with until the seat service writes it, and each of
these writes leaves AVAILABLE without a holder, ASSIGNED with one, or RESERVED for an invitation
alone. The argument separates control from data:

1. `LocalInv` says what a process relies on between two statements: before its claim a move has
   released only other seats than its target, each once, and a release was decided on a held row.
2. `StepKinds`: every step either leaves the database and the transactions alone, rolls one back,
   commits one, is a `GoodWrite` (one row, journalled faithfully, the only grant of its
   transaction), or puts a row without holder in place of another.
3. `DataInv` is preserved by each kind. It holds the four properties and what they need while
   transactions are open: no two have written one row (`RowLocks`), each written row has its log
   row (`Journalled`), a transaction grants one seat at most (`OneGrant`), the holders are unique
   as each transaction sees the table (`OwnView`), and no transaction writes a key that another
   one writes or replaces (`KeyLocks`). The last is why a commit keeps `UniqueHolders`: the keys
   it publishes clash with nothing committed, whatever committed since its statements ran.
4. `RefinesLedger`: a commit with one grant is `Grant`, one without is `Release`, every other step
   changes no holder. That `Grant` takes a seat only from nobody, the same holder or the guest's
   own reservation is what the WHERE clauses of the claims are for.

`AnalyticsOutboxProofs`: `OutboxTypeCorrect`; `OutboxPublishes` and `OutboxKeepsTrying` from
`EvidenceInv` (a replica about to mark a row has sent it; the attempts it read are not ahead of
the recorded failures); `OutboxDuplicatesAreExcused` from `ExcusedInv`: messages sent, replicas
that may still send, and one if the row can be claimed are together covered by one, the failures
and the expired leases. A claim turns the last into a sender, a send turns a sender into a
message, and only a failure or an expiry makes the row claimable again.

`GuestProvisioningProofs`: `TypeCorrect`, `TicketsOwned`, `HoldersTold` and `RefinesLedger` from
`InvHolds`. The two safety properties are not inductive: between the commit of a seat and the send
of its message neither is there yet. The invariant adds that a message is taken exactly while a
handler has it, that the seat a handler got from the service is the guest's own or was taken back,
and that whoever got a seat from a handler and was not told has an unfinished message of its own; so each
failure, crash and retry leaves somebody who owes the message. Seats that administrators assigned
are apart: nothing links them to a message, and `assignSeat` does not ask which event an
invitation is for. `SeatsFit` therefore says only of the others that they are in the event of their
invitation; of all, that no invitation has two in one event. Once a handler claims one for
its guest, the claim owes the ticket like any other. That each claim is a `Grant` of the ledger follows from
`Unique`: the seat is free or kept for the invitation, and no sibling shares the guest.
`RemovalsComplete` adds `Removed`: the seats of a guest whose removal works are among those the
removal has still to free. It is stated for each removal message and not for each guest, as a
second removal of the same guest, one that names no actor, ends without having read any seat and
promises nothing.

`EventProjectionsProofs`: `TypeCorrect`, `NewestWins`, `ScansCounted` and `CopiesTimely`. Each
property speaks of one row at a time, and so does what makes it last. `AccessInv` and `PresenceInv`
say that a row at which no two handlers met has one handler at most, which has read what is still
there (`Alone`), and that the row has the time of the newest message, or the parity of the scans.
`Timely` says of a row whose changes each waited for the one before: one message about it waits or
is handled, and what it will write is what the owner says (`Promise`), or the row agrees already.
A message that is handled again after a crash finds its own work (`Progress`): the row is as new as
the message, or agrees.

`LayoutProofs`: `TypeCorrect` and `TreeSound`, for any number of callers, any mix of operations and
any size of a plan. That the tree is sound now says nothing about a copy that is half done, a
snapshot read in three statements between which rows came and went, or a version from long ago; all
of these are written back later. The invariant `Inv` has therefore a witness: a drawing `G` of every
row there ever was (`Lineage`), whose kind, section and table no operation changes. The layout, every
snapshot and every version are `Akin` to it: their rows are some of its rows, with other names and
places, so the table of a seat in a snapshot is in the section of that seat, although the two were
read at different times, unless `createSeat` put the seat elsewhere. Those seats are the `Strays` of
`G`, and `Strays(G) \subseteq astray` is part of the invariant: a step that inserts rows extends `G`,
and makes no stray but from one (`StraysCopied`). `CopyInv` says which copies a caller has made and
that they are `Copies` of rows of `G`, those of `cloneSection` with the section of the clone;
`SnapInv` that a snapshot has unique names, as a restore inserts them.

`LayoutHistoryProofs`: `HistoryFollowed`. `GeometryFollowsHistory` says where rows are, which does
not say where an undo puts them. The invariant says in addition what each entry remembers, the
undone ones included: the place that the entries below it gave the row (`Remembers`). A new entry
takes the undone ones away and remembers the present places; an undo of the newest entry puts back
what the entries below it gave, and the entry is the least undone then. `ReadsFit` says that a call
which overlaps with no other still has at hand what the database holds between its two transactions;
every other step leaves the rows at their places and makes rows that no entry names
(`Undisturbed`), as identifiers are not used twice.

`LayoutOutlineProofs`: `PlannedCreated` and `SavedRestored`. Both compare layouts whose rows have
other identifiers. `OutlineKept` says that a one-to-one map of identifiers that keeps the path of
each row keeps the outline; the writes of a plan into an empty layout (`WriteRenames`) and of the
restorable rows of a version (`RestoredOutline`) are such maps. That the table found by its name is
the one meant needs the table names of a plan to differ, which `PlanRows` shows. `Outlined` carries
this from statement to statement: while no other call overlaps, a handler of seat.create knows which
kinds are wiped and then that the plan is there, and a serializer that its snapshot has all rows of
the kinds it has read (`KnowsFit`); a version of known outline has that outline and loses
no row of it when it is restored (`VersionsFit`), nor does what a restore has read (`RestoreFits`).

`LayoutImportProofs`: `TypeCorrect`, `SlotsCounted` and `AbortAnswered` from `InvHolds`, which says
what worker, signal and outcome may be at each place of a request. That `active` equals the number
of admitted requests is a statement about the cardinality of a finite set that each admission
and each end change by one element; admissions in one step touch one request only.

Only model-checked: `EveryCallEnds`, `EveryFactSettles`, `EveryMessageEnds` and `EveryImportEnds`
(liveness under fairness is out of the prover's reach), and the three violated properties.

## 5. What is not modelled, and why

- `src/prisma/generated` is the output of the Prisma generator, about 23,400 of the 34,600 lines of
  implementation. It holds no decision of this program: what it does is modelled as the statements
  it sends, at the place that calls it. The share of mapped lines is therefore small although
  the services and handlers that keep state are covered.
- The geometry engine, shapes, collision and spacing compute floating-point coordinates, the
  preprocessor and recognizers of the import interpret images; both are pure, without state, and
  their correctness is about numbers that TLC does not have. Of the engine only which rows it makes
  is modelled.
- Identifiers of another event, or of rows that do not exist, in the arguments of the layout mutations: `Layout` has
  one event, and the foreign keys refuse the latter. A table of another section is modelled.
- Resolvers, mappers, inputs and payloads translate arguments and check permissions before a call; which calls
  exist is taken from them. Reads, the colour group matcher and the event role resolver decide from
  one or two rows and change nothing.
- Security, configuration, health, admin and adapters are wiring.
- Of modelled components: rows of `layout_change_log`, which nothing reads back; sizes, rotations,
  shapes, types and statuses in `Layout` (the statuses it inserts are in
  `SeatAssignment`, as any status of a row without a holder); the order in which facts of one seat
  reach consumers.
- No property covers what the code leaves to chance and the repository does not forbid:
  changes of one row handled at once or after a later one in the projections, geometry calls that
  overlap, assignments lost with a layout that is generated again. The models do what the code does there,
  the properties say when they speak (`late`, `raced`, `alone`), and `PROJECT.json` says so beside
  these hazards.

Worth doing next: `allowGuestSeatSelection` and the permissions of the event role resolver over the
projections.
