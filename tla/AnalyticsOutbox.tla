--------------------------- MODULE AnalyticsOutbox ---------------------------
(***************************************************************************)
(* The transactional outbox of analytics facts: rows inserted with the     *)
(* seat change they report (analytics-outbox.service.ts) and published to  *)
(* Kafka by a timer in every replica of the service                        *)
(* (analytics-outbox.publisher.ts), one action per database or Kafka call. *)
(*                                                                         *)
(* Time is abstract: a lease is fresh until it expires after 60 seconds,   *)
(* and a row is due or waits for its next attempt.                         *)
(***************************************************************************)
EXTENDS Naturals, FiniteSets

CONSTANTS Instances,    \* the replicas
          Records,      \* outbox rows, numbered by created_at
          MaxAttempts,  \* attempts before a row is given up: 10 in the code
          Batch,        \* rows taken per run: 50 in the code
          MaxFaults,    \* bound: crashes, failing database calls and overrun leases
          Nobody        \* no replica has locked the row

ASSUME OutboxAssumption == /\ Records \subseteq Nat \ {0} /\ MaxAttempts \in Nat \ {0}
                           /\ Batch \in Nat \ {0} /\ MaxFaults \in Nat
                           /\ IsFiniteSet(Instances) /\ Nobody \notin Instances

VARIABLES
    row,      \* the rows of analytics_outbox
    pc,       \* the next call of each replica; "idle": its run is over (running = false)
    queue,    \* the candidates its run still has to claim
    record,   \* the row it publishes, 0: none yet
    attempts, \* record.attempts as it read them
    sent,     \* how often the message of a row reached Kafka
    failed,   \* how often an attempt to publish a row was recorded as failed
    expired,  \* how often a lease of a row ran out
    faults    \* faults so far

rows    == <<row, sent, failed, expired>>
replica == <<pc, queue, record, attempts>>
vars    == <<rows, replica, faults>>

Rows == [exists : BOOLEAN, attempts : Nat, due : BOOLEAN, lockedBy : Instances \cup {Nobody},
         fresh : BOOLEAN, published : BOOLEAN, dead : BOOLEAN]

\* Mutant: a row starts without its count of attempts.
RowWithoutAttempts == [exists |-> TRUE, attempts |-> Nobody, due |-> TRUE, lockedBy |-> Nobody,
                       fresh |-> FALSE, published |-> FALSE, dead |-> FALSE]

NewRow == [exists |-> TRUE, attempts |-> 0, due |-> TRUE, lockedBy |-> Nobody,
           fresh |-> FALSE, published |-> FALSE, dead |-> FALSE]
-----------------------------------------------------------------------------
(* Rows *)

\* The insert in the transaction of the seat change; rows commit in any order.
Enqueue(r) ==
    /\ ~row[r].exists
    /\ row' = [row EXCEPT ![r] = NewRow]
    /\ UNCHANGED <<sent, failed, expired, replica, faults>>

\* Mutant: rows whose lock has expired are not taken again.
OnlyUnlocked(r) == row[r].lockedBy = Nobody

Unlocked(r) == row[r].lockedBy = Nobody \/ ~row[r].fresh

Open(r) == row[r].exists /\ ~row[r].published /\ ~row[r].dead

\* The lease of 60 seconds runs out under a replica that stopped, or, a fault, under one
\* that is still publishing.
LeaseExpires(r) ==
    /\ row[r].lockedBy # Nobody /\ row[r].fresh
    /\ LET i == row[r].lockedBy IN
       IF pc[i] \in {"read", "send", "mark", "fail"} /\ record[i] = r
       THEN faults < MaxFaults /\ faults' = faults + 1
       ELSE UNCHANGED faults
    /\ row' = [row EXCEPT ![r].fresh = FALSE]
    /\ expired' = [expired EXCEPT ![r] = @ + 1]
    /\ UNCHANGED <<sent, failed, replica>>

\* nextAttemptAt passes.
ComesDue(r) ==
    /\ row[r].exists /\ ~row[r].due
    /\ row' = [row EXCEPT ![r].due = TRUE]
    /\ UNCHANGED <<sent, failed, expired, replica, faults>>
-----------------------------------------------------------------------------
(* publishReady *)

Ready == {r \in Records : Open(r) /\ row[r].due /\ Unlocked(r)}

\* orderBy created_at, take Batch
Taken(S) == {r \in S : Cardinality({q \in S : q < r}) < Batch}

Goto(i, label) == pc' = [pc EXCEPT ![i] = label]

\* The timer fires while no run is under way: findMany.
FindCandidates(i) ==
    /\ pc[i] = "idle"
    /\ queue' = [queue EXCEPT ![i] = Taken(Ready)]
    /\ Goto(i, "claim")
    /\ UNCHANGED <<rows, record, attempts, faults>>

\* Mutant: the claim is not conditional.
ClaimsAny(r) == row[r].exists

\* The WHERE clause of the claim: nextAttemptAt is not looked at again.
Claimable(r) == Open(r) /\ Unlocked(r)

\* updateMany on the next candidate, the oldest left
Claim(i) ==
    /\ pc[i] = "claim"
    /\ UNCHANGED <<sent, failed, expired, attempts, faults>>
    /\ \/ /\ queue[i] = {}
          /\ Goto(i, "idle")
          /\ UNCHANGED <<row, queue, record>>
       \/ \E r \in queue[i] :
            /\ \A q \in queue[i] : r <= q
            /\ queue' = [queue EXCEPT ![i] = @ \ {r}]
            /\ \/ /\ ~Claimable(r)
                  /\ UNCHANGED <<row, pc, record>>
               \/ /\ Claimable(r)
                  /\ row' = [row EXCEPT ![r] = [@ EXCEPT !.lockedBy = i, !.fresh = TRUE]]
                  /\ record' = [record EXCEPT ![i] = r]
                  /\ Goto(i, "read")
-----------------------------------------------------------------------------
(* publish *)

Read(i) ==
    /\ pc[i] = "read"
    /\ attempts' = [attempts EXCEPT ![i] = row[record[i]].attempts]
    /\ Goto(i, "send")
    /\ UNCHANGED <<rows, queue, record, faults>>

\* rawSend delivers the message, fails, or fails although the message was delivered.
Send(i) ==
    /\ pc[i] = "send"
    /\ \/ /\ sent' = [sent EXCEPT ![record[i]] = @ + 1]
          /\ Goto(i, "mark") \/ Goto(i, "fail")
       \/ /\ Goto(i, "fail")
          /\ UNCHANGED sent
    /\ UNCHANGED <<row, failed, expired, queue, record, attempts, faults>>

\* The update by id, whoever has the lock by now.
MarkPublished(i) ==
    /\ pc[i] = "mark"
    /\ row' = [row EXCEPT ![record[i]] =
                  [@ EXCEPT !.published = TRUE, !.lockedBy = Nobody, !.fresh = FALSE]]
    /\ Goto(i, "claim")
    /\ UNCHANGED <<sent, failed, expired, queue, record, attempts, faults>>

\* Mutants: a row is given up one attempt early; a failed row is marked as published.
OneAttemptLess(q, n) ==
    [q EXCEPT !.attempts = n, !.lockedBy = Nobody, !.fresh = FALSE,
              !.dead = @ \/ n >= MaxAttempts - 1, !.due = @ /\ n >= MaxAttempts - 1]
FailedIsPublished(q, n) == [q EXCEPT !.attempts = n, !.lockedBy = Nobody, !.published = TRUE]

\* Row q after the n-th failure.
AfterFailure(q, n) ==
    [q EXCEPT !.attempts = n, !.lockedBy = Nobody, !.fresh = FALSE,
              !.dead = @ \/ n >= MaxAttempts, !.due = @ /\ n >= MaxAttempts]

\* The update in the catch block, by id, with the attempts read before the send.
RecordFailure(i) ==
    /\ pc[i] = "fail"
    /\ row' = [row EXCEPT ![record[i]] = AfterFailure(@, attempts[i] + 1)]
    /\ failed' = [failed EXCEPT ![record[i]] = @ + 1]
    /\ Goto(i, "claim")
    /\ UNCHANGED <<sent, expired, queue, record, attempts, faults>>

\* A database call fails: in the try block of publish the row's attempt has failed,
\* elsewhere the rest of the run is given up and the lock stays.
DatabaseError(i) ==
    /\ pc[i] \in {"claim", "read", "mark", "fail"}
    /\ faults < MaxFaults /\ faults' = faults + 1
    /\ IF pc[i] = "mark" THEN Goto(i, "fail") /\ UNCHANGED queue
       ELSE Goto(i, "idle") /\ queue' = [queue EXCEPT ![i] = {}]
    /\ UNCHANGED <<rows, record, attempts>>

\* The replica stops between two calls and starts again.
Crash(i) ==
    /\ pc[i] # "idle"
    /\ faults < MaxFaults /\ faults' = faults + 1
    /\ Goto(i, "idle")
    /\ queue' = [queue EXCEPT ![i] = {}]
    /\ UNCHANGED <<rows, record, attempts>>

Init ==
    /\ row = [r \in Records |-> [NewRow EXCEPT !.exists = FALSE]]
    /\ pc = [i \in Instances |-> "idle"]
    /\ queue = [i \in Instances |-> {}]
    /\ record = [i \in Instances |-> 0]
    /\ attempts = [i \in Instances |-> 0]
    /\ sent = [r \in Records |-> 0]
    /\ failed = [r \in Records |-> 0]
    /\ expired = [r \in Records |-> 0]
    /\ faults = 0

Run(i) == FindCandidates(i) \/ Claim(i) \/ Read(i) \/ Send(i) \/ MarkPublished(i) \/ RecordFailure(i)

Next == \/ \E r \in Records : Enqueue(r) \/ LeaseExpires(r) \/ ComesDue(r)
        \/ \E i \in Instances : Run(i) \/ DatabaseError(i) \/ Crash(i)

Spec == Init /\ [][Next]_vars

\* The timer of every replica keeps firing, its calls return, and time passes. Nothing
\* promises that Kafka ever accepts a message.
Fairness == /\ \A i \in Instances : WF_vars(Run(i))
            /\ \A r \in Records : WF_vars(LeaseExpires(r)) /\ WF_vars(ComesDue(r))
FairSpec == Spec /\ Fairness
-----------------------------------------------------------------------------
(* Properties *)

TypeOK ==
    /\ row \in [Records -> Rows]
    /\ pc \in [Instances -> {"idle", "claim", "read", "send", "mark", "fail"}]
    /\ queue \in [Instances -> SUBSET Records]
    /\ record \in [Instances -> Records \cup {0}]
    /\ attempts \in [Instances -> Nat]
    /\ sent \in [Records -> Nat] /\ failed \in [Records -> Nat] /\ expired \in [Records -> Nat]
    /\ faults \in 0 .. MaxFaults

\* A row marked as published has reached Kafka.
PublishedWasSent == \A r \in Records : row[r].published => sent[r] > 0

\* A row is given up only after MaxAttempts recorded failures, although replicas whose
\* lease ran out write back the attempts they read.
GivenUpAfterMaxAttempts == \A r \in Records : row[r].dead => failed[r] >= MaxAttempts

\* Kafka gets a message again only after a recorded failure or a lease that ran out:
\* neither two replicas nor a restart duplicate it otherwise.
DuplicatesAreExcused == \A r \in Records : sent[r] <= 1 + failed[r] + expired[r]

\* Every fact ends as published or given up: no crash, failing call or overrun lease
\* leaves a row behind.
EveryFactSettles ==
    \A r \in Records : row[r].exists ~> row[r].published \/ row[r].dead
=============================================================================
