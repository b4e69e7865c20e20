------------------------ MODULE AnalyticsOutboxProofs ------------------------
(***************************************************************************)
(* Proofs about AnalyticsOutbox, for any number of replicas, rows and      *)
(* faults, any batch and any number of attempts.                           *)
(***************************************************************************)
EXTENDS AnalyticsOutbox, FiniteSetTheorems, TLAPS

-----------------------------------------------------------------------------
(* Type correctness *)

\* A replica that publishes has a row; what it has left to claim exists.
Busy(i) == pc[i] \in {"read", "send", "mark", "fail"}

TypeInv == /\ TypeOK
           /\ \A i \in Instances : Busy(i) => record[i] \in Records

LEMMA AfterFailureType ==
    \A q \in Rows, n \in Nat : AfterFailure(q, n) \in Rows
BY OutboxAssumption DEF AfterFailure, Rows

LEMMA NewRowType == NewRow \in Rows /\ [NewRow EXCEPT !.exists = FALSE] \in Rows
BY DEF NewRow, Rows

\* Changes of a few fields keep the type of a row.
LEMMA RowTypes ==
    ASSUME NEW q \in Rows
    PROVE  /\ [q EXCEPT !.fresh = FALSE] \in Rows
           /\ [q EXCEPT !.due = TRUE] \in Rows
           /\ [q EXCEPT !.published = TRUE, !.lockedBy = Nobody, !.fresh = FALSE] \in Rows
           /\ \A i \in Instances : [q EXCEPT !.lockedBy = i, !.fresh = TRUE] \in Rows
BY DEF Rows

LEMMA CountUp ==
    ASSUME NEW S, NEW f \in [S -> Nat], NEW r \in S
    PROVE  /\ [f EXCEPT ![r] = @ + 1] \in [S -> Nat]
           /\ [f EXCEPT ![r] = @ + 1][r] = f[r] + 1
           /\ \A q \in S \ {r} : [f EXCEPT ![r] = @ + 1][q] = f[q]
OBVIOUS

LEMMA TypeInit == Init => TypeInv
BY NewRowType, OutboxAssumption DEF Init, TypeInv, TypeOK, Busy

LEMMA TypeStep ==
    ASSUME TypeInv, [Next]_vars
    PROVE  TypeInv'
<1> USE OutboxAssumption DEF TypeInv, TypeOK, Busy
<1>1. CASE UNCHANGED vars
  BY <1>1 DEF vars, rows, replica
<1>2. ASSUME NEW r \in Records, Enqueue(r)
      PROVE  TypeInv'
  BY <1>2, NewRowType DEF Enqueue, replica
<1>3. ASSUME NEW r \in Records, LeaseExpires(r)
      PROVE  TypeInv'
  <2>1. row' = [row EXCEPT ![r] = [row[r] EXCEPT !.fresh = FALSE]]
    BY <1>3 DEF LeaseExpires
  <2>2. row' \in [Records -> Rows]
    BY <2>1, RowTypes
  <2>3. expired' \in [Records -> Nat] /\ faults' \in 0 .. MaxFaults
    BY <1>3 DEF LeaseExpires
  <2> QED BY <1>3, <2>2, <2>3 DEF LeaseExpires, replica
<1>4. ASSUME NEW r \in Records, ComesDue(r)
      PROVE  TypeInv'
  <2>1. row' = [row EXCEPT ![r] = [row[r] EXCEPT !.due = TRUE]]
    BY <1>4 DEF ComesDue
  <2>2. row' \in [Records -> Rows]
    BY <2>1, RowTypes
  <2> QED BY <1>4, <2>2 DEF ComesDue, replica
<1>5. ASSUME NEW i \in Instances, FindCandidates(i)
      PROVE  TypeInv'
  BY <1>5 DEF FindCandidates, Goto, rows, Taken, Ready
<1>6. ASSUME NEW i \in Instances, Claim(i)
      PROVE  TypeInv'
  <2>1. CASE queue[i] = {} /\ Goto(i, "idle") /\ UNCHANGED <<row, queue, record>>
    BY <1>6, <2>1 DEF Claim, Goto
  <2>2. ASSUME NEW r \in queue[i], queue' = [queue EXCEPT ![i] = @ \ {r}]
        PROVE  r \in Records /\ queue' \in [Instances -> SUBSET Records]
    BY <2>2
  <2>3. CASE \E r \in queue[i] : queue' = [queue EXCEPT ![i] = @ \ {r}] /\ UNCHANGED <<row, pc, record>>
    BY <1>6, <2>2, <2>3 DEF Claim
  <2>4. ASSUME NEW r \in queue[i], queue' = [queue EXCEPT ![i] = @ \ {r}],
               row' = [row EXCEPT ![r] = [@ EXCEPT !.lockedBy = i, !.fresh = TRUE]],
               record' = [record EXCEPT ![i] = r], Goto(i, "read")
        PROVE  TypeInv'
    <3>1. r \in Records /\ queue' \in [Instances -> SUBSET Records]
      BY <2>2, <2>4
    <3>2. row' \in [Records -> Rows]
      BY <2>4, <3>1, RowTypes
    <3>3. pc' \in [Instances -> {"idle", "claim", "read", "send", "mark", "fail"}]
      BY <2>4 DEF Goto
    <3>4. record' \in [Instances -> Records \cup {0}]
      BY <2>4, <3>1
    <3>5. UNCHANGED <<sent, failed, expired, attempts, faults>>
      BY <1>6 DEF Claim
    <3>6. \A k \in Instances : Busy(k)' => record'[k] \in Records
      BY <2>4, <3>1 DEF Goto
    <3> HIDE DEF Busy
    <3> QED BY <3>1, <3>2, <3>3, <3>4, <3>5, <3>6
  <2> QED BY <1>6, <2>1, <2>3, <2>4 DEF Claim
<1>7. ASSUME NEW i \in Instances, Read(i)
      PROVE  TypeInv'
  BY <1>7 DEF Read, Goto, rows, Rows
<1>8. ASSUME NEW i \in Instances, Send(i)
      PROVE  TypeInv'
  BY <1>8 DEF Send, Goto
<1>9. ASSUME NEW i \in Instances, MarkPublished(i)
      PROVE  TypeInv'
  <2>1. row' = [row EXCEPT ![record[i]] =
                  [row[record[i]] EXCEPT !.published = TRUE, !.lockedBy = Nobody, !.fresh = FALSE]]
    BY <1>9 DEF MarkPublished
  <2>2. record[i] \in Records
    BY <1>9 DEF MarkPublished
  <2>3. row' \in [Records -> Rows]
    BY <2>1, <2>2, RowTypes
  <2> QED BY <1>9, <2>3 DEF MarkPublished, Goto
<1>10. ASSUME NEW i \in Instances, RecordFailure(i)
       PROVE  TypeInv'
  <2>1. record[i] \in Records /\ attempts[i] + 1 \in Nat
    BY <1>10 DEF RecordFailure
  <2>2. row' = [row EXCEPT ![record[i]] = AfterFailure(row[record[i]], attempts[i] + 1)]
    BY <1>10 DEF RecordFailure
  <2>3. row' \in [Records -> Rows]
    BY <2>1, <2>2, AfterFailureType
  <2>4. /\ pc' = [pc EXCEPT ![i] = "claim"]
        /\ UNCHANGED <<sent, expired, queue, record, attempts, faults>>
    BY <1>10 DEF RecordFailure, Goto
  <2>5. failed' \in [Records -> Nat]
    BY <1>10, <2>1, CountUp DEF RecordFailure
  <2> QED BY <2>3, <2>4, <2>5
<1>11. ASSUME NEW i \in Instances, DatabaseError(i) \/ Crash(i)
       PROVE  TypeInv'
  BY <1>11 DEF DatabaseError, Crash, Goto, rows
<1> QED
  BY <1>1, <1>2, <1>3, <1>4, <1>5, <1>6, <1>7, <1>8, <1>9, <1>10, <1>11 DEF Next, Run

\* Every row and every replica keeps its type.
THEOREM OutboxTypeCorrect == Spec => []TypeOK
<1>1. Spec => []TypeInv
  BY TypeInit, TypeStep, PTL DEF Spec
<1>2. TypeInv => TypeOK
  BY DEF TypeInv
<1> QED BY <1>1, <1>2, PTL

-----------------------------------------------------------------------------
(* What a row and a replica give evidence of *)

\* A replica about to mark a row has sent it, and its count of attempts is not ahead of
\* the recorded failures.
Evidence(i) ==
    /\ pc[i] = "mark" => sent[record[i]] > 0
    /\ pc[i] \in {"send", "mark", "fail"} => attempts[i] <= failed[record[i]]
    /\ Busy(i) => row[record[i]].exists

RowEvidence(r) ==
    /\ row[r].published => sent[r] > 0
    /\ row[r].dead => failed[r] >= MaxAttempts
    /\ row[r].attempts <= failed[r]
    /\ ~row[r].exists => sent[r] = 0

EvidenceInv == /\ TypeInv
               /\ \A i \in Instances : Evidence(i)
               /\ \A r \in Records : RowEvidence(r)

LEMMA EvidenceInit == Init => EvidenceInv
<1> SUFFICES ASSUME Init PROVE EvidenceInv
  OBVIOUS
<1>1. TypeInv
  BY TypeInit
<1>2. \A i \in Instances : Evidence(i)
  BY DEF Init, Evidence, Busy
<1>3. \A r \in Records : RowEvidence(r)
  BY DEF Init, RowEvidence, NewRow
<1> QED BY <1>1, <1>2, <1>3 DEF EvidenceInv

\* A step that keeps the row, or only its locks, and no replica further than before.
LEMMA EvidenceKept ==
    ASSUME EvidenceInv, TypeInv', UNCHANGED <<sent, failed, record, attempts>>,
           \A i \in Instances : pc'[i] \in {pc[i], "idle", "claim"} \/ (pc[i] = "mark" /\ pc'[i] = "fail"),
           \A r \in Records : /\ row'[r].exists = row[r].exists
                              /\ row'[r].attempts = row[r].attempts
                              /\ row'[r].published = row[r].published
                              /\ row'[r].dead = row[r].dead
    PROVE  EvidenceInv'
<1>1. ASSUME NEW i \in Instances PROVE Evidence(i)'
  BY <1>1 DEF EvidenceInv, Evidence, Busy, TypeInv
<1>2. ASSUME NEW r \in Records PROVE RowEvidence(r)'
  BY <1>2 DEF EvidenceInv, RowEvidence
<1> QED BY <1>1, <1>2 DEF EvidenceInv

LEMMA EvidenceStep ==
    ASSUME EvidenceInv, [Next]_vars
    PROVE  EvidenceInv'
<1>1. TypeInv /\ TypeInv'
  BY TypeStep DEF EvidenceInv
<1> USE <1>1
<1>2. CASE UNCHANGED vars
  BY <1>2, EvidenceKept DEF vars, rows, replica
<1>3. ASSUME NEW r \in Records, Enqueue(r)
      PROVE  EvidenceInv'
  <2>1. /\ row'[r] = NewRow /\ ~row[r].exists
        /\ \A q \in Records \ {r} : row'[q] = row[q]
        /\ UNCHANGED <<sent, failed, pc, record, attempts>>
    BY <1>3 DEF Enqueue, replica, TypeInv, TypeOK
  <2>2. ASSUME NEW k \in Instances PROVE Evidence(k)'
    BY <2>1, <2>2 DEF EvidenceInv, Evidence, Busy, TypeInv, NewRow
  <2>3. sent[r] = 0 /\ failed[r] \in Nat
    BY <2>1 DEF EvidenceInv, RowEvidence, TypeInv, TypeOK
  <2>4. RowEvidence(r)'
    BY <2>1, <2>3 DEF RowEvidence, NewRow
  <2>5. ASSUME NEW q \in Records \ {r} PROVE RowEvidence(q)'
    BY <2>1, <2>5 DEF EvidenceInv, RowEvidence
  <2> QED BY <2>2, <2>4, <2>5 DEF EvidenceInv
<1>4. ASSUME NEW r \in Records, LeaseExpires(r) \/ ComesDue(r)
      PROVE  EvidenceInv'
  <2>1. \A q \in Records : row'[q] \in {row[q], [row[q] EXCEPT !.fresh = FALSE],
                                        [row[q] EXCEPT !.due = TRUE]}
    BY <1>4 DEF LeaseExpires, ComesDue, TypeInv, TypeOK
  <2>2. \A q \in Records : row[q] \in Rows
    BY DEF TypeInv, TypeOK
  <2>3. \A q \in Records : /\ row'[q].exists = row[q].exists
                           /\ row'[q].attempts = row[q].attempts
                           /\ row'[q].published = row[q].published
                           /\ row'[q].dead = row[q].dead
    BY <2>1, <2>2 DEF Rows
  <2> QED BY <1>4, <2>3, EvidenceKept DEF LeaseExpires, ComesDue, replica
<1>5. ASSUME NEW i \in Instances, FindCandidates(i) \/ DatabaseError(i) \/ Crash(i)
      PROVE  EvidenceInv'
  <2>1. UNCHANGED <<rows, record, attempts>>
    BY <1>5 DEF FindCandidates, DatabaseError, Crash
  <2>2. \A k \in Instances : pc'[k] \in {pc[k], "idle", "claim"} \/ (pc[k] = "mark" /\ pc'[k] = "fail")
    BY <1>5 DEF FindCandidates, DatabaseError, Crash, Goto, TypeInv, TypeOK
  <2> QED BY <2>1, <2>2, EvidenceKept DEF rows
<1>6. ASSUME NEW i \in Instances, Claim(i)
      PROVE  EvidenceInv'
  <2>1. CASE UNCHANGED <<row, record>> /\ (Goto(i, "idle") \/ UNCHANGED pc)
    <3>1. \A k \in Instances : pc'[k] \in {pc[k], "idle"}
      BY <1>6, <2>1 DEF Claim, Goto, TypeInv, TypeOK
    <3> QED BY <1>6, <2>1, <3>1, EvidenceKept DEF Claim
  <2>2. CASE \E r \in queue[i] :
               /\ Claimable(r)
               /\ row' = [row EXCEPT ![r] = [@ EXCEPT !.lockedBy = i, !.fresh = TRUE]]
               /\ record' = [record EXCEPT ![i] = r]
               /\ Goto(i, "read")
    <3>1. PICK r \in Records :
               /\ Claimable(r)
               /\ row' = [row EXCEPT ![r] = [@ EXCEPT !.lockedBy = i, !.fresh = TRUE]]
               /\ record' = [record EXCEPT ![i] = r]
               /\ pc' = [pc EXCEPT ![i] = "read"]
      BY <2>2 DEF TypeInv, TypeOK, Goto
    <3>2. \A q \in Records : /\ row'[q].exists = row[q].exists
                             /\ row'[q].attempts = row[q].attempts
                             /\ row'[q].published = row[q].published
                             /\ row'[q].dead = row[q].dead
      <4>1. row[r] \in Rows
        BY DEF TypeInv, TypeOK
      <4>2. /\ row'[r] = [row[r] EXCEPT !.lockedBy = i, !.fresh = TRUE]
            /\ \A q \in Records \ {r} : row'[q] = row[q]
        BY <3>1 DEF TypeInv, TypeOK
      <4> QED BY <4>1, <4>2 DEF Rows
    <3>3. UNCHANGED <<sent, failed, attempts>>
      BY <1>6 DEF Claim
    <3>4. /\ pc'[i] = "read" /\ record'[i] = r /\ row[r].exists
          /\ \A k \in Instances \ {i} : pc'[k] = pc[k] /\ record'[k] = record[k]
      BY <3>1 DEF TypeInv, TypeOK, Claimable, Open
    <3>5. ASSUME NEW k \in Instances PROVE Evidence(k)'
      BY <3>2, <3>3, <3>4, <3>5 DEF EvidenceInv, Evidence, Busy, TypeInv
    <3>6. ASSUME NEW q \in Records PROVE RowEvidence(q)'
      BY <3>2, <3>3, <3>6 DEF EvidenceInv, RowEvidence
    <3> QED BY <3>5, <3>6 DEF EvidenceInv
  <2> QED BY <1>6, <2>1, <2>2 DEF Claim
<1>7. ASSUME NEW i \in Instances, Read(i)
      PROVE  EvidenceInv'
  <2>1. /\ UNCHANGED <<row, sent, failed, record>> /\ pc[i] = "read"
        /\ pc'[i] = "send" /\ attempts'[i] = row[record[i]].attempts
        /\ \A k \in Instances \ {i} : pc'[k] = pc[k] /\ attempts'[k] = attempts[k]
    BY <1>7 DEF Read, Goto, rows, TypeInv, TypeOK
  <2>2. record[i] \in Records /\ row[record[i]].exists
    BY <2>1 DEF TypeInv, Busy, EvidenceInv, Evidence
  <2>3. row[record[i]].attempts <= failed[record[i]]
    BY <2>2 DEF EvidenceInv, RowEvidence
  <2>4. ASSUME NEW k \in Instances PROVE Evidence(k)'
    BY <2>1, <2>2, <2>3, <2>4 DEF EvidenceInv, Evidence, Busy
  <2>5. ASSUME NEW q \in Records PROVE RowEvidence(q)'
    BY <2>1, <2>5 DEF EvidenceInv, RowEvidence
  <2> QED BY <2>4, <2>5 DEF EvidenceInv

<1>8. ASSUME NEW i \in Instances, Send(i)
      PROVE  EvidenceInv'
  <2>1. record[i] \in Records /\ row[record[i]].exists /\ attempts[i] <= failed[record[i]]
    BY <1>8 DEF Send, TypeInv, Busy, EvidenceInv, Evidence
  <2>2. /\ UNCHANGED <<row, failed, record, attempts>> /\ pc[i] = "send"
        /\ \A k \in Instances \ {i} : pc'[k] = pc[k]
        /\ \/ pc'[i] = "fail"
           \/ pc'[i] = "mark" /\ sent' = [sent EXCEPT ![record[i]] = @ + 1]
    BY <1>8 DEF Send, Goto, TypeInv, TypeOK
  <2>3. \A q \in Records : sent'[q] = sent[q] \/ (sent'[q] = sent[q] + 1 /\ row[q].exists)
    <3>1. CASE UNCHANGED sent
      BY <3>1
    <3>2. CASE sent' = [sent EXCEPT ![record[i]] = @ + 1]
      BY <2>1, <3>2, CountUp DEF TypeInv, TypeOK
    <3> QED BY <1>8, <3>1, <3>2 DEF Send
  <2>4. \A q \in Records : sent[q] \in Nat
    BY DEF TypeInv, TypeOK
  <2>5. pc'[i] = "mark" => sent'[record[i]] > 0
    BY <2>1, <2>2, <2>4, CountUp DEF TypeInv, TypeOK
  <2>6. ASSUME NEW k \in Instances PROVE Evidence(k)'
    <3>1. CASE k = i
      BY <2>1, <2>2, <2>5, <3>1 DEF Evidence, Busy
    <3>2. CASE k # i
      <4>1. Busy(k) => record[k] \in Records
        BY DEF TypeInv
      <4>2. Evidence(k)
        BY DEF EvidenceInv
      <4> QED BY <2>2, <2>3, <2>4, <2>6, <3>2, <4>1, <4>2 DEF Evidence, Busy
    <3> QED BY <3>1, <3>2
  <2>7. ASSUME NEW q \in Records PROVE RowEvidence(q)'
    BY <2>2, <2>3, <2>4, <2>7 DEF EvidenceInv, RowEvidence
  <2> QED BY <2>6, <2>7 DEF EvidenceInv
<1>9. ASSUME NEW i \in Instances, MarkPublished(i)
      PROVE  EvidenceInv'
  <2>1. record[i] \in Records /\ row[record[i]] \in Rows /\ sent[record[i]] > 0
    BY <1>9 DEF MarkPublished, TypeInv, TypeOK, Busy, EvidenceInv, Evidence
  <2>2. /\ row'[record[i]] = [row[record[i]] EXCEPT !.published = TRUE, !.lockedBy = Nobody,
                                                    !.fresh = FALSE]
        /\ \A q \in Records \ {record[i]} : row'[q] = row[q]
    BY <1>9, <2>1 DEF MarkPublished, TypeInv, TypeOK
  <2>3. \A q \in Records : /\ row'[q].exists = row[q].exists
                           /\ row'[q].attempts = row[q].attempts
                           /\ row'[q].published => row[q].published \/ q = record[i]
                           /\ row'[q].dead = row[q].dead
    <3>1. /\ row'[record[i]].exists = row[record[i]].exists
          /\ row'[record[i]].attempts = row[record[i]].attempts
          /\ row'[record[i]].dead = row[record[i]].dead
      BY <2>1, <2>2 DEF Rows
    <3> QED BY <2>1, <2>2, <3>1
  <2>4. /\ UNCHANGED <<sent, failed, record, attempts>> /\ pc'[i] = "claim"
        /\ \A k \in Instances \ {i} : pc'[k] = pc[k]
    BY <1>9 DEF MarkPublished, Goto, TypeInv, TypeOK
  <2>5. ASSUME NEW k \in Instances PROVE Evidence(k)'
    BY <2>3, <2>4, <2>5 DEF EvidenceInv, Evidence, Busy, TypeInv
  <2>6. ASSUME NEW q \in Records PROVE RowEvidence(q)'
    BY <2>1, <2>3, <2>4, <2>6 DEF EvidenceInv, RowEvidence
  <2> QED BY <2>5, <2>6 DEF EvidenceInv
<1>10. ASSUME NEW i \in Instances, RecordFailure(i)
       PROVE  EvidenceInv'
  <2>1. /\ record[i] \in Records /\ row[record[i]] \in Rows /\ attempts[i] \in Nat
        /\ attempts[i] <= failed[record[i]] /\ row[record[i]].exists
    BY <1>10 DEF RecordFailure, TypeInv, TypeOK, Busy, EvidenceInv, Evidence
  <2>2. /\ row'[record[i]] = AfterFailure(row[record[i]], attempts[i] + 1)
        /\ \A q \in Records \ {record[i]} : row'[q] = row[q]
    BY <1>10, <2>1 DEF RecordFailure, TypeInv, TypeOK
  <2>3. /\ failed'[record[i]] = failed[record[i]] + 1
        /\ \A q \in Records \ {record[i]} : failed'[q] = failed[q]
    BY <1>10, <2>1, CountUp DEF RecordFailure, TypeInv, TypeOK
  <2>4. /\ row'[record[i]].exists = row[record[i]].exists
        /\ row'[record[i]].attempts = attempts[i] + 1
        /\ row'[record[i]].published = row[record[i]].published
        /\ row'[record[i]].dead => row[record[i]].dead \/ attempts[i] + 1 >= MaxAttempts
    <3>1. ASSUME NEW q \in Rows, NEW n \in Nat
          PROVE  /\ AfterFailure(q, n).exists = q.exists
                 /\ AfterFailure(q, n).attempts = n
                 /\ AfterFailure(q, n).published = q.published
                 /\ AfterFailure(q, n).dead => q.dead \/ n >= MaxAttempts
      BY DEF AfterFailure, Rows
    <3>2. attempts[i] + 1 \in Nat
      BY <2>1
    <3>3. row'[record[i]] = AfterFailure(row[record[i]], attempts[i] + 1)
      BY <2>2
    <3>4. row[record[i]] \in Rows
      BY <2>1
    <3> QED BY <3>1, <3>2, <3>3, <3>4
  <2>5. /\ UNCHANGED <<sent, record, attempts>> /\ pc'[i] = "claim"
        /\ \A k \in Instances \ {i} : pc'[k] = pc[k]
    BY <1>10 DEF RecordFailure, Goto, TypeInv, TypeOK
  <2>6. /\ \A q \in Records : failed[q] \in Nat
        /\ \A k \in Instances : attempts[k] \in Nat
    BY DEF TypeInv, TypeOK
  <2>7. ASSUME NEW k \in Instances PROVE Evidence(k)'
    <3>1. Evidence(k) /\ (Busy(k) => record[k] \in Records)
      BY DEF EvidenceInv, TypeInv
    <3> QED BY <2>2, <2>3, <2>4, <2>5, <2>6, <3>1 DEF Evidence, Busy
  <2>8. ASSUME NEW q \in Records PROVE RowEvidence(q)'
    <3>1. RowEvidence(q)
      BY DEF EvidenceInv
    <3>2. CASE q = record[i]
      <4>1. row'[q].dead => failed'[q] >= MaxAttempts
        BY <2>1, <2>3, <2>4, <2>6, <3>1, <3>2, OutboxAssumption DEF RowEvidence
      <4>2. row'[q].published => sent'[q] > 0
        BY <2>4, <2>5, <3>1, <3>2 DEF RowEvidence
      <4>3. row'[q].attempts <= failed'[q]
        BY <2>1, <2>3, <2>4, <2>6, <3>2
      <4>4. row'[q].exists
        BY <2>1, <2>4, <3>2
      <4> QED BY <4>1, <4>2, <4>3, <4>4 DEF RowEvidence
    <3>3. CASE q # record[i]
      BY <2>2, <2>3, <2>5, <3>1, <3>3 DEF RowEvidence
    <3> QED BY <3>2, <3>3
  <2> QED BY <2>7, <2>8 DEF EvidenceInv
<1> QED
  BY <1>2, <1>3, <1>4, <1>5, <1>6, <1>7, <1>8, <1>9, <1>10 DEF Next, Run

LEMMA EvidenceAlways == Spec => []EvidenceInv
BY EvidenceInit, EvidenceStep, PTL DEF Spec

\* No row is marked as published that Kafka did not get.
THEOREM OutboxPublishes == Spec => []PublishedWasSent
<1>1. EvidenceInv => PublishedWasSent
  BY DEF EvidenceInv, RowEvidence, PublishedWasSent
<1> QED BY <1>1, EvidenceAlways, PTL

\* No row is given up before MaxAttempts failures were recorded, stale attempts included.
THEOREM OutboxKeepsTrying == Spec => []GivenUpAfterMaxAttempts
<1>1. EvidenceInv => GivenUpAfterMaxAttempts
  BY DEF EvidenceInv, RowEvidence, GivenUpAfterMaxAttempts
<1> QED BY <1>1, EvidenceAlways, PTL

-----------------------------------------------------------------------------
(* Duplicates *)

\* The replicas that may still send a row.
Publishers(r) == {i \in Instances : pc[i] \in {"read", "send"} /\ record[i] = r}

\* A row that may be claimed is one more message to come.
Spare(r) == IF Claimable(r) THEN 1 ELSE 0

\* Messages sent and to come are covered by one, the failures and the leases that ran out.
Excused(r) == sent[r] + Cardinality(Publishers(r)) + Spare(r) <= 1 + failed[r] + expired[r]

ExcusedInv == EvidenceInv /\ \A r \in Records : Excused(r)

LEMMA PublishersFinite ==
    \A r \in Records : IsFiniteSet(Publishers(r)) /\ Cardinality(Publishers(r)) \in Nat
<1> TAKE r \in Records
<1>1. Publishers(r) \subseteq Instances
  BY DEF Publishers
<1>2. IsFiniteSet(Publishers(r))
  BY <1>1, OutboxAssumption, FS_Subset
<1> QED BY <1>2, FS_CardinalityType

LEMMA Counts ==
    ASSUME TypeInv, NEW r \in Records
    PROVE  sent[r] \in Nat /\ failed[r] \in Nat /\ expired[r] \in Nat
BY DEF TypeInv, TypeOK

\* Nothing was sent and nobody more may send: fine if the row became claimable only
\* by a failure or a lease that ran out.
LEMMA ExcusedKept ==
    ASSUME TypeInv, TypeInv', NEW r \in Records, Excused(r),
           Publishers(r)' \subseteq Publishers(r), sent'[r] = sent[r],
           failed'[r] >= failed[r], expired'[r] >= expired[r],
           Claimable(r)' => \/ Claimable(r)
                            \/ failed'[r] >= failed[r] + 1
                            \/ expired'[r] >= expired[r] + 1
    PROVE  Excused(r)'
<1>1. Cardinality(Publishers(r)') <= Cardinality(Publishers(r))
  BY PublishersFinite, FS_Subset
<1>2. Cardinality(Publishers(r)') \in Nat /\ Cardinality(Publishers(r)) \in Nat
  BY <1>1, PublishersFinite, FS_Subset, FS_CardinalityType
<1>3. /\ sent[r] \in Nat /\ failed[r] \in Nat /\ expired[r] \in Nat
      /\ failed'[r] \in Nat /\ expired'[r] \in Nat
  BY Counts DEF TypeInv, TypeOK
<1>4. Spare(r)' <= Spare(r) \/ failed'[r] + expired'[r] >= failed[r] + expired[r] + 1
  BY <1>3 DEF Spare
<1>5. Spare(r) \in 0 .. 1 /\ Spare(r)' \in 0 .. 1
  BY DEF Spare
<1> HIDE DEF Publishers, Spare
<1>6. sent[r] + Cardinality(Publishers(r)) + Spare(r) <= 1 + failed[r] + expired[r]
  BY DEF Excused
<1>7. sent'[r] + Cardinality(Publishers(r)') + Spare(r)' <= 1 + failed'[r] + expired'[r]
  BY <1>1, <1>2, <1>3, <1>4, <1>5, <1>6
<1> QED BY <1>7 DEF Excused

LEMMA ExcusedInit == Init => ExcusedInv
<1> SUFFICES ASSUME Init PROVE ExcusedInv
  OBVIOUS
<1>1. ASSUME NEW r \in Records PROVE Excused(r)
  <2>1. Publishers(r) = {}
    BY DEF Init, Publishers
  <2>2. ~Claimable(r)
    BY DEF Init, Claimable, Open, NewRow
  <2>3. sent[r] = 0 /\ failed[r] = 0 /\ expired[r] = 0
    BY DEF Init
  <2> QED BY <2>1, <2>2, <2>3, FS_EmptySet DEF Excused, Spare
<1> QED BY <1>1, EvidenceInit DEF ExcusedInv


\* No row was touched: enough that no replica comes to publish.
LEMMA ExcusedUntouched ==
    ASSUME ExcusedInv, EvidenceInv', UNCHANGED rows,
           \A i \in Instances : pc'[i] \in {"read", "send"} =>
                                pc[i] \in {"read", "send"} /\ record'[i] = record[i]
    PROVE  ExcusedInv'
<1>1. ASSUME NEW r \in Records PROVE Excused(r)'
  <2>1. Publishers(r)' \subseteq Publishers(r)
    BY DEF Publishers
  <2>2. Claimable(r)' => Claimable(r)
    BY DEF Claimable, Open, Unlocked, rows
  <2>3. UNCHANGED <<sent, failed, expired>> /\ Excused(r) /\ TypeInv /\ TypeInv'
    BY DEF rows, ExcusedInv, EvidenceInv
  <2> QED BY <2>1, <2>2, <2>3, ExcusedKept, Counts
<1> QED BY <1>1 DEF ExcusedInv

LEMMA ExcusedStep ==
    ASSUME ExcusedInv, [Next]_vars
    PROVE  ExcusedInv'
<1>1. EvidenceInv /\ EvidenceInv' /\ TypeInv /\ TypeInv'
  BY EvidenceStep DEF ExcusedInv, EvidenceInv
<1>2. \A r \in Records : Excused(r)
  BY DEF ExcusedInv
<1> USE <1>1
<1>3. CASE UNCHANGED vars
  BY <1>3, ExcusedUntouched DEF vars, replica
<1>4. ASSUME NEW r \in Records, Enqueue(r)
      PROVE  ExcusedInv'
  <2>1. /\ ~row[r].exists /\ UNCHANGED <<sent, failed, expired, pc, record>>
        /\ \A q \in Records \ {r} : row'[q] = row[q]
    BY <1>4 DEF Enqueue, replica, TypeInv, TypeOK
  <2>2. \A q \in Records : Publishers(q)' = Publishers(q)
    BY <2>1 DEF Publishers
  <2>3. Publishers(r) = {} /\ sent[r] = 0
    BY <2>1 DEF Publishers, EvidenceInv, Evidence, RowEvidence, Busy
  <2>4. Excused(r)'
    <3>1. Cardinality(Publishers(r)') = 0 /\ Spare(r)' \in 0 .. 1 /\ sent'[r] = 0
      BY <2>1, <2>2, <2>3, FS_EmptySet DEF Spare
    <3>2. failed'[r] \in Nat /\ expired'[r] \in Nat
      BY DEF TypeInv, TypeOK
    <3> HIDE DEF Publishers, Spare
    <3> QED BY <3>1, <3>2 DEF Excused
  <2>5. ASSUME NEW q \in Records \ {r} PROVE Excused(q)'
    <3>1. Claimable(q)' => Claimable(q)
      BY <2>1 DEF Claimable, Open, Unlocked
    <3> QED BY <1>2, <2>1, <2>2, <3>1, ExcusedKept, Counts
  <2> QED BY <2>4, <2>5 DEF ExcusedInv
<1>5. ASSUME NEW r \in Records, LeaseExpires(r)
      PROVE  ExcusedInv'
  <2>1. /\ UNCHANGED <<sent, failed, pc, record>>
        /\ expired' = [expired EXCEPT ![r] = @ + 1]
        /\ \A q \in Records \ {r} : row'[q] = row[q]
    BY <1>5 DEF LeaseExpires, replica, TypeInv, TypeOK
  <2>2. /\ expired'[r] = expired[r] + 1
        /\ \A q \in Records \ {r} : expired'[q] = expired[q]
    BY <2>1, CountUp DEF TypeInv, TypeOK
  <2>3. ASSUME NEW q \in Records PROVE Excused(q)'
    <3>1. Publishers(q)' = Publishers(q)
      BY <2>1 DEF Publishers
    <3>2. Claimable(q)' => Claimable(q) \/ q = r
      BY <2>1 DEF Claimable, Open, Unlocked
    <3>3. expired'[q] >= expired[q] /\ (q = r => expired'[q] >= expired[q] + 1)
      BY <2>2, Counts
    <3> QED BY <1>2, <2>1, <3>1, <3>2, <3>3, ExcusedKept, Counts
  <2> QED BY <2>3 DEF ExcusedInv
<1>6. ASSUME NEW r \in Records, ComesDue(r)
      PROVE  ExcusedInv'
  <2>1. UNCHANGED <<sent, failed, expired, pc, record>>
    BY <1>6 DEF ComesDue, replica
  <2>2. \A q \in Records : Claimable(q)' = Claimable(q)
    <3>1. row' = [row EXCEPT ![r] = [row[r] EXCEPT !.due = TRUE]] /\ row \in [Records -> Rows]
      BY <1>6 DEF ComesDue, TypeInv, TypeOK
    <3> QED BY <3>1 DEF Claimable, Open, Unlocked, Rows
  <2>3. \A q \in Records : Publishers(q)' = Publishers(q)
    BY <2>1 DEF Publishers
  <2>4. ASSUME NEW q \in Records PROVE Excused(q)'
    BY <1>2, <2>1, <2>2, <2>3, ExcusedKept, Counts
  <2> QED BY <2>4 DEF ExcusedInv
<1>7. ASSUME NEW i \in Instances, \/ FindCandidates(i) \/ DatabaseError(i) \/ Crash(i) \/ Read(i)
      PROVE  ExcusedInv'
  <2>1. UNCHANGED <<rows, record>>
    BY <1>7 DEF FindCandidates, DatabaseError, Crash, Read
  <2>2. \A k \in Instances : pc'[k] \in {"read", "send"} => pc[k] \in {"read", "send"}
    BY <1>7 DEF FindCandidates, DatabaseError, Crash, Read, Goto, TypeInv, TypeOK
  <2> QED BY <2>1, <2>2, ExcusedUntouched
<1>8. ASSUME NEW i \in Instances, Claim(i)
      PROVE  ExcusedInv'
  <2>1. UNCHANGED <<sent, failed, expired>> /\ pc[i] = "claim"
    BY <1>8 DEF Claim
  <2>2. CASE UNCHANGED <<row, record>> /\ (Goto(i, "idle") \/ UNCHANGED pc)
    <3>1. \A k \in Instances : pc'[k] \in {"read", "send"} => pc[k] \in {"read", "send"}
      BY <2>2 DEF Goto, TypeInv, TypeOK
    <3> QED BY <2>1, <2>2, <3>1, ExcusedUntouched DEF rows
  <2>3. CASE \E r \in queue[i] :
               /\ Claimable(r)
               /\ row' = [row EXCEPT ![r] = [@ EXCEPT !.lockedBy = i, !.fresh = TRUE]]
               /\ record' = [record EXCEPT ![i] = r]
               /\ Goto(i, "read")
    <3>1. PICK r \in Records :
               /\ Claimable(r)
               /\ row' = [row EXCEPT ![r] = [@ EXCEPT !.lockedBy = i, !.fresh = TRUE]]
               /\ record' = [record EXCEPT ![i] = r]
               /\ pc' = [pc EXCEPT ![i] = "read"]
      BY <2>3 DEF TypeInv, TypeOK, Goto
    <3>2. /\ pc'[i] = "read" /\ record'[i] = r
          /\ \A k \in Instances \ {i} : pc'[k] = pc[k] /\ record'[k] = record[k]
          /\ \A q \in Records \ {r} : row'[q] = row[q]
      BY <3>1 DEF TypeInv, TypeOK
    <3>3. ~Claimable(r)'
      <4>1. row'[r].lockedBy = i /\ row'[r].fresh = TRUE
        <5>1. row[r] \in Rows /\ row'[r] = [row[r] EXCEPT !.lockedBy = i, !.fresh = TRUE]
          BY <3>1 DEF TypeInv, TypeOK
        <5> QED BY <5>1 DEF Rows
      <4> QED BY <4>1, OutboxAssumption DEF Claimable, Unlocked
    <3>4. Excused(r)'
      <4>1. Publishers(r)' = Publishers(r) \cup {i} /\ i \notin Publishers(r)
        BY <2>1, <3>2 DEF Publishers
      <4>2. Cardinality(Publishers(r)') = Cardinality(Publishers(r)) + 1
        BY <4>1, PublishersFinite, FS_AddElement
      <4>3. Spare(r) = 1 /\ Spare(r)' = 0
        BY <3>1, <3>3 DEF Spare
      <4>4. Cardinality(Publishers(r)) \in Nat
        BY PublishersFinite
      <4> HIDE DEF Publishers, Spare
      <4> QED BY <1>2, <2>1, <4>2, <4>3, <4>4, Counts DEF Excused
    <3>5. ASSUME NEW q \in Records \ {r} PROVE Excused(q)'
      <4>1. Publishers(q)' \subseteq Publishers(q)
        BY <3>2 DEF Publishers
      <4>2. Claimable(q)' => Claimable(q)
        BY <3>2 DEF Claimable, Open, Unlocked
      <4> QED BY <1>2, <2>1, <4>1, <4>2, ExcusedKept, Counts
    <3> QED BY <3>4, <3>5 DEF ExcusedInv
  <2> QED BY <1>8, <2>2, <2>3 DEF Claim
<1>9. ASSUME NEW i \in Instances, Send(i)
      PROVE  ExcusedInv'
  <2>1. record[i] \in Records
    BY <1>9 DEF Send, TypeInv, Busy
  <2>2. /\ UNCHANGED <<row, failed, expired, record>> /\ pc[i] = "send"
        /\ pc'[i] \in {"mark", "fail"}
        /\ \A k \in Instances \ {i} : pc'[k] = pc[k]
    BY <1>9 DEF Send, Goto, TypeInv, TypeOK
  <2>3. CASE UNCHANGED sent
    BY <2>2, <2>3, ExcusedUntouched DEF rows
  <2>4. CASE sent' = [sent EXCEPT ![record[i]] = @ + 1]
    <3>0. PICK r \in Records : r = record[i]
      BY <2>1
    <3>1. /\ sent'[r] = sent[r] + 1
          /\ \A q \in Records \ {r} : sent'[q] = sent[q]
      BY <3>0, <2>4, CountUp DEF TypeInv, TypeOK
    <3>2. \A q \in Records : Claimable(q)' = Claimable(q)
      BY <2>2 DEF Claimable, Open, Unlocked
    <3>3. Excused(r)'
      <4>1. Publishers(r)' = Publishers(r) \ {i} /\ i \in Publishers(r)
        BY <2>2, <3>0 DEF Publishers
      <4>2. Cardinality(Publishers(r)') = Cardinality(Publishers(r)) - 1
        BY <4>1, PublishersFinite, FS_RemoveElement
      <4>3. Spare(r) = Spare(r)' /\ Spare(r) \in 0 .. 1
        BY <3>2 DEF Spare
      <4>4. Cardinality(Publishers(r)) \in Nat
        BY PublishersFinite
      <4> HIDE DEF Publishers, Spare
      <4> QED BY <1>2, <2>2, <3>1, <4>2, <4>3, <4>4, Counts DEF Excused
    <3>4. ASSUME NEW q \in Records \ {r} PROVE Excused(q)'
      <4>1. Publishers(q)' \subseteq Publishers(q)
        BY <2>2 DEF Publishers
      <4> QED BY <1>2, <2>2, <3>1, <3>2, <4>1, ExcusedKept, Counts
    <3> QED BY <3>3, <3>4 DEF ExcusedInv
  <2> QED BY <1>9, <2>3, <2>4 DEF Send
<1>10. ASSUME NEW i \in Instances, MarkPublished(i)
       PROVE  ExcusedInv'
  <2>1. /\ UNCHANGED <<sent, failed, expired, record>> /\ pc'[i] = "claim"
        /\ \A k \in Instances \ {i} : pc'[k] = pc[k]
    BY <1>10 DEF MarkPublished, Goto, TypeInv, TypeOK
  <2>2. record[i] \in Records /\ row[record[i]] \in Rows
    BY <1>10 DEF MarkPublished, TypeInv, TypeOK, Busy
  <2>3. /\ row'[record[i]] = [row[record[i]] EXCEPT !.published = TRUE, !.lockedBy = Nobody,
                                                    !.fresh = FALSE]
        /\ \A q \in Records \ {record[i]} : row'[q] = row[q]
    BY <1>10, <2>2 DEF MarkPublished, TypeInv, TypeOK
  <2>4. row'[record[i]].published
    BY <2>2, <2>3 DEF Rows
  <2>5. ASSUME NEW q \in Records PROVE Excused(q)'
    <3>1. Publishers(q)' \subseteq Publishers(q)
      BY <2>1 DEF Publishers
    <3>2. Claimable(q)' => Claimable(q)
      BY <2>3, <2>4 DEF Claimable, Open, Unlocked
    <3> QED BY <1>2, <2>1, <3>1, <3>2, ExcusedKept, Counts
  <2> QED BY <2>5 DEF ExcusedInv
<1>11. ASSUME NEW i \in Instances, RecordFailure(i)
       PROVE  ExcusedInv'
  <2>1. /\ UNCHANGED <<sent, expired, record>> /\ pc'[i] = "claim"
        /\ \A k \in Instances \ {i} : pc'[k] = pc[k]
    BY <1>11 DEF RecordFailure, Goto, TypeInv, TypeOK
  <2>2. record[i] \in Records
    BY <1>11 DEF RecordFailure, TypeInv, Busy
  <2>3. \A q \in Records \ {record[i]} : row'[q] = row[q]
    BY <1>11, <2>2 DEF RecordFailure, TypeInv, TypeOK
  <2>4. /\ failed'[record[i]] = failed[record[i]] + 1
        /\ \A q \in Records \ {record[i]} : failed'[q] = failed[q]
    BY <1>11, <2>2, CountUp DEF RecordFailure, TypeInv, TypeOK
  <2>5. ASSUME NEW q \in Records PROVE Excused(q)'
    <3>1. Publishers(q)' \subseteq Publishers(q)
      BY <2>1 DEF Publishers
    <3>2. Claimable(q)' => Claimable(q) \/ q = record[i]
      BY <2>3 DEF Claimable, Open, Unlocked
    <3>3. failed'[q] >= failed[q] /\ (q = record[i] => failed'[q] >= failed[q] + 1)
      BY <2>4, Counts
    <3> QED BY <1>2, <2>1, <3>1, <3>2, <3>3, ExcusedKept, Counts
  <2> QED BY <2>5 DEF ExcusedInv
<1> QED
  BY <1>3, <1>4, <1>5, <1>6, <1>7, <1>8, <1>9, <1>10, <1>11 DEF Next, Run

\* A message reaches Kafka again only after a recorded failure or a lease that ran out,
\* however many replicas publish.
THEOREM OutboxDuplicatesAreExcused == Spec => []DuplicatesAreExcused
<1>1. Spec => []ExcusedInv
  BY ExcusedInit, ExcusedStep, PTL DEF Spec
<1>2. ASSUME ExcusedInv PROVE DuplicatesAreExcused
  <2>1. ASSUME NEW r \in Records PROVE sent[r] <= 1 + failed[r] + expired[r]
    <3>1. Cardinality(Publishers(r)) \in Nat /\ Spare(r) \in 0 .. 1
      BY PublishersFinite DEF Spare
    <3>2. sent[r] \in Nat /\ failed[r] \in Nat /\ expired[r] \in Nat
      BY <1>2, Counts DEF ExcusedInv, EvidenceInv
    <3> HIDE DEF Publishers, Spare
    <3> QED BY <1>2, <3>1, <3>2 DEF ExcusedInv, Excused
  <2> QED BY <2>1 DEF DuplicatesAreExcused
<1> QED BY <1>1, <1>2, PTL

=============================================================================
