------------------------- MODULE LayoutImportProofs -------------------------
(***************************************************************************)
(* Proofs about LayoutImport, for any number of requests and slots.        *)
(***************************************************************************)
EXTENDS LayoutImport, FiniteSetTheorems, TLAPS

\* The requests that hold a slot.
Slots == {r \in Requests : pc[r] \in Admitted}

\* The counter counts them.
Counted == IsFiniteSet(Slots) /\ active = Cardinality(Slots)

\* What is known of a request by where it is: it is not aborted while it is read or
\* analyzed, its worker ends before its slot is given back, and its answer is the one
\* AbortIsAnswered asks for.
Shape(r) ==
    /\ pc[r] \in {"new", "parts", "file", "working"} => signal[r] = "none" /\ outcome[r] = "none"
    /\ pc[r] = "file" => part[r] \in Files
    /\ worker[r] \in {"running", "posted"} => pc[r] \in {"working", "terminating"}
    /\ pc[r] = "ended" /\ signal[r] # "none" =>
           answer[r] = IF outcome[r] = "result" THEN "result" ELSE signal[r]

IInv == TypeOK /\ Counted /\ \A r \in Requests : Shape(r)

-----------------------------------------------------------------------------
(* The counter *)

LEMMA SlotTaken ==
    ASSUME TypeOK, Counted, NEW r \in Requests, pc[r] = "new", SlotFree,
           active' = active + 1, Goto(r, "parts")
    PROVE  Counted' /\ active' \in 0 .. Concurrency
<1>1. r \notin Slots /\ Slots' = Slots \cup {r}
  BY DEF Slots, Admitted, Reading, Goto, TypeOK
<1>2. IsFiniteSet(Slots) /\ active = Cardinality(Slots)
  BY DEF Counted
<1>3. IsFiniteSet(Slots \cup {r}) /\ Cardinality(Slots \cup {r}) = Cardinality(Slots) + 1
  BY <1>1, <1>2, FS_AddElement
<1>4. active' \in 0 .. Concurrency
  BY ImportAssumption DEF TypeOK, SlotFree
<1> QED BY <1>1, <1>2, <1>3, <1>4 DEF Counted

LEMMA SlotGiven ==
    ASSUME TypeOK, Counted, NEW r \in Requests, pc[r] \in Admitted,
           active' = active - 1, Goto(r, "ended")
    PROVE  Counted' /\ active' \in 0 .. Concurrency
<1>1. r \in Slots /\ Slots' = Slots \ {r}
  BY DEF Slots, Admitted, Reading, Goto, TypeOK
<1>2. IsFiniteSet(Slots) /\ active = Cardinality(Slots)
  BY DEF Counted
<1>3. IsFiniteSet(Slots \ {r}) /\ Cardinality(Slots \ {r}) = Cardinality(Slots) - 1
  BY <1>1, <1>2, FS_RemoveElement
<1>4. Cardinality(Slots \ {r}) \in Nat
  BY <1>3, FS_CardinalityType
<1>5. active' \in 0 .. Concurrency
  BY <1>2, <1>3, <1>4, ImportAssumption DEF TypeOK
<1> QED BY <1>1, <1>2, <1>3, <1>5 DEF Counted

LEMMA SlotKept ==
    ASSUME TypeOK, Counted, NEW r \in Requests, NEW label,
           pc[r] \in Admitted <=> label \in Admitted, Goto(r, label), UNCHANGED active
    PROVE  Counted' /\ active' \in 0 .. Concurrency
<1>1. Slots' = Slots
  BY DEF Slots, Goto, TypeOK
<1> QED BY <1>1 DEF Counted, TypeOK
-----------------------------------------------------------------------------
(* Each action *)

\* An action of one request leaves what is known of the others.
LEMMA OthersKeep ==
    ASSUME TypeOK, \A q \in Requests : Shape(q), NEW r \in Requests, Shape(r)',
           \A q \in Requests \ {r} : /\ pc'[q] = pc[q] /\ part'[q] = part[q] /\ worker'[q] = worker[q]
                                     /\ signal'[q] = signal[q] /\ outcome'[q] = outcome[q]
                                     /\ answer'[q] = answer[q]
    PROVE  (\A q \in Requests : Shape(q))'
BY DEF Shape

LEMMA AnswerOfType ==
    ASSUME NEW r, NEW o \in Aborts \cup {"result", "refused"}, NEW s \in Aborts \cup {"none"}
    PROVE  AnswerOf(r, o, s) \in Aborts \cup {"result", "refused"}
BY DEF AnswerOf, Aborts

LEMMA StepKeeps ==
    ASSUME IInv, NEW r \in Requests, Step(r)
    PROVE  IInv'
<1> USE DEF IInv
<1>1. CASE Arrive(r)
  <2>1. CASE SlotFree /\ active' = active + 1 /\ Goto(r, "parts") /\ UNCHANGED <<signal, answer>>
    <3>1. Counted' /\ active' \in 0 .. Concurrency
      BY <1>1, <2>1, SlotTaken DEF Arrive
    <3>2. TypeOK'
      BY <1>1, <2>1, <3>1 DEF Arrive, TypeOK, Goto, Admitted, Reading
    <3>3. (\A q \in Requests : Shape(q))'
      BY <1>1, <2>1, OthersKeep DEF Arrive, Goto, Shape, TypeOK
    <3> QED BY <3>1, <3>2, <3>3
  <2>2. CASE UNCHANGED active /\ Goto(r, "ended")
             /\ signal' \in {signal, [signal EXCEPT ![r] = "cancelled"]}
             /\ \E a \in {"busy", "cancelled"} :
                  /\ answer' = [answer EXCEPT ![r] = a]
                  /\ a = "busy" => signal' = signal
    <3>1. Counted' /\ active' \in 0 .. Concurrency
      BY <1>1, <2>2, SlotKept DEF Arrive, Admitted, Reading
    <3>2. TypeOK'
      BY <1>1, <2>2, <3>1 DEF Arrive, TypeOK, Goto, Admitted, Reading, Aborts
    <3>3. (\A q \in Requests : Shape(q))'
      BY <1>1, <2>2, OthersKeep DEF Arrive, Goto, Shape, TypeOK
    <3> QED BY <3>1, <3>2, <3>3
  <2> QED BY <1>1, <2>1, <2>2 DEF Arrive
<1>2. CASE NextPart(r) \/ FileEnds(r) \/ UploadEnds(r)
  <2>0. /\ pc[r] \in Reading /\ UNCHANGED <<signal, outcome>>
        /\ part' \in [Requests -> Files \cup {NoPart}]
        /\ parts' \in [Requests -> SUBSET Parts]
        /\ pc'[r] = "file" => part'[r] \in Files
        /\ \A q \in Requests \ {r} : part'[q] = part[q]
    <3>1. CASE NextPart(r)
      BY <3>1 DEF NextPart, Finish, Goto, TypeOK, Parts, Reading
    <3>2. CASE FileEnds(r)
      <4>1. part[r] \in Files
        BY <3>2 DEF FileEnds, Shape
      <4> QED BY <3>2, <4>1 DEF FileEnds, Finish, Goto, TypeOK, Parts, Reading
    <3>3. CASE UploadEnds(r)
      BY <3>3 DEF UploadEnds, Finish, Goto, TypeOK, Parts, Reading
    <3> QED BY <1>2, <3>1, <3>2, <3>3
  <2>1. CASE Finish(r, "refused", signal[r]) /\ UNCHANGED worker
    <3>1. Counted' /\ active' \in 0 .. Concurrency
      BY <2>0, <2>1, SlotGiven DEF Finish, Admitted
    <3>2. signal[r] = "none" /\ answer' = [answer EXCEPT ![r] = "refused"]
      BY <2>0, <2>1 DEF Finish, AnswerOf, Shape, Reading
    <3>3. TypeOK'
      BY <2>0, <2>1, <3>1, <3>2 DEF TypeOK, Finish, Goto, Admitted, Reading
    <3>4. (\A q \in Requests : Shape(q))'
      BY <2>0, <2>1, <3>2, OthersKeep DEF Finish, Goto, Shape, TypeOK, Reading
    <3> QED BY <3>1, <3>3, <3>4
  <2>2. CASE /\ UNCHANGED <<active, answer>>
             /\ \/ UNCHANGED <<pc, worker>>
                \/ \E l \in Reading : Goto(r, l) /\ UNCHANGED worker
                \/ Goto(r, "working") /\ worker' = [worker EXCEPT ![r] = "running"]
    <3>1. PICK l \in Reading \cup {"working"} :
               Goto(r, l) /\ (worker' = worker \/ (l = "working" /\ worker' = [worker EXCEPT ![r] = "running"]))
      BY <2>0, <2>2 DEF Goto, TypeOK, Reading
    <3>2. Counted' /\ active' \in 0 .. Concurrency
      BY <2>0, <2>2, <3>1, SlotKept DEF Admitted
    <3>3. TypeOK'
      BY <2>0, <2>2, <3>1, <3>2 DEF TypeOK, Goto, Admitted, Reading
    <3>4. Shape(r)'
      BY <2>0, <2>2, <3>1 DEF Goto, Shape, TypeOK, Reading
    <3>5. (\A q \in Requests : Shape(q))'
      BY <2>0, <2>2, <3>1, <3>4, OthersKeep DEF Goto, TypeOK
    <3> QED BY <3>2, <3>3, <3>5
  <2> QED BY <1>2, <2>1, <2>2 DEF NextPart, FileEnds, UploadEnds, Reading
<1>3. CASE WorkerPosts(r)
  <2>1. Slots' = Slots
    BY <1>3 DEF WorkerPosts, Slots
  <2>2. TypeOK' /\ Counted'
    BY <1>3, <2>1 DEF WorkerPosts, TypeOK, Counted
  <2>3. (\A q \in Requests : Shape(q))'
    BY <1>3, OthersKeep DEF WorkerPosts, Shape, TypeOK
  <2> QED BY <2>2, <2>3
<1>4. CASE WorkerDies(r) /\ pc[r] # "working"
  <2>1. Slots' = Slots
    BY <1>4 DEF WorkerDies, Slots
  <2>2. TypeOK' /\ Counted'
    BY <1>4, <2>1 DEF WorkerDies, TypeOK, Counted
  <2>3. (\A q \in Requests : Shape(q))'
    BY <1>4, OthersKeep DEF WorkerDies, Shape, TypeOK
  <2> QED BY <2>2, <2>3
<1>5. CASE (WorkerDies(r) /\ pc[r] = "working") \/ Message(r)
  <2>1. PICK result \in {"result", "refused"} : outcome' = [outcome EXCEPT ![r] = result]
    BY <1>5 DEF WorkerDies, Message, Settle
  <2>2. /\ pc[r] = "working" /\ Goto(r, "terminating")
        /\ worker' \in {worker, [worker EXCEPT ![r] = "gone"]}
        /\ UNCHANGED <<active, answer, signal, parts, part>>
    BY <1>5 DEF WorkerDies, Message, Settle
  <2>3. Counted' /\ active' \in 0 .. Concurrency
    BY <2>2, SlotKept DEF Admitted
  <2>4. TypeOK'
    BY <2>1, <2>2, <2>3 DEF TypeOK, Goto, Admitted
  <2>5. (\A q \in Requests : Shape(q))'
    BY <2>1, <2>2, OthersKeep DEF Goto, Shape, TypeOK
  <2> QED BY <2>3, <2>4, <2>5
<1>6. CASE Terminated(r)
  <2>1. Counted' /\ active' \in 0 .. Concurrency
    BY <1>6, SlotGiven DEF Terminated, Finish, Admitted
  <2>2. answer' = [answer EXCEPT ![r] = AnswerOf(r, outcome[r], signal[r])]
        /\ pc' = [pc EXCEPT ![r] = "ended"] /\ worker' = [worker EXCEPT ![r] = "gone"]
        /\ parts' = [parts EXCEPT ![r] = {}] /\ UNCHANGED <<part, signal, outcome>>
    BY <1>6 DEF Terminated, Finish, Goto
  <2>3. AnswerOf(r, outcome[r], signal[r]) \in Aborts \cup {"none", "result", "refused"}
    BY DEF AnswerOf, TypeOK
  <2>4. TypeOK'
    BY <2>1, <2>2, <2>3 DEF TypeOK, Admitted
  <2>5. Shape(r)'
    BY <2>2 DEF Shape, TypeOK, AnswerOf
  <2>6. (\A q \in Requests : Shape(q))'
    BY <2>2, <2>5, OthersKeep DEF TypeOK
  <2> QED BY <2>1, <2>4, <2>6
<1>7. CASE Timeout(r) \/ Disconnect(r)
  <2>1. PICK reason \in Aborts : Abort(r, reason)
    BY <1>7 DEF Timeout, Disconnect, Aborts
  <2>2. signal' = [signal EXCEPT ![r] = reason] /\ part' = [part EXCEPT ![r] = NoPart]
        /\ UNCHANGED worker /\ reason # "none" /\ signal' \in [Requests -> Aborts \cup {"none"}]
        /\ part' \in [Requests -> Files \cup {NoPart}]
    BY <2>1 DEF Abort, Aborts, TypeOK
  <2>3. CASE pc[r] \in Reading /\ Finish(r, reason, reason) /\ UNCHANGED outcome
    <3>1. Counted' /\ active' \in 0 .. Concurrency
      BY <2>3, SlotGiven DEF Finish, Admitted
    <3>2. answer' = [answer EXCEPT ![r] = reason] /\ pc' = [pc EXCEPT ![r] = "ended"]
          /\ parts' = [parts EXCEPT ![r] = {}]
      BY <2>3 DEF Finish, AnswerOf, Goto
    <3>3. TypeOK'
      BY <2>2, <2>3, <3>1, <3>2 DEF TypeOK, Admitted
    <3>4. Shape(r)'
      BY <2>2, <2>3, <3>2 DEF Shape, TypeOK, Reading
    <3>5. (\A q \in Requests : Shape(q))'
      BY <2>2, <2>3, <3>2, <3>4, OthersKeep DEF TypeOK
    <3> QED BY <3>1, <3>3, <3>5
  <2>4. CASE /\ pc[r] \in {"working", "terminating"} /\ Goto(r, "terminating")
             /\ outcome' \in {outcome, [outcome EXCEPT ![r] = reason]}
             /\ UNCHANGED <<active, answer, parts>>
    <3>1. Counted' /\ active' \in 0 .. Concurrency
      BY <2>4, SlotKept DEF Admitted
    <3>2. TypeOK'
      BY <2>2, <2>4, <3>1 DEF TypeOK, Goto, Admitted
    <3>3. Shape(r)'
      BY <2>2, <2>4 DEF Shape, TypeOK, Goto
    <3>4. (\A q \in Requests : Shape(q))'
      BY <2>2, <2>4, <3>3, OthersKeep DEF TypeOK, Goto
    <3> QED BY <3>1, <3>2, <3>4
  <2> QED BY <2>1, <2>3, <2>4 DEF Abort, Goto, TypeOK
<1> QED BY <1>1, <1>2, <1>3, <1>4, <1>5, <1>6, <1>7 DEF Step

LEMMA InvInit == Init => IInv
<1> SUFFICES ASSUME Init PROVE IInv
  OBVIOUS
<1>1. Slots = {}
  BY DEF Init, Slots, Admitted, Reading
<1>2. Counted
  BY <1>1, FS_EmptySet DEF Init, Counted
<1>3. TypeOK
  BY ImportAssumption DEF Init, TypeOK, Admitted, Reading, NoPart
<1>4. \A r \in Requests : Shape(r)
  BY DEF Init, Shape
<1> QED BY <1>2, <1>3, <1>4 DEF IInv

LEMMA InvNext == IInv /\ [Next]_vars => IInv'
<1> SUFFICES ASSUME IInv, [Next]_vars PROVE IInv'
  OBVIOUS
<1>1. CASE UNCHANGED vars
  <2>1. Slots' = Slots
    BY <1>1 DEF vars, Slots
  <2> QED BY <1>1, <2>1 DEF IInv, vars, TypeOK, Counted, Shape
<1>2. CASE Next
  BY <1>2, StepKeeps DEF Next
<1> QED BY <1>1, <1>2

\* The inductive invariant.
THEOREM InvHolds == Spec => []IInv
BY InvInit, InvNext, PTL DEF Spec
-----------------------------------------------------------------------------
(* Theorems *)

\* The variables have their types; in particular, no more slots are taken than there are.
THEOREM TypeCorrect == Spec => []TypeOK
<1>1. IInv => TypeOK
  BY DEF IInv
<1> QED BY <1>1, InvHolds, PTL

LEMMA InvCounts == IInv => SlotsAreCounted
<1> SUFFICES ASSUME IInv PROVE SlotsAreCounted
  OBVIOUS
<1> DEFINE Alive == {r \in Requests : worker[r] \in {"running", "posted"}}
<1>1. \A r \in Alive : pc[r] \in Admitted
  BY DEF IInv, Shape, Admitted
<1>2. Alive \in SUBSET Slots
  BY <1>1 DEF Slots
<1>3. IsFiniteSet(Slots) /\ active = Cardinality(Slots)
  BY DEF IInv, Counted
<1>4. Cardinality(Alive) <= Cardinality(Slots)
  BY <1>2, <1>3, FS_Subset
<1>5. Cardinality(Alive) \in Nat
  BY <1>2, <1>3, FS_Subset, FS_CardinalityType
<1>6. active <= Concurrency /\ active \in Nat
  BY DEF IInv, TypeOK
<1>7. Cardinality(Alive) <= Concurrency
  BY <1>3, <1>4, <1>5, <1>6, ImportAssumption
<1> QED BY <1>1, <1>3, <1>7 DEF SlotsAreCounted, Slots

\* Whatever the number of requests, and however they end, uploads and worker threads never
\* outnumber the slots, and the counter of analyze agrees with the requests admitted.
THEOREM SlotsCounted == Spec => []SlotsAreCounted
BY InvCounts, InvHolds, PTL

\* An import that was aborted is answered why, unless its result was there first.
THEOREM AbortAnswered == Spec => []AbortIsAnswered
<1>1. IInv => AbortIsAnswered
  BY DEF IInv, AbortIsAnswered, Shape
<1> QED BY <1>1, InvHolds, PTL
=============================================================================
