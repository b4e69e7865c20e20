---------------------------- MODULE LayoutImport ----------------------------
(***************************************************************************)
(* The analysis of uploaded layouts: layout-import.service.ts, with the    *)
(* controller that calls it and the worker thread it starts.  A request    *)
(* holds one of a few slots while it is uploaded, checked and analyzed; a  *)
(* timer and the client's disconnection abort it.  An action is what runs  *)
(* at one event of Node's event loop: a part or a chunk, a message of the  *)
(* worker, the timer, a closed connection, the end of worker.terminate().  *)
(* What a drawing is recognized as is not modelled.                        *)
(***************************************************************************)
EXTENDS Naturals, FiniteSets

CONSTANTS Requests,
          Concurrency    \* LAYOUT_IMPORT_LIMITS.concurrency

ASSUME ImportAssumption == Concurrency \in Nat \ {0}

Files == {"originalSource", "preparedImage"}
Parts == Files \cup {"metadata"}
NoPart == "none"

VARIABLES
    active,     \* the counter of slots
    pc,         \* where the request is
    parts,      \* the parts that are received
    part,       \* the file that is being received
    worker,     \* the worker thread: "posted" when its answer is on the way
    signal,     \* why the request was aborted first
    outcome,    \* how the promise of the worker was settled
    answer      \* what the client is answered

vars == <<active, pc, parts, part, worker, signal, outcome, answer>>

Aborts  == {"timeout", "cancelled"}
Reading == {"parts", "file"}
Admitted == Reading \cup {"working", "terminating"}

Init ==
    /\ active = 0
    /\ pc = [r \in Requests |-> "new"]
    /\ parts = [r \in Requests |-> {}]
    /\ part = [r \in Requests |-> NoPart]
    /\ worker = [r \in Requests |-> "none"]
    /\ signal = [r \in Requests |-> "none"]
    /\ outcome = [r \in Requests |-> "none"]
    /\ answer = [r \in Requests |-> "none"]
-----------------------------------------------------------------------------
Goto(r, label) == pc' = [pc EXCEPT ![r] = label]

\* Mutant: what went wrong first is answered.
AnswerFirst(r, result, reason) == result

\* The answer to an import that ended with result, when reason is why it was aborted: the
\* reason wins over every error, not over a result.
AnswerOf(r, result, reason) ==
    IF result = "result" \/ reason = "none" THEN result ELSE reason

\* catch and finally of analyze
Finish(r, result, reason) ==
    /\ Goto(r, "ended")
    /\ answer' = [answer EXCEPT ![r] = AnswerOf(r, result, reason)]
    /\ active' = active - 1
    /\ parts' = [parts EXCEPT ![r] = {}]

\* Mutant: one too many.
OneMoreSlot == active <= Concurrency

SlotFree == active < Concurrency

\* A request is admitted if a slot is free.  A client that is gone by then is not served.
Arrive(r) ==
    /\ pc[r] = "new"
    /\ \/ /\ SlotFree
          /\ active' = active + 1
          /\ Goto(r, "parts")
          /\ UNCHANGED <<signal, answer>>
       \/ /\ SlotFree
          /\ signal' = [signal EXCEPT ![r] = "cancelled"]
          /\ answer' = [answer EXCEPT ![r] = "cancelled"]
          /\ Goto(r, "ended")
          /\ UNCHANGED active
       \/ /\ ~SlotFree
          /\ answer' = [answer EXCEPT ![r] = "busy"]
          /\ Goto(r, "ended")
          /\ UNCHANGED <<active, signal>>
    /\ UNCHANGED <<parts, part, worker, outcome>>

\* A part begins: a second one of the same name is refused, as is one of any other name.
NextPart(r) ==
    /\ pc[r] = "parts"
    /\ \/ \E f \in Files \ parts[r] :
            /\ part' = [part EXCEPT ![r] = f]
            /\ Goto(r, "file")
            /\ UNCHANGED <<parts, active, answer>>
       \/ /\ "metadata" \notin parts[r]
          /\ parts' = [parts EXCEPT ![r] = @ \cup {"metadata"}]
          /\ UNCHANGED <<part, pc, active, answer>>
       \/ Finish(r, "refused", signal[r]) /\ UNCHANGED part
    /\ UNCHANGED <<worker, signal, outcome>>

\* A file is complete; or it is empty, too large or cut off.
FileEnds(r) ==
    /\ pc[r] = "file"
    /\ part' = [part EXCEPT ![r] = NoPart]
    /\ \/ /\ parts' = [parts EXCEPT ![r] = @ \cup {part[r]}]
          /\ Goto(r, "parts")
          /\ UNCHANGED <<active, answer>>
       \/ Finish(r, "refused", signal[r])
    /\ UNCHANGED <<worker, signal, outcome>>

\* The upload is complete: the worker starts, unless a part is missing or the metadata is
\* invalid.
UploadEnds(r) ==
    /\ pc[r] = "parts"
    /\ \/ /\ parts[r] = Parts
          /\ worker' = [worker EXCEPT ![r] = "running"]
          /\ Goto(r, "working")
          /\ UNCHANGED <<active, answer, parts>>
       \/ Finish(r, "refused", signal[r]) /\ UNCHANGED worker
    /\ UNCHANGED <<part, signal, outcome>>

\* layout-import.worker.ts: the worker posts a result or an error, or it dies.  It may also
\* compute for ever.
WorkerPosts(r) ==
    /\ worker[r] = "running" /\ worker' = [worker EXCEPT ![r] = "posted"]
    /\ UNCHANGED <<active, pc, parts, part, signal, outcome, answer>>

WorkerDies(r) ==
    /\ worker[r] \in {"running", "posted"} /\ worker' = [worker EXCEPT ![r] = "gone"]
    /\ \/ /\ pc[r] = "working" /\ worker[r] = "running"
          /\ outcome' = [outcome EXCEPT ![r] = "refused"]
          /\ Goto(r, "terminating")
       \/ /\ pc[r] # "working"
          /\ UNCHANGED <<outcome, pc>>
    /\ UNCHANGED <<active, parts, part, signal, answer>>

\* Mutant: the slot is free while the worker is being terminated.
EndsAtOnce(r, result) ==
    /\ outcome' = [outcome EXCEPT ![r] = result]
    /\ Finish(r, result, signal[r])

\* runImportWorker settles, and waits for the worker's end.
Settle(r, result) ==
    /\ outcome' = [outcome EXCEPT ![r] = result]
    /\ Goto(r, "terminating")
    /\ UNCHANGED <<active, answer, parts>>

Message(r) ==
    /\ pc[r] = "working" /\ worker[r] = "posted"
    /\ \E result \in {"result", "refused"} : Settle(r, result)
    /\ UNCHANGED <<part, worker, signal>>

\* worker.terminate() is over.
Terminated(r) ==
    /\ pc[r] = "terminating"
    /\ worker' = [worker EXCEPT ![r] = "gone"]
    /\ Finish(r, outcome[r], signal[r])
    /\ UNCHANGED <<part, signal, outcome>>
-----------------------------------------------------------------------------
\* The first abort counts: an upload ends at once, a worker is terminated first.
Abort(r, reason) ==
    /\ signal[r] = "none"
    /\ signal' = [signal EXCEPT ![r] = reason]
    /\ part' = [part EXCEPT ![r] = NoPart]
    /\ \/ pc[r] \in Reading /\ Finish(r, reason, reason) /\ UNCHANGED outcome
       \/ /\ pc[r] = "working"
          /\ outcome' = [outcome EXCEPT ![r] = reason]
          /\ Goto(r, "terminating")
          /\ UNCHANGED <<active, answer, parts>>
       \/ pc[r] = "terminating" /\ UNCHANGED <<pc, active, outcome, answer, parts>>
    /\ UNCHANGED worker

\* Mutant: the timer runs for the upload only.
RunsForUpload(r) == pc[r] \in Reading

\* The timer runs until the slot is given back.
TimerRuns(r) == pc[r] \in Admitted

Timeout(r) == TimerRuns(r) /\ Abort(r, "timeout")

\* The client closes the connection.
Disconnect(r) == Abort(r, "cancelled")

Step(r) ==
    \/ Arrive(r) \/ NextPart(r) \/ FileEnds(r) \/ UploadEnds(r) \/ WorkerPosts(r) \/ WorkerDies(r)
    \/ Message(r) \/ Terminated(r) \/ Timeout(r) \/ Disconnect(r)

Next == \E r \in Requests : Step(r)

Spec == Init /\ [][Next]_vars

\* Timers fire and terminate() comes to an end; clients and workers owe nothing.
FairSpec == Spec /\ \A r \in Requests : WF_vars(Timeout(r)) /\ WF_vars(Terminated(r))
-----------------------------------------------------------------------------
(* Properties *)

TypeOK ==
    /\ active \in 0 .. Concurrency
    /\ pc \in [Requests -> {"new", "ended"} \cup Admitted]
    /\ parts \in [Requests -> SUBSET Parts]
    /\ part \in [Requests -> Files \cup {NoPart}]
    /\ worker \in [Requests -> {"none", "running", "posted", "gone"}]
    /\ signal \in [Requests -> Aborts \cup {"none"}]
    /\ outcome \in [Requests -> Aborts \cup {"none", "result", "refused"}]
    /\ answer \in [Requests -> Aborts \cup {"none", "result", "refused", "busy"}]

\* Worker threads and uploads never outnumber the slots, also while workers that were
\* aborted are being terminated; and the counter agrees with the requests admitted, however
\* they end.
SlotsAreCounted ==
    /\ active = Cardinality({r \in Requests : pc[r] \in Admitted})
    /\ Cardinality({r \in Requests : worker[r] \in {"running", "posted"}}) <= Concurrency
    /\ \A r \in Requests : worker[r] \in {"running", "posted"} => pc[r] \in Admitted

\* A client learns why its import was aborted, whatever failed before or because of it,
\* unless the result was there first.
AbortIsAnswered ==
    \A r \in Requests :
        pc[r] = "ended" /\ signal[r] # "none" =>
            answer[r] = IF outcome[r] = "result" THEN "result" ELSE signal[r]

\* An import that got a slot gives it back, even if the client sends nothing more and the
\* worker never answers.
EveryImportEnds == \A r \in Requests : pc[r] \in Admitted ~> pc[r] = "ended"
=============================================================================
