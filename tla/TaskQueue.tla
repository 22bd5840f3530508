----------------------------- MODULE TaskQueue -----------------------------
(***************************************************************************)
(* The Redis task queue (task_queue.py, class TaskQueue) with the worker   *)
(* loop that drains it (diagnosis_worker.py).  Callers publish and cancel  *)
(* tasks; every Redis command is one atomic step, and everything between   *)
(* two commands of one process is local to it.                             *)
(*                                                                         *)
(* The tasks stream is append-only: `delivered' is the last-delivered      *)
(* index of the consumer group (XREADGROUP with ">" reads only beyond it), *)
(* and the pending entries are the delivered messages outside `acked'.     *)
(* A deadline is not a clock: each of the two checks may find it passed,   *)
(* which is what an arbitrary deadline and arbitrary delays amount to.     *)
(***************************************************************************)
EXTENDS Integers, Sequences, FiniteSets

CONSTANTS Tasks,        \* task ids
          Workers,      \* DiagnosisWorker processes
          MaxRetries,   \* 3 in the code: the state hash never stores max_retries
          MaxFaults,    \* bound on the Redis errors of one behaviour
          NoWorker      \* "the claim key does not exist"

ASSUME ConstantsAssumption ==
    /\ MaxRetries \in Nat
    /\ MaxFaults \in Nat
    /\ NoWorker \notin Workers

VARIABLES status,     \* status field of diagnosis:task:<t>, "NONE" without the hash
          retry,      \* its retry_count field, 0 while absent
          claim,      \* claimed_by of diagnosis:claim:<t>
          stream,     \* incident:diagnosis:tasks
          delivered,  \* last-delivered index of the consumer group
          acked,      \* indices acknowledged by XACK
          dlq,        \* incident:diagnosis:dlq, as the original message ids
          publisher,  \* where the caller of publish(t) stands
          canceller,  \* where the caller of cancel(t) stands
          pc,         \* what worker w does next
          msg,        \* index of the message w handles, 0 when none
          seen,       \* the retry_count w read in fail()
          inTry,      \* w runs the fail() call of the deadline check, inside try
          faults      \* Redis errors so far

redisVars  == <<status, retry, claim, stream, delivered, acked, dlq>>
callerVars == <<publisher, canceller>>
workerVars == <<pc, msg, seen, inTry>>
vars == <<redisVars, callerVars, workerVars, faults>>

Status == {"NONE", "QUEUED", "CLAIMED", "COMPLETED", "FAILED", "CANCELLED", "RETRYING"}
Message == [task : Tasks, retry : Nat]

\* Inside claim(), called before the try block of _process_one.
ClaimSteps == {"claim", "drop", "mark"}
\* Inside the try block.
TrySteps == {"check", "ackCancelled", "prepare", "gate", "diagnose",
             "complete", "release", "ack", "forget"}
\* Inside fail().
FailSteps == {"failRead", "failMark", "failSend", "failRelease"}
Busy == ClaimSteps \cup TrySteps \cup FailSteps

Task(i) == stream[i].task
TaskOf(w) == Task(msg[w])

Init ==
    /\ status = [t \in Tasks |-> "NONE"]
    /\ retry = [t \in Tasks |-> 0]
    /\ claim = [t \in Tasks |-> NoWorker]
    /\ stream = <<>>
    /\ delivered = 0
    /\ acked = {}
    /\ dlq = <<>>
    /\ publisher = [t \in Tasks |-> "new"]
    /\ canceller = [t \in Tasks |-> "idle"]
    /\ pc = [w \in Workers |-> "idle"]
    /\ msg = [w \in Workers |-> 0]
    /\ seen = [w \in Workers |-> 0]
    /\ inTry = [w \in Workers |-> FALSE]
    /\ faults = 0

-----------------------------------------------------------------------------
(* Callers: publish() and cancel().                                        *)

PublishState(t) ==
    /\ publisher[t] = "new"
    /\ status' = [status EXCEPT ![t] = "QUEUED"]
    /\ publisher' = [publisher EXCEPT ![t] = "stated"]
    /\ UNCHANGED <<retry, claim, stream, delivered, acked, dlq,
                   canceller, workerVars, faults>>

PublishSend(t) ==
    /\ publisher[t] = "stated"
    /\ stream' = Append(stream, [task |-> t, retry |-> 0])
    /\ publisher' = [publisher EXCEPT ![t] = "sent"]
    /\ UNCHANGED <<status, retry, claim, delivered, acked, dlq,
                   canceller, workerVars, faults>>

\* EXISTS and HSET are one step: no command ever deletes the hash.
CancelMark(t) ==
    /\ canceller[t] = "idle"
    /\ status[t] # "NONE"
    /\ status' = [status EXCEPT ![t] = "CANCELLED"]
    /\ canceller' = [canceller EXCEPT ![t] = "marked"]
    /\ UNCHANGED <<retry, claim, stream, delivered, acked, dlq,
                   publisher, workerVars, faults>>

\* DEL of the claim key; the PUBLISH that follows has no subscriber.
CancelRelease(t) ==
    /\ canceller[t] = "marked"
    /\ claim' = [claim EXCEPT ![t] = NoWorker]
    /\ canceller' = [canceller EXCEPT ![t] = "idle"]
    /\ UNCHANGED <<status, retry, stream, delivered, acked, dlq,
                   publisher, workerVars, faults>>

-----------------------------------------------------------------------------
(* claim(): XREADGROUP, the deadline check, the claim key, the state hash. *)

\* Worker w moves from one step to the next with its message unchanged.
Goto(w, from, to) ==
    /\ pc[w] = from
    /\ pc' = [pc EXCEPT ![w] = to]

\* Seeded fault: the finally block does not reset the current task.
FinishKeepsMessage(w, from) == Goto(w, from, "idle") /\ UNCHANGED <<msg, seen, inTry>>

\* _process_one returns: the message is forgotten by w, whatever its fate.
Finish(w, from) ==
    /\ Goto(w, from, "idle")
    /\ msg' = [msg EXCEPT ![w] = 0]
    /\ seen' = [seen EXCEPT ![w] = 0]
    /\ inTry' = [inTry EXCEPT ![w] = FALSE]

\* Seeded fault: claim() also takes over pending entries, however fresh.
ClaimReadPending(w) ==
    \E i \in (1..Len(stream)) \ acked :
        /\ Goto(w, "idle", "claim")
        /\ delivered' = IF i > delivered THEN i ELSE delivered
        /\ msg' = [msg EXCEPT ![w] = i]
        /\ UNCHANGED <<status, retry, claim, stream, acked, dlq,
                       callerVars, seen, inTry, faults>>

\* Seeded fault: the worker reads the newest message ("$" for ">").
ClaimReadNewest(w) ==
    /\ delivered < Len(stream)
    /\ Goto(w, "idle", "claim")
    /\ delivered' = Len(stream)
    /\ msg' = [msg EXCEPT ![w] = Len(stream)]
    /\ UNCHANGED <<status, retry, claim, stream, acked, dlq,
                   callerVars, seen, inTry, faults>>

ClaimRead(w) ==
    /\ delivered < Len(stream)
    /\ Goto(w, "idle", "claim")
    /\ delivered' = delivered + 1
    /\ msg' = [msg EXCEPT ![w] = delivered + 1]
    /\ UNCHANGED <<status, retry, claim, stream, acked, dlq,
                   callerVars, seen, inTry, faults>>

\* Seeded fault: no `continue' after the dead letter.
ClaimExpiredGoesOn(w) ==
    /\ pc[w] = "claim"
    /\ \A k \in DOMAIN dlq : dlq[k] # msg[w]
    /\ dlq' = Append(dlq, msg[w])
    /\ UNCHANGED <<status, retry, claim, stream, delivered, acked,
                   callerVars, workerVars, faults>>

ClaimExpired(w) ==
    /\ Goto(w, "claim", "drop")
    /\ dlq' = Append(dlq, msg[w])
    /\ UNCHANGED <<status, retry, claim, stream, delivered, acked,
                   callerVars, msg, seen, inTry, faults>>

ClaimDrop(w) ==
    /\ Finish(w, "drop")
    /\ acked' = acked \cup {msg[w]}
    /\ UNCHANGED <<status, retry, claim, stream, delivered, dlq,
                   callerVars, faults>>

ClaimKey(w) ==
    /\ Goto(w, "claim", "mark")
    /\ claim' = [claim EXCEPT ![TaskOf(w)] = w]
    /\ UNCHANGED <<status, retry, stream, delivered, acked, dlq,
                   callerVars, msg, seen, inTry, faults>>

\* Seeded fault: the message is acknowledged when it is claimed.
ClaimMarkAcks(w) ==
    /\ Goto(w, "mark", "check")
    /\ status' = [status EXCEPT ![TaskOf(w)] = "CLAIMED"]
    /\ acked' = acked \cup {msg[w]}
    /\ UNCHANGED <<retry, claim, stream, delivered, dlq,
                   callerVars, msg, seen, inTry, faults>>

ClaimMark(w) ==
    /\ Goto(w, "mark", "check")
    /\ status' = [status EXCEPT ![TaskOf(w)] = "CLAIMED"]
    /\ UNCHANGED <<retry, claim, stream, delivered, acked, dlq,
                   callerVars, msg, seen, inTry, faults>>

-----------------------------------------------------------------------------
(* The try block of _process_one.                                          *)

IsCancelled(t) == status[t] = "CANCELLED"

CheckCancelled(w) ==
    /\ Goto(w, "check", IF IsCancelled(TaskOf(w)) THEN "ackCancelled" ELSE "prepare")
    /\ UNCHANGED <<redisVars, callerVars, msg, seen, inTry, faults>>

AckCancelled(w) ==
    /\ Finish(w, "ackCancelled")
    /\ acked' = acked \cup {msg[w]}
    /\ UNCHANGED <<status, retry, claim, stream, delivered, dlq,
                   callerVars, faults>>

\* The deadline passed: fail() is called inside the try block.
DeadlineExceeded(w) ==
    /\ Goto(w, "prepare", "failRead")
    /\ inTry' = [inTry EXCEPT ![w] = TRUE]
    /\ UNCHANGED <<redisVars, callerVars, msg, seen, faults>>

\* parse_incident and the checkpoint load succeed (then the gate), or the
\* payload does not parse (then the exception handler).
Prepare(w) ==
    /\ \/ Goto(w, "prepare", "gate")
       \/ Goto(w, "prepare", "failRead")
    /\ UNCHANGED <<redisVars, callerVars, msg, seen, inTry, faults>>

\* The check of _run_diagnosis: CancelledError is handled by fail().
Gate(w) ==
    /\ Goto(w, "gate", IF IsCancelled(TaskOf(w)) THEN "failRead" ELSE "diagnose")
    /\ UNCHANGED <<redisVars, callerVars, msg, seen, inTry, faults>>

\* Seeded fault: a diagnosis that raises is repeated at once, and not counted.
DiagnoseInPlace(w) ==
    /\ \/ Goto(w, "diagnose", "complete")
       \/ Goto(w, "diagnose", "gate")
    /\ UNCHANGED <<redisVars, callerVars, msg, seen, inTry, faults>>

\* agent.diagnose returns a report or raises.
Diagnose(w) ==
    /\ \/ Goto(w, "diagnose", "complete")
       \/ Goto(w, "diagnose", "failRead")
    /\ UNCHANGED <<redisVars, callerVars, msg, seen, inTry, faults>>

Complete(w) ==
    /\ Goto(w, "complete", "release")
    /\ status' = [status EXCEPT ![TaskOf(w)] = "COMPLETED"]
    /\ UNCHANGED <<retry, claim, stream, delivered, acked, dlq,
                   callerVars, msg, seen, inTry, faults>>

CompleteRelease(w) ==
    /\ Goto(w, "release", "ack")
    /\ claim' = [claim EXCEPT ![TaskOf(w)] = NoWorker]
    /\ UNCHANGED <<status, retry, stream, delivered, acked, dlq,
                   callerVars, msg, seen, inTry, faults>>

Ack(w) ==
    /\ Goto(w, "ack", "forget")
    /\ acked' = acked \cup {msg[w]}
    /\ UNCHANGED <<status, retry, claim, stream, delivered, dlq,
                   callerVars, msg, seen, inTry, faults>>

\* checkpointer.delete, the last call of the try block.
ForgetCheckpoint(w) ==
    /\ Finish(w, "forget")
    /\ UNCHANGED <<redisVars, callerVars, faults>>

-----------------------------------------------------------------------------
(* fail(): read the hash, mark it, send a retry or a dead letter, release. *)

FailRead(w) ==
    /\ Goto(w, "failRead", "failMark")
    /\ seen' = [seen EXCEPT ![w] = retry[TaskOf(w)]]
    /\ UNCHANGED <<redisVars, callerVars, msg, inTry, faults>>

MayRetry(w) == seen[w] < MaxRetries

\* Seeded fault: the new retry_count is not stored.
FailMarkForgetsCount(w) ==
    /\ Goto(w, "failMark", "failSend")
    /\ status' = [status EXCEPT ![TaskOf(w)] = IF MayRetry(w) THEN "RETRYING" ELSE "FAILED"]
    /\ UNCHANGED <<retry, claim, stream, delivered, acked, dlq,
                   callerVars, msg, seen, inTry, faults>>

FailMark(w) ==
    /\ Goto(w, "failMark", "failSend")
    /\ IF MayRetry(w)
       THEN /\ status' = [status EXCEPT ![TaskOf(w)] = "RETRYING"]
            /\ retry' = [retry EXCEPT ![TaskOf(w)] = seen[w] + 1]
       ELSE /\ status' = [status EXCEPT ![TaskOf(w)] = "FAILED"]
            /\ UNCHANGED retry
    /\ UNCHANGED <<claim, stream, delivered, acked, dlq,
                   callerVars, msg, seen, inTry, faults>>

\* Seeded fault: the retry goes to RETRY_STREAM, which nobody reads.
FailSendToRetryStream(w) ==
    /\ Goto(w, "failSend", "failRelease")
    /\ dlq' = IF MayRetry(w) THEN dlq ELSE Append(dlq, msg[w])
    /\ UNCHANGED <<status, retry, claim, stream, delivered, acked,
                   callerVars, msg, seen, inTry, faults>>

FailSend(w) ==
    /\ Goto(w, "failSend", "failRelease")
    /\ IF MayRetry(w)
       THEN /\ stream' = Append(stream, [task |-> TaskOf(w), retry |-> seen[w] + 1])
            /\ UNCHANGED dlq
       ELSE /\ dlq' = Append(dlq, msg[w])
            /\ UNCHANGED stream
    /\ UNCHANGED <<status, retry, claim, delivered, acked,
                   callerVars, msg, seen, inTry, faults>>

\* Seeded fault: the failed message is acknowledged.
FailReleaseAcks(w) ==
    /\ Finish(w, "failRelease")
    /\ claim' = [claim EXCEPT ![TaskOf(w)] = NoWorker]
    /\ acked' = acked \cup {msg[w]}
    /\ UNCHANGED <<status, retry, stream, delivered, dlq, callerVars, faults>>

\* Seeded fault: the claim is refreshed instead of released.
FailReleaseKeepsClaim(w) ==
    /\ Finish(w, "failRelease")
    /\ claim' = [claim EXCEPT ![TaskOf(w)] = w]
    /\ UNCHANGED <<status, retry, stream, delivered, acked, dlq, callerVars, faults>>

\* Seeded fault: the status is marked after the retry was sent.
FailReleaseMarks(w) ==
    /\ Finish(w, "failRelease")
    /\ claim' = [claim EXCEPT ![TaskOf(w)] = NoWorker]
    /\ status' = [status EXCEPT ![TaskOf(w)] = IF MayRetry(w) THEN "RETRYING" ELSE "FAILED"]
    /\ UNCHANGED <<retry, stream, delivered, acked, dlq, callerVars, faults>>

\* The failed message is not acknowledged.
FailRelease(w) ==
    /\ Finish(w, "failRelease")
    /\ claim' = [claim EXCEPT ![TaskOf(w)] = NoWorker]
    /\ UNCHANGED <<status, retry, stream, delivered, acked, dlq,
                   callerVars, faults>>

-----------------------------------------------------------------------------
(* Faults.                                                                 *)

\* The process of a worker dies.  One that dies idle loses nothing.
Crash(w) ==
    /\ pc[w] \in Busy
    /\ pc' = [pc EXCEPT ![w] = "down"]
    /\ msg' = [msg EXCEPT ![w] = 0]
    /\ seen' = [seen EXCEPT ![w] = 0]
    /\ inTry' = [inTry EXCEPT ![w] = FALSE]
    /\ UNCHANGED <<redisVars, callerVars, faults>>

\* Someone starts a worker in its place: a new consumer of the group, which
\* never reads the pending entries of the old one.  The repository has nothing
\* that does this, so it may happen at any time or never.
Restart(w) ==
    /\ Goto(w, "down", "idle")
    /\ UNCHANGED <<redisVars, callerVars, msg, seen, inTry, faults>>

\* A caller dies, or gets a Redis error, between its two commands.
PublisherDies(t) ==
    /\ publisher[t] = "stated"
    /\ publisher' = [publisher EXCEPT ![t] = "lost"]
    /\ UNCHANGED <<redisVars, canceller, workerVars, faults>>

CancellerDies(t) ==
    /\ canceller[t] = "marked"
    /\ canceller' = [canceller EXCEPT ![t] = "idle"]
    /\ UNCHANGED <<redisVars, publisher, workerVars, faults>>

Fault == faults < MaxFaults /\ faults' = faults + 1

\* A Redis command raises in claim(), or in the exception handler's fail():
\* the loop of start() swallows the error and the worker is idle again.
ErrorOutsideTry(w) ==
    /\ Fault
    /\ ~inTry[w]
    /\ \E s \in ClaimSteps \cup FailSteps : Finish(w, s)
    /\ UNCHANGED <<redisVars, callerVars>>

\* A Redis command raises inside the try block: the handler calls fail().
ErrorInTry(w) ==
    /\ Fault
    /\ \E s \in TrySteps \ {"diagnose"} : Goto(w, s, "failRead")
    /\ UNCHANGED <<redisVars, callerVars, msg, seen, inTry>>

\* The deadline check's fail() raises: the handler calls fail() once more.
\* It may have sent the retry already (s = "failRelease").
ErrorInNestedFail(w, s) ==
    /\ Fault
    /\ inTry[w]
    /\ Goto(w, s, "failRead")
    /\ inTry' = [inTry EXCEPT ![w] = FALSE]
    /\ UNCHANGED <<redisVars, callerVars, msg, seen>>

-----------------------------------------------------------------------------
Caller(t) == PublishSend(t) \/ CancelRelease(t)

Claim(w) == ClaimRead(w) \/ ClaimExpired(w) \/ ClaimDrop(w) \/ ClaimKey(w) \/ ClaimMark(w)

Process(w) ==
    \/ CheckCancelled(w) \/ AckCancelled(w) \/ DeadlineExceeded(w) \/ Prepare(w)
    \/ Gate(w) \/ Diagnose(w) \/ Complete(w) \/ CompleteRelease(w)
    \/ Ack(w) \/ ForgetCheckpoint(w)

Fail(w) == FailRead(w) \/ FailMark(w) \/ FailSend(w) \/ FailRelease(w)

Work(w) == Claim(w) \/ Process(w) \/ Fail(w)

Normal ==
    \/ \E t \in Tasks : PublishState(t) \/ CancelMark(t) \/ Caller(t)
    \/ \E w \in Workers : Work(w)

Crashes ==
    \/ \E t \in Tasks : PublisherDies(t) \/ CancellerDies(t)
    \/ \E w \in Workers : Crash(w) \/ Restart(w)

Errors ==
    \E w \in Workers :
        \/ ErrorOutsideTry(w)
        \/ ErrorInTry(w)
        \/ \E s \in FailSteps \ {"failRelease"} : ErrorInNestedFail(w, s)

Next == Normal \/ Crashes

\* Crashes only.
Spec == Init /\ [][Next]_vars

\* Crashes and Redis errors, but for an error after the nested fail() has
\* sent its retry; LossySpec adds that one.
FaultSpec == Init /\ [][Next \/ Errors]_vars
LossySpec ==
    Init /\ [][Next \/ Errors \/ \E w \in Workers : ErrorInNestedFail(w, "failRelease")]_vars

\* A worker that can take a step takes it (the loop of start() never stops
\* by itself), and a caller finishes the call it began.  Nobody is obliged to
\* publish or to cancel.
Fairness ==
    /\ \A w \in Workers : WF_vars(Work(w))
    /\ \A t \in Tasks : WF_vars(Caller(t))

FairCrashSpec == Spec /\ Fairness
FairFaultSpec == FaultSpec /\ Fairness

-----------------------------------------------------------------------------
(* Properties.                                                             *)

\* The steps at which a worker may still diagnose its message or send a retry.
Deciding(w) == pc[w] \in Busy \ {"drop", "failRelease"}
Undelivered(i) == i \in DOMAIN stream /\ i > delivered

\* Nothing will ever act on task t again.
Quiet(t) ==
    /\ publisher[t] = "sent"
    /\ \A i \in DOMAIN stream : Undelivered(i) => Task(i) # t
    /\ \A w \in Workers : Deciding(w) => TaskOf(w) # t

\* A message of t is in the consumer group's pending list.
Pending(t) == \E i \in 1..delivered : Task(i) = t /\ i \notin acked
DeadLettered(t) == \E k \in DOMAIN dlq : Task(dlq[k]) = t
Verdict(t) == status[t] \in {"COMPLETED", "FAILED", "CANCELLED"} \/ DeadLettered(t)

\* The variables hold what the code can store, and a busy worker holds a
\* delivered message of the tasks stream.
TypeOK ==
    /\ status \in [Tasks -> Status]
    /\ retry \in [Tasks -> Nat]
    /\ claim \in [Tasks -> Workers \cup {NoWorker}]
    /\ stream \in Seq(Message)
    /\ delivered \in 0..Len(stream)
    /\ acked \subseteq 1..delivered
    /\ dlq \in Seq(Nat)
    /\ \A k \in 1..Len(dlq) : dlq[k] \in 1..delivered
    /\ publisher \in [Tasks -> {"new", "stated", "sent", "lost"}]
    /\ canceller \in [Tasks -> {"idle", "marked"}]
    /\ pc \in [Workers -> Busy \cup {"idle", "down"}]
    /\ msg \in [Workers -> 0..delivered]
    /\ \A w \in Workers : pc[w] \in Busy <=> msg[w] # 0
    /\ seen \in [Workers -> Nat]
    /\ inTry \in [Workers -> BOOLEAN]
    /\ faults \in 0..MaxFaults

\* No task is ever in two places: the undelivered messages and the messages
\* workers are still deciding belong to pairwise different tasks, although
\* fail() puts the task back on the stream while its own message stays pending.
SingleOwner ==
    /\ \A w, v \in Workers :
          w # v /\ Deciding(w) /\ Deciding(v) => TaskOf(w) # TaskOf(v)
    /\ \A w \in Workers, i \in DOMAIN stream :
          Deciding(w) /\ Undelivered(i) => TaskOf(w) # Task(i)
    /\ \A i, j \in DOMAIN stream :
          i # j /\ Undelivered(i) /\ Undelivered(j) => Task(i) # Task(j)

\* The messages of a task carry strictly increasing retry counts within the
\* budget, so a task is attempted at most MaxRetries + 1 times: fail() never
\* loses an update of retry_count between its HGETALL and its HSET.
AttemptsInOrder ==
    /\ \A i \in DOMAIN stream : stream[i].retry <= MaxRetries
    /\ \A i, j \in DOMAIN stream :
          i < j /\ Task(i) = Task(j) => stream[i].retry < stream[j].retry

\* An acknowledged message is the last of its task: ack() is reached only
\* when nothing will be retried.
AckedIsLast ==
    \A i \in acked, j \in DOMAIN stream : i < j => Task(i) # Task(j)

\* A dead letter is permanent: its task has no other dead letter and nobody
\* will process it again.
DeadLetterIsFinal ==
    \A k \in DOMAIN dlq :
        /\ Quiet(Task(dlq[k]))
        /\ \A l \in DOMAIN dlq : Task(dlq[k]) = Task(dlq[l]) => k = l

\* A task nobody will process any more has a verdict, or a message still
\* pending in the consumer group: whatever crashed, the group's pending list
\* names the task to recover.
StuckIsPending ==
    \A t \in Tasks :
        Quiet(t) => Verdict(t) \/ Pending(t)

\* While a worker is past its claim of a task, the claim key names that
\* worker or is gone: a slower worker never leaves its own name there.
ClaimNamesHolder ==
    \A w \in Workers :
        Deciding(w) /\ pc[w] # "claim" => claim[TaskOf(w)] \in {w, NoWorker}

\* Once a task is COMPLETED or FAILED, only a cancel changes its status: no
\* late retry, claim or failure of another attempt overwrites the verdict.
VerdictIsKept ==
    [][\A t \in Tasks : status[t] \in {"COMPLETED", "FAILED"}
                            => status'[t] \in {status[t], "CANCELLED"}]_vars

\* The workers are not all dead for ever: one is up again and again.
SomeWorker == []<>(\E w \in Workers : pc[w] # "down")

\* As long as some worker is up, whichever dies and whatever Redis refuses,
\* every published task comes to rest for good: its retries run out, and the
\* loop goes on reading.  When only crashes disturbed it, it rests with a
\* verdict or with a message that is still pending.
EveryTaskRests ==
    SomeWorker =>
        \A t \in Tasks :
            (publisher[t] = "sent") ~> [](Quiet(t) /\ (faults = 0 => Verdict(t) \/ Pending(t)))

Undisturbed == faults = 0 /\ \A w \in Workers : pc[w] # "down"

\* When no worker dies and Redis never fails, it rests with a verdict: it
\* completes, fails for the last time, is cancelled or is dead-lettered.
EveryTaskSettles ==
    []Undisturbed =>
        \A t \in Tasks : (publisher[t] = "sent") ~> [](Quiet(t) /\ Verdict(t))

\* What the detailed queue stands for: the undelivered messages wait, and the
\* messages that workers are deciding are held.
Waiting == SubSeq(stream, delivered + 1, Len(stream))

Held == {[worker |-> w, message |-> stream[msg[w]]] : w \in {v \in Workers : Deciding(v)}}

\* The last message of t was acknowledged.
LastIsAcked(t) ==
    \E i \in acked : Task(i) = t /\ \A j \in DOMAIN stream : j > i => Task(j) # t

Fate(t) ==
    IF publisher[t] # "sent" THEN "new"
    ELSE IF ~Quiet(t) THEN "open"
    ELSE IF DeadLettered(t) THEN "dead"
    ELSE IF LastIsAcked(t) THEN "acked" ELSE "lost"

Lifecycle ==
    INSTANCE TaskLifecycle WITH waiting <- Waiting, held <- Held,
                                fate <- [t \in Tasks |-> Fate(t)]

\* Whatever crashes and whatever Redis refuses, the interleaved commands of
\* publish(), claim(), fail() and ack() amount to the steps of TaskLifecycle:
\* first in, first out, one holder, numbered retries, a fate that never changes.
ImplementsLifecycle == Lifecycle!Spec

\* As docs/agent-state-diagram.md:113-141 and Test 33 of test_phase5.py have
\* it: a cancelled task stays cancelled, it is not claimed or completed.
CancelledIsFinal ==
    [][\A t \in Tasks : status[t] = "CANCELLED" => status'[t] = "CANCELLED"]_vars

\* As the development document has it (line 824, "recovered through pending
\* claim after a worker crash"): as long as some worker is up, a published task
\* still settles.
CrashedTaskRecovers ==
    SomeWorker => \A t \in Tasks : (publisher[t] = "sent") ~> Verdict(t)
=============================================================================
