-------------------------- MODULE TaskQueueProofs --------------------------
(***************************************************************************)
(* The queue for any number of tasks, workers, retries and crashes: its    *)
(* types, who owns a task, that it refines TaskLifecycle, that a dead      *)
(* letter is final, and when a verdict and an acknowledgement can be       *)
(* relied on.                                                              *)
(***************************************************************************)
EXTENDS TaskQueue, SequenceTheorems, TLAPS

\* The types hold at the start.
LEMMA InitTypeOK == Init => TypeOK
BY ConstantsAssumption DEF Init, TypeOK, Status, Busy, ClaimSteps, TrySteps, FailSteps, Message

\* Those who publish and cancel keep the types.
LEMMA CallerTypeOK ==
    ASSUME TypeOK, NEW t \in Tasks,
           PublishState(t) \/ PublishSend(t) \/ CancelMark(t) \/ CancelRelease(t)
           \/ PublisherDies(t) \/ CancellerDies(t)
    PROVE  TypeOK'
<1>1. CASE PublishState(t)
  BY <1>1 DEF PublishState, TypeOK, Status, workerVars
<1>2. CASE PublishSend(t)
  <2>1. [task |-> t, retry |-> 0] \in Message
    BY ConstantsAssumption DEF Message
  <2>2. stream' \in Seq(Message)
    BY <1>2, <2>1 DEF PublishSend, TypeOK
  <2>3. publisher' \in [Tasks -> {"new", "stated", "sent", "lost"}]
    BY <1>2 DEF PublishSend, TypeOK
  <2> QED BY <1>2, <2>2, <2>3 DEF PublishSend, TypeOK, workerVars
<1>3. CASE CancelMark(t)
  BY <1>3 DEF CancelMark, TypeOK, Status, workerVars
<1>4. CASE CancelRelease(t)
  BY <1>4 DEF CancelRelease, TypeOK, workerVars
<1>5. CASE PublisherDies(t)
  BY <1>5 DEF PublisherDies, TypeOK, redisVars, workerVars
<1>6. CASE CancellerDies(t)
  BY <1>6 DEF CancellerDies, TypeOK, redisVars, workerVars
<1> QED BY <1>1, <1>2, <1>3, <1>4, <1>5, <1>6

\* A busy worker holds a delivered message of a known task.
LEMMA HandOK ==
    ASSUME TypeOK, NEW w \in Workers, pc[w] \in Busy
    PROVE  /\ msg[w] \in 1..delivered
           /\ msg[w] \in DOMAIN stream
           /\ stream[msg[w]] \in Message
           /\ TaskOf(w) \in Tasks
<1>1. msg[w] \in 1..delivered
  BY DEF TypeOK
<1>2. msg[w] \in DOMAIN stream /\ stream[msg[w]] \in Message
  BY <1>1 DEF TypeOK
<1> QED BY <1>1, <1>2 DEF TaskOf, Task, Message

WorkerTypeOK ==
    /\ pc \in [Workers -> Busy \cup {"idle", "down"}]
    /\ msg \in [Workers -> 0..delivered]
    /\ \A w \in Workers : pc[w] \in Busy <=> msg[w] # 0
    /\ seen \in [Workers -> Nat]
    /\ inTry \in [Workers -> BOOLEAN]

RedisTypeOK ==
    /\ status \in [Tasks -> Status]
    /\ retry \in [Tasks -> Nat]
    /\ claim \in [Tasks -> Workers \cup {NoWorker}]
    /\ stream \in Seq(Message)
    /\ delivered \in 0..Len(stream)
    /\ acked \subseteq 1..delivered
    /\ dlq \in Seq(Nat)
    /\ \A k \in 1..Len(dlq) : dlq[k] \in 1..delivered

CallersTypeOK ==
    /\ publisher \in [Tasks -> {"new", "stated", "sent", "lost"}]
    /\ canceller \in [Tasks -> {"idle", "marked"}]

\* The types, by whose variables they are.
LEMMA TypeOKParts ==
    TypeOK <=> WorkerTypeOK /\ RedisTypeOK /\ CallersTypeOK /\ faults \in 0..MaxFaults
BY DEF TypeOK, WorkerTypeOK, RedisTypeOK, CallersTypeOK

\* The same after a step.
LEMMA TypeOKPartsPrime ==
    TypeOK' <=> WorkerTypeOK' /\ RedisTypeOK' /\ CallersTypeOK' /\ (faults \in 0..MaxFaults)'
BY DEF TypeOK, WorkerTypeOK, RedisTypeOK, CallersTypeOK

\* The three ways in which a worker's own variables move.
LEMMA FinishTypeOK ==
    ASSUME TypeOK, NEW w \in Workers, NEW s \in Busy, Finish(w, s), UNCHANGED delivered
    PROVE  WorkerTypeOK'
BY DEF TypeOK, WorkerTypeOK, Finish, Goto, Busy, ClaimSteps, TrySteps, FailSteps

\* A worker that goes to another step keeps the types of the workers.
LEMMA GotoTypeOK ==
    ASSUME TypeOK, NEW w \in Workers, NEW s \in Busy, NEW d \in Busy, Goto(w, s, d),
           UNCHANGED <<msg, delivered>>,
           seen' \in [Workers -> Nat], inTry' \in [Workers -> BOOLEAN]
    PROVE  WorkerTypeOK'
BY DEF TypeOK, WorkerTypeOK, Goto

\* The steps of a claim keep the types.
LEMMA ClaimTypeOK ==
    ASSUME TypeOK, NEW w \in Workers, Claim(w)
    PROVE  TypeOK'
<1> USE DEF Busy, ClaimSteps, TrySteps, FailSteps
<1>1. CASE ClaimRead(w)
  BY <1>1 DEF ClaimRead, TypeOK, Goto, callerVars
<1>2. CASE ClaimExpired(w)
  <2>1. pc[w] = "claim" /\ Goto(w, "claim", "drop")
    BY <1>2 DEF ClaimExpired, Goto
  <2>2. WorkerTypeOK'
    BY <1>2, <2>1, GotoTypeOK DEF ClaimExpired, TypeOK
  <2>3. msg[w] \in 1..delivered
    BY <2>1, HandOK
  <2>4. RedisTypeOK'
    BY <1>2, <2>3 DEF ClaimExpired, TypeOK, RedisTypeOK
  <2> QED BY <1>2, <2>2, <2>4, TypeOKParts, TypeOKPartsPrime DEF ClaimExpired, callerVars, CallersTypeOK
<1>3. CASE ClaimDrop(w)
  <2>1. pc[w] = "drop" /\ Finish(w, "drop")
    BY <1>3 DEF ClaimDrop, Finish, Goto
  <2>2. WorkerTypeOK'
    BY <1>3, <2>1, FinishTypeOK DEF ClaimDrop
  <2>3. msg[w] \in 1..delivered
    BY <2>1, HandOK
  <2>4. RedisTypeOK'
    BY <1>3, <2>3 DEF ClaimDrop, TypeOK, RedisTypeOK
  <2> QED BY <1>3, <2>2, <2>4, TypeOKParts, TypeOKPartsPrime DEF ClaimDrop, callerVars, CallersTypeOK
<1>4. CASE ClaimKey(w)
  <2>1. pc[w] = "claim" /\ Goto(w, "claim", "mark")
    BY <1>4 DEF ClaimKey, Goto
  <2>2. WorkerTypeOK'
    BY <1>4, <2>1, GotoTypeOK DEF ClaimKey, TypeOK
  <2>3. RedisTypeOK'
    BY <1>4, <2>1, HandOK DEF ClaimKey, TypeOK, RedisTypeOK
  <2> QED BY <1>4, <2>2, <2>3, TypeOKParts, TypeOKPartsPrime DEF ClaimKey, callerVars, CallersTypeOK
<1>5. CASE ClaimMark(w)
  <2>1. pc[w] = "mark" /\ Goto(w, "mark", "check")
    BY <1>5 DEF ClaimMark, Goto
  <2>2. WorkerTypeOK'
    BY <1>5, <2>1, GotoTypeOK DEF ClaimMark, TypeOK
  <2>3. RedisTypeOK'
    BY <1>5, <2>1, HandOK DEF ClaimMark, TypeOK, RedisTypeOK, Status
  <2> QED BY <1>5, <2>2, <2>3, TypeOKParts, TypeOKPartsPrime DEF ClaimMark, callerVars, CallersTypeOK
<1> QED BY <1>1, <1>2, <1>3, <1>4, <1>5 DEF Claim
\* A step that leaves Redis, the callers and the fault counter alone.
LEMMA LocalTypeOK ==
    ASSUME TypeOK, WorkerTypeOK', UNCHANGED <<redisVars, callerVars, faults>>
    PROVE  TypeOK'
<1>1. RedisTypeOK' /\ CallersTypeOK' /\ (faults \in 0..MaxFaults)'
  BY DEF TypeOK, RedisTypeOK, CallersTypeOK, redisVars, callerVars
<1> QED BY <1>1, TypeOKPartsPrime

\* The steps of the processing keep the types.
LEMMA ProcessTypeOK ==
    ASSUME TypeOK, NEW w \in Workers, Process(w)
    PROVE  TypeOK'
<1> USE DEF Busy, ClaimSteps, TrySteps, FailSteps
<1>1. CASE CheckCancelled(w)
  <2>1. PICK d \in {"ackCancelled", "prepare"} : Goto(w, "check", d)
    BY <1>1 DEF CheckCancelled
  <2>2. WorkerTypeOK'
    BY <1>1, <2>1, GotoTypeOK DEF CheckCancelled, TypeOK, redisVars
  <2> QED BY <1>1, <2>2, LocalTypeOK DEF CheckCancelled
<1>2. CASE AckCancelled(w)
  <2>1. pc[w] = "ackCancelled" /\ Finish(w, "ackCancelled")
    BY <1>2 DEF AckCancelled, Finish, Goto
  <2>2. WorkerTypeOK'
    BY <1>2, <2>1, FinishTypeOK DEF AckCancelled
  <2>3. RedisTypeOK'
    BY <1>2, <2>1, HandOK DEF AckCancelled, TypeOK, RedisTypeOK
  <2> QED BY <1>2, <2>2, <2>3, TypeOKParts, TypeOKPartsPrime DEF AckCancelled, callerVars, CallersTypeOK
<1>3. CASE DeadlineExceeded(w)
  <2>1. WorkerTypeOK'
    BY <1>3, GotoTypeOK DEF DeadlineExceeded, TypeOK, redisVars
  <2> QED BY <1>3, <2>1, LocalTypeOK DEF DeadlineExceeded
<1>4. CASE Prepare(w)
  <2>1. PICK d \in {"gate", "failRead"} : Goto(w, "prepare", d)
    BY <1>4 DEF Prepare
  <2>2. WorkerTypeOK'
    BY <1>4, <2>1, GotoTypeOK DEF Prepare, TypeOK, redisVars
  <2> QED BY <1>4, <2>2, LocalTypeOK DEF Prepare
<1>5. CASE Gate(w)
  <2>1. PICK d \in {"failRead", "diagnose"} : Goto(w, "gate", d)
    BY <1>5 DEF Gate
  <2>2. WorkerTypeOK'
    BY <1>5, <2>1, GotoTypeOK DEF Gate, TypeOK, redisVars
  <2> QED BY <1>5, <2>2, LocalTypeOK DEF Gate
<1>6. CASE Diagnose(w)
  <2>1. PICK d \in {"complete", "failRead"} : Goto(w, "diagnose", d)
    BY <1>6 DEF Diagnose
  <2>2. WorkerTypeOK'
    BY <1>6, <2>1, GotoTypeOK DEF Diagnose, TypeOK, redisVars
  <2> QED BY <1>6, <2>2, LocalTypeOK DEF Diagnose
<1>7. CASE Complete(w)
  <2>1. pc[w] = "complete" /\ Goto(w, "complete", "release")
    BY <1>7 DEF Complete, Goto
  <2>2. WorkerTypeOK'
    BY <1>7, <2>1, GotoTypeOK DEF Complete, TypeOK
  <2>3. RedisTypeOK'
    BY <1>7, <2>1, HandOK DEF Complete, TypeOK, RedisTypeOK, Status
  <2> QED BY <1>7, <2>2, <2>3, TypeOKParts, TypeOKPartsPrime DEF Complete, callerVars, CallersTypeOK
<1>8. CASE CompleteRelease(w)
  <2>1. pc[w] = "release" /\ Goto(w, "release", "ack")
    BY <1>8 DEF CompleteRelease, Goto
  <2>2. WorkerTypeOK'
    BY <1>8, <2>1, GotoTypeOK DEF CompleteRelease, TypeOK
  <2>3. RedisTypeOK'
    BY <1>8, <2>1, HandOK DEF CompleteRelease, TypeOK, RedisTypeOK
  <2> QED BY <1>8, <2>2, <2>3, TypeOKParts, TypeOKPartsPrime DEF CompleteRelease, callerVars, CallersTypeOK
<1>9. CASE Ack(w)
  <2>1. pc[w] = "ack" /\ Goto(w, "ack", "forget")
    BY <1>9 DEF Ack, Goto
  <2>2. WorkerTypeOK'
    BY <1>9, <2>1, GotoTypeOK DEF Ack, TypeOK
  <2>3. RedisTypeOK'
    BY <1>9, <2>1, HandOK DEF Ack, TypeOK, RedisTypeOK
  <2> QED BY <1>9, <2>2, <2>3, TypeOKParts, TypeOKPartsPrime DEF Ack, callerVars, CallersTypeOK
<1>10. CASE ForgetCheckpoint(w)
  <2>1. WorkerTypeOK'
    BY <1>10, FinishTypeOK DEF ForgetCheckpoint, redisVars
  <2> QED BY <1>10, <2>1, LocalTypeOK DEF ForgetCheckpoint
<1> QED
  BY <1>1, <1>2, <1>3, <1>4, <1>5, <1>6, <1>7, <1>8, <1>9, <1>10 DEF Process

\* The steps of fail() keep the types.
LEMMA FailTypeOK ==
    ASSUME TypeOK, NEW w \in Workers, Fail(w)
    PROVE  TypeOK'
<1> USE DEF Busy, ClaimSteps, TrySteps, FailSteps
<1>1. CASE FailRead(w)
  <2>1. pc[w] = "failRead" /\ Goto(w, "failRead", "failMark")
    BY <1>1 DEF FailRead, Goto
  <2>2. seen' \in [Workers -> Nat]
    BY <1>1, <2>1, HandOK DEF FailRead, TypeOK
  <2>3. WorkerTypeOK'
    BY <1>1, <2>1, <2>2, GotoTypeOK DEF FailRead, TypeOK, redisVars
  <2> QED BY <1>1, <2>3, LocalTypeOK DEF FailRead
<1>2. CASE FailMark(w)
  <2>1. pc[w] = "failMark" /\ Goto(w, "failMark", "failSend")
    BY <1>2 DEF FailMark, Goto
  <2>2. WorkerTypeOK'
    BY <1>2, <2>1, GotoTypeOK DEF FailMark, TypeOK
  <2>3. RedisTypeOK'
    <3>0. TaskOf(w) \in Tasks /\ seen[w] + 1 \in Nat
      <4>1. TaskOf(w) \in Tasks
        BY <2>1, HandOK
      <4>2. seen[w] \in Nat
        BY DEF TypeOK
      <4> QED BY <4>1, <4>2
    <3>1. CASE MayRetry(w)
      BY <1>2, <3>0, <3>1 DEF FailMark, TypeOK, RedisTypeOK, Status
    <3>2. CASE ~MayRetry(w)
      BY <1>2, <3>0, <3>2 DEF FailMark, TypeOK, RedisTypeOK, Status
    <3> QED BY <3>1, <3>2
  <2> QED BY <1>2, <2>2, <2>3, TypeOKParts, TypeOKPartsPrime DEF FailMark, callerVars, CallersTypeOK
<1>3. CASE FailSend(w)
  <2>1. pc[w] = "failSend" /\ Goto(w, "failSend", "failRelease")
    BY <1>3 DEF FailSend, Goto
  <2>2. WorkerTypeOK'
    BY <1>3, <2>1, GotoTypeOK DEF FailSend, TypeOK
  <2>3. RedisTypeOK'
    <3>1. CASE MayRetry(w)
      <4>1. TaskOf(w) \in Tasks
        BY <2>1, HandOK
      <4>2. seen[w] \in Nat
        BY DEF TypeOK
      <4>3. [task |-> TaskOf(w), retry |-> seen[w] + 1] \in Message
        BY <4>1, <4>2 DEF Message
      <4>4. stream' = Append(stream, [task |-> TaskOf(w), retry |-> seen[w] + 1]) /\ dlq' = dlq
        BY <1>3, <3>1 DEF FailSend
      <4>5. stream' \in Seq(Message) /\ Len(stream') = Len(stream) + 1
        BY <4>3, <4>4 DEF TypeOK
      <4> QED BY <1>3, <4>4, <4>5 DEF FailSend, TypeOK, RedisTypeOK
    <3>2. CASE ~MayRetry(w)
      <4>1. msg[w] \in 1..delivered
        BY <2>1, HandOK
      <4>2. dlq' = Append(dlq, msg[w]) /\ stream' = stream
        BY <1>3, <3>2 DEF FailSend
      <4>3. dlq' \in Seq(Nat) /\ \A k \in 1..Len(dlq') : dlq'[k] \in 1..delivered
        BY <4>1, <4>2 DEF TypeOK
      <4> QED BY <1>3, <4>2, <4>3 DEF FailSend, TypeOK, RedisTypeOK
    <3> QED BY <3>1, <3>2
  <2> QED BY <1>3, <2>2, <2>3, TypeOKParts, TypeOKPartsPrime DEF FailSend, callerVars, CallersTypeOK
<1>4. CASE FailRelease(w)
  <2>1. pc[w] = "failRelease" /\ Finish(w, "failRelease")
    BY <1>4 DEF FailRelease, Finish, Goto
  <2>2. WorkerTypeOK'
    BY <1>4, <2>1, FinishTypeOK DEF FailRelease
  <2>3. RedisTypeOK'
    BY <1>4, <2>1, HandOK DEF FailRelease, TypeOK, RedisTypeOK
  <2> QED BY <1>4, <2>2, <2>3, TypeOKParts, TypeOKPartsPrime DEF FailRelease, callerVars, CallersTypeOK
<1> QED BY <1>1, <1>2, <1>3, <1>4 DEF Fail

\* Crashes, restarts and Redis errors keep the types.
LEMMA FaultTypeOK ==
    ASSUME TypeOK, NEW w \in Workers,
           \/ Crash(w) \/ Restart(w) \/ ErrorOutsideTry(w) \/ ErrorInTry(w)
           \/ \E s \in FailSteps : ErrorInNestedFail(w, s)
    PROVE  TypeOK'
<1> USE DEF Busy, ClaimSteps, TrySteps, FailSteps
<1>1. CASE Crash(w)
  <2>1. WorkerTypeOK'
    BY <1>1 DEF Crash, TypeOK, WorkerTypeOK, redisVars
  <2> QED BY <1>1, <2>1, LocalTypeOK DEF Crash
<1>2. CASE Restart(w)
  <2>1. WorkerTypeOK'
    BY <1>2 DEF Restart, TypeOK, WorkerTypeOK, redisVars, Goto
  <2> QED BY <1>2, <2>1, LocalTypeOK DEF Restart
<1>3. ASSUME Fault PROVE (faults \in 0..MaxFaults)'
  BY <1>3, ConstantsAssumption DEF Fault, TypeOK
<1>4. CASE ErrorOutsideTry(w)
  <2>1. PICK s \in ClaimSteps \cup FailSteps : Finish(w, s)
    BY <1>4 DEF ErrorOutsideTry
  <2>2. WorkerTypeOK'
    BY <1>4, <2>1, FinishTypeOK DEF ErrorOutsideTry, redisVars
  <2> QED
    BY <1>3, <1>4, <2>2, TypeOKParts, TypeOKPartsPrime
    DEF ErrorOutsideTry, redisVars, callerVars, RedisTypeOK, CallersTypeOK
<1>5. CASE ErrorInTry(w)
  <2>1. PICK s \in TrySteps \ {"diagnose"} : Goto(w, s, "failRead")
    BY <1>5 DEF ErrorInTry
  <2>2. WorkerTypeOK'
    BY <1>5, <2>1, GotoTypeOK DEF ErrorInTry, redisVars, TypeOK
  <2> QED
    BY <1>3, <1>5, <2>2, TypeOKParts, TypeOKPartsPrime
    DEF ErrorInTry, redisVars, callerVars, RedisTypeOK, CallersTypeOK
<1>6. CASE \E s \in FailSteps : ErrorInNestedFail(w, s)
  <2>1. PICK s \in FailSteps : ErrorInNestedFail(w, s)
    BY <1>6
  <2>2. WorkerTypeOK'
    BY <2>1, GotoTypeOK DEF ErrorInNestedFail, redisVars, TypeOK
  <2> QED
    BY <1>3, <2>1, <2>2, TypeOKParts, TypeOKPartsPrime
    DEF ErrorInNestedFail, redisVars, callerVars, RedisTypeOK, CallersTypeOK
<1> QED BY <1>1, <1>2, <1>4, <1>5, <1>6

\* Every step any of the specifications allows.
AnyStep == Next \/ Errors \/ \E w \in Workers : ErrorInNestedFail(w, "failRelease")

\* Every step keeps the types.
LEMMA StepTypeOK == TypeOK /\ [AnyStep]_vars => TypeOK'
<1> SUFFICES ASSUME TypeOK, [AnyStep]_vars PROVE TypeOK'
  OBVIOUS
<1>1. CASE UNCHANGED vars
  BY <1>1 DEF TypeOK, vars, redisVars, callerVars, workerVars
<1>2. CASE Normal
  BY <1>2, CallerTypeOK, ClaimTypeOK, ProcessTypeOK, FailTypeOK DEF Normal, Caller, Work
<1>3. CASE Crashes
  BY <1>3, CallerTypeOK, FaultTypeOK DEF Crashes
<1>4. CASE Errors \/ \E w \in Workers : ErrorInNestedFail(w, "failRelease")
  BY <1>4, FaultTypeOK DEF Errors, FailSteps
<1> QED BY <1>1, <1>2, <1>3, <1>4 DEF AnyStep, Next

\* The variables keep their types in every run of the queue, whatever crashes
\* and whichever Redis command fails.
THEOREM TypeCorrect == LossySpec => []TypeOK
<1>1. Init => TypeOK
  BY InitTypeOK
<1>2. TypeOK /\ [AnyStep]_vars => TypeOK'
  BY StepTypeOK
<1> QED BY <1>1, <1>2, PTL DEF LossySpec, AnyStep
-----------------------------------------------------------------------------
(* A task has one owner.  SingleOwner alone is not inductive: publish must  *)
(* find no older message of its task, hence SentOnce.                       *)

SentOnce == \A i \in DOMAIN stream : publisher[Task(i)] = "sent"
OwnerInv == TypeOK /\ SingleOwner /\ SentOnce

FaultStep == Next \/ Errors

\* The steps without the lossy error are among all steps.
LEMMA FaultStepIsAnyStep == [FaultStep]_vars => [AnyStep]_vars
BY DEF FaultStep, AnyStep

\* The places of the stream are numbers.
LEMMA DomainIsInt == TypeOK => DOMAIN stream = 1..Len(stream) /\ delivered \in Nat /\ Len(stream) \in Nat
BY DEF TypeOK

\* Most steps only let workers go on, or let go of their message.
LEMMA OwnersShrink ==
    ASSUME OwnerInv, UNCHANGED <<stream, delivered, publisher>>,
           \A v \in Workers : Deciding(v)' => Deciding(v) /\ msg'[v] = msg[v]
    PROVE  (SingleOwner /\ SentOnce)'
<1>1. SentOnce'
  BY DEF OwnerInv, SentOnce, Task
<1>2. \A v \in Workers : Deciding(v)' => TaskOf(v)' = TaskOf(v)
  BY DEF TaskOf, Task
<1>3. \A i : Undelivered(i)' <=> Undelivered(i)
  BY DEF Undelivered
<1>4. \A i : Task(i)' = Task(i)
  BY DEF Task
<1>5. stream' = stream
  OBVIOUS
<1> QED BY <1>1, <1>2, <1>3, <1>4, <1>5 DEF OwnerInv, SingleOwner

\* The task of a fresh message must be in nobody's hands and not queued.
LEMMA OwnerAppends ==
    ASSUME OwnerInv, NEW t \in Tasks, NEW n \in Nat,
           stream' = Append(stream, [task |-> t, retry |-> n]),
           UNCHANGED <<delivered, msg>>,
           publisher'[t] = "sent",
           \A u \in Tasks : publisher[u] = "sent" => publisher'[u] = "sent",
           \A v \in Workers : Deciding(v)' => Deciding(v) /\ TaskOf(v) # t,
           \A i \in DOMAIN stream : Undelivered(i) => Task(i) # t
    PROVE  (SingleOwner /\ SentOnce)'
<1>1. /\ stream \in Seq(Message) /\ Len(stream) \in Nat /\ delivered \in Nat
      /\ delivered <= Len(stream)
  BY DEF OwnerInv, TypeOK
<1>. PICK m \in Nat : m = Len(stream) + 1
  BY <1>1
<1>2. /\ DOMAIN stream = 1..Len(stream) /\ DOMAIN stream' = 1..m
      /\ stream'[m] = [task |-> t, retry |-> n]
      /\ \A i \in DOMAIN stream : stream'[i] = stream[i]
  BY <1>1 DEF Message
<1>3. /\ Task(m)' = t
      /\ \A i \in DOMAIN stream : Task(i)' = Task(i) /\ (Undelivered(i)' <=> Undelivered(i))
  BY <1>1, <1>2 DEF Task, Undelivered
<1>4. \A i \in DOMAIN stream : Task(i) \in Tasks
  <2>1. \A i \in 1..Len(stream) : stream[i] \in Message
    BY <1>1
  <2> QED BY <1>2, <2>1 DEF Task, Message
<1>5. SentOnce'
  BY <1>2, <1>3, <1>4 DEF OwnerInv, SentOnce
<1>6. \A v \in Workers : Deciding(v)' => TaskOf(v)' = TaskOf(v) /\ TaskOf(v) # t /\ Deciding(v)
  <2>1. \A v \in Workers : Deciding(v) => msg[v] \in DOMAIN stream
    BY HandOK DEF OwnerInv, Deciding
  <2> QED BY <2>1, <1>3 DEF TaskOf, Task
<1>7. \A w, v \in Workers :
          w # v /\ Deciding(w)' /\ Deciding(v)' => TaskOf(w)' # TaskOf(v)'
  BY <1>6 DEF OwnerInv, SingleOwner
<1>8. \A w \in Workers, i \in 1..m :
          Deciding(w)' /\ Undelivered(i)' => TaskOf(w)' # Task(i)'
  BY <1>1, <1>2, <1>3, <1>6 DEF OwnerInv, SingleOwner
<1>9. \A i, j \in 1..m :
          i # j /\ Undelivered(i)' /\ Undelivered(j)' => Task(i)' # Task(j)'
  BY <1>1, <1>2, <1>3 DEF OwnerInv, SingleOwner
<1> QED BY <1>2, <1>5, <1>7, <1>8, <1>9 DEF SingleOwner

\* The reader of a message becomes the one owner of its task.
LEMMA ClaimReadOwner ==
    ASSUME OwnerInv, NEW w \in Workers, ClaimRead(w)
    PROVE  (SingleOwner /\ SentOnce)'
<1> DEFINE m == delivered + 1
<1>1. /\ stream' = stream /\ delivered' = m /\ msg'[w] = m
      /\ publisher' = publisher
      /\ \A v \in Workers : v # w => msg'[v] = msg[v] /\ pc'[v] = pc[v]
      /\ pc'[w] = "claim"
  BY DEF ClaimRead, Goto, OwnerInv, TypeOK, callerVars
<1>2. m \in DOMAIN stream /\ Undelivered(m) /\ delivered \in Nat
  BY DEF OwnerInv, TypeOK, Undelivered, ClaimRead
<1>3. \A i \in DOMAIN stream : Undelivered(i)' => Undelivered(i) /\ i # m
  BY <1>1, <1>2 DEF Undelivered, OwnerInv, TypeOK
<1>4. \A i : Task(i)' = Task(i)
  BY <1>1 DEF Task
<1>5. TaskOf(w)' = Task(m)
  BY <1>1 DEF TaskOf, Task
<1>6. \A v \in Workers : v # w => TaskOf(v)' = TaskOf(v) /\ (Deciding(v)' <=> Deciding(v))
  BY <1>1 DEF TaskOf, Task, Deciding
<1>7. SentOnce'
  BY <1>1 DEF SentOnce, OwnerInv, Task
<1>8. \A u, v \in Workers :
          u # v /\ Deciding(u)' /\ Deciding(v)' => TaskOf(u)' # TaskOf(v)'
  BY <1>2, <1>5, <1>6 DEF OwnerInv, SingleOwner
<1>9. \A v \in Workers, i \in DOMAIN stream :
          Deciding(v)' /\ Undelivered(i)' => TaskOf(v)' # Task(i)'
  BY <1>2, <1>3, <1>4, <1>5, <1>6 DEF OwnerInv, SingleOwner
<1>10. \A i, j \in DOMAIN stream :
          i # j /\ Undelivered(i)' /\ Undelivered(j)' => Task(i)' # Task(j)'
  BY <1>3, <1>4 DEF OwnerInv, SingleOwner
<1> QED BY <1>1, <1>7, <1>8, <1>9, <1>10 DEF SingleOwner
\* A task that is sent for the first time has no other owner.
LEMMA PublishSendOwner ==
    ASSUME OwnerInv, NEW t \in Tasks, PublishSend(t)
    PROVE  (SingleOwner /\ SentOnce)'
<1>1. \A i \in DOMAIN stream : Task(i) # t
  BY DEF PublishSend, OwnerInv, SentOnce
<1>2. \A v \in Workers : Deciding(v)' => Deciding(v) /\ TaskOf(v) # t
  <2>1. \A v \in Workers : Deciding(v)' => Deciding(v)
    BY DEF PublishSend, workerVars, Deciding
  <2>2. \A v \in Workers : Deciding(v) => msg[v] \in DOMAIN stream
    BY HandOK DEF OwnerInv, Deciding
  <2> QED BY <1>1, <2>1, <2>2 DEF TaskOf
<1>3. /\ publisher'[t] = "sent"
      /\ \A u \in Tasks : publisher[u] = "sent" => publisher'[u] = "sent"
  BY DEF PublishSend, OwnerInv, TypeOK
<1>4. /\ stream' = Append(stream, [task |-> t, retry |-> 0])
      /\ UNCHANGED <<delivered, msg>>
  BY DEF PublishSend, workerVars
<1> QED BY <1>1, <1>2, <1>3, <1>4, OwnerAppends

\* publish() and cancel() calls of the other kinds.
LEMMA CallerOwner ==
    ASSUME OwnerInv, NEW t \in Tasks,
           PublishState(t) \/ CancelMark(t) \/ CancelRelease(t)
           \/ PublisherDies(t) \/ CancellerDies(t)
    PROVE  (SingleOwner /\ SentOnce)'
<1>1. UNCHANGED <<stream, delivered, pc, msg>>
  BY DEF PublishState, CancelMark, CancelRelease, PublisherDies, CancellerDies,
         redisVars, workerVars
<1>2. \A u \in Tasks : publisher[u] = "sent" => publisher'[u] = "sent"
  BY DEF PublishState, CancelMark, CancelRelease, PublisherDies, CancellerDies,
         OwnerInv, TypeOK
<1>3. \A i \in DOMAIN stream : Task(i) \in Tasks
  <2>1. \A i \in 1..Len(stream) : stream[i] \in Message
    BY DEF OwnerInv, TypeOK
  <2>2. DOMAIN stream = 1..Len(stream)
    BY DEF OwnerInv, TypeOK
  <2> QED BY <2>1, <2>2 DEF Task, Message
<1>4. SentOnce'
  BY <1>1, <1>2, <1>3 DEF OwnerInv, SentOnce, Task
<1>5. SingleOwner'
  BY <1>1 DEF OwnerInv, SingleOwner, Deciding, Undelivered, TaskOf, Task
<1> QED BY <1>4, <1>5

\* A worker that goes from one step to another with the same message.
LEMMA GotoOwner ==
    ASSUME OwnerInv, NEW w \in Workers,
           NEW s \in Busy \ {"drop", "failRelease"}, NEW d \in Busy,
           Goto(w, s, d), UNCHANGED <<stream, delivered, publisher, msg>>
    PROVE  (SingleOwner /\ SentOnce)'
<1>1. \A v \in Workers : Deciding(v)' => Deciding(v)
  BY DEF Goto, Deciding, OwnerInv, TypeOK
<1> QED BY <1>1, OwnersShrink

\* A worker that is done with its message, or dies with it.
LEMMA LetGoOwner ==
    ASSUME OwnerInv, NEW w \in Workers, NEW d \in {"idle", "down"},
           pc' = [pc EXCEPT ![w] = d], msg' = [msg EXCEPT ![w] = 0],
           UNCHANGED <<stream, delivered, publisher>>
    PROVE  (SingleOwner /\ SentOnce)'
<1>1. \A v \in Workers : Deciding(v)' => Deciding(v) /\ msg'[v] = msg[v]
  BY DEF Deciding, OwnerInv, TypeOK, Busy, ClaimSteps, TrySteps, FailSteps
<1> QED BY <1>1, OwnersShrink

\* The steps of a claim keep the owner single.
LEMMA ClaimOwner ==
    ASSUME OwnerInv, NEW w \in Workers, Claim(w)
    PROVE  (SingleOwner /\ SentOnce)'
<1> USE DEF Busy, ClaimSteps, TrySteps, FailSteps, callerVars
<1>1. CASE ClaimRead(w)
  BY <1>1, ClaimReadOwner
<1>2. CASE ClaimExpired(w)
  BY <1>2, GotoOwner DEF ClaimExpired
<1>3. CASE ClaimDrop(w)
  BY <1>3, LetGoOwner DEF ClaimDrop, Finish, Goto
<1>4. CASE ClaimKey(w)
  BY <1>4, GotoOwner DEF ClaimKey
<1>5. CASE ClaimMark(w)
  BY <1>5, GotoOwner DEF ClaimMark
<1> QED BY <1>1, <1>2, <1>3, <1>4, <1>5 DEF Claim

\* The steps of the processing keep the owner single.
LEMMA ProcessOwner ==
    ASSUME OwnerInv, NEW w \in Workers, Process(w)
    PROVE  (SingleOwner /\ SentOnce)'
<1> USE DEF Busy, ClaimSteps, TrySteps, FailSteps, callerVars, redisVars
<1>1. CASE CheckCancelled(w)
  <2>1. PICK d \in {"ackCancelled", "prepare"} : Goto(w, "check", d)
    BY <1>1 DEF CheckCancelled
  <2> QED BY <1>1, <2>1, GotoOwner DEF CheckCancelled
<1>2. CASE AckCancelled(w)
  BY <1>2, LetGoOwner DEF AckCancelled, Finish, Goto
<1>3. CASE DeadlineExceeded(w)
  BY <1>3, GotoOwner DEF DeadlineExceeded
<1>4. CASE Prepare(w)
  <2>1. PICK d \in {"gate", "failRead"} : Goto(w, "prepare", d)
    BY <1>4 DEF Prepare
  <2> QED BY <1>4, <2>1, GotoOwner DEF Prepare
<1>5. CASE Gate(w)
  <2>1. PICK d \in {"failRead", "diagnose"} : Goto(w, "gate", d)
    BY <1>5 DEF Gate
  <2> QED BY <1>5, <2>1, GotoOwner DEF Gate
<1>6. CASE Diagnose(w)
  <2>1. PICK d \in {"complete", "failRead"} : Goto(w, "diagnose", d)
    BY <1>6 DEF Diagnose
  <2> QED BY <1>6, <2>1, GotoOwner DEF Diagnose
<1>7. CASE Complete(w)
  BY <1>7, GotoOwner DEF Complete
<1>8. CASE CompleteRelease(w)
  BY <1>8, GotoOwner DEF CompleteRelease
<1>9. CASE Ack(w)
  BY <1>9, GotoOwner DEF Ack
<1>10. CASE ForgetCheckpoint(w)
  BY <1>10, LetGoOwner DEF ForgetCheckpoint, Finish, Goto
<1> QED
  BY <1>1, <1>2, <1>3, <1>4, <1>5, <1>6, <1>7, <1>8, <1>9, <1>10 DEF Process

\* The steps of fail() keep the owner single.
LEMMA FailOwner ==
    ASSUME OwnerInv, NEW w \in Workers, Fail(w)
    PROVE  (SingleOwner /\ SentOnce)'
<1> USE DEF Busy, ClaimSteps, TrySteps, FailSteps, callerVars, redisVars
<1>1. CASE FailRead(w)
  BY <1>1, GotoOwner DEF FailRead
<1>2. CASE FailMark(w)
  BY <1>2, GotoOwner DEF FailMark
<1>3. CASE FailSend(w)
  <2>1. CASE ~MayRetry(w)
    BY <1>3, <2>1, GotoOwner DEF FailSend
  <2>2. CASE MayRetry(w)
    <3>1. PICK t \in Tasks : t = TaskOf(w)
      BY <1>3, HandOK DEF FailSend, Goto, OwnerInv
    <3>2. PICK n \in Nat : n = seen[w] + 1
      BY DEF OwnerInv, TypeOK
    <3>3. Deciding(w) /\ msg[w] \in DOMAIN stream
      BY <1>3, HandOK DEF FailSend, Goto, OwnerInv, Deciding
    <3>4. /\ stream' = Append(stream, [task |-> t, retry |-> n])
          /\ UNCHANGED <<delivered, msg, publisher>>
      BY <1>3, <2>2, <3>1, <3>2 DEF FailSend
    <3>5. \A v \in Workers : Deciding(v)' => v # w /\ Deciding(v)
      BY <1>3 DEF FailSend, Goto, Deciding, OwnerInv, TypeOK
    <3>6. \A v \in Workers : Deciding(v)' => Deciding(v) /\ TaskOf(v) # t
      BY <3>1, <3>3, <3>5 DEF OwnerInv, SingleOwner
    <3>7. \A i \in DOMAIN stream : Undelivered(i) => Task(i) # t
      BY <3>1, <3>3 DEF OwnerInv, SingleOwner
    <3>8. publisher'[t] = "sent"
      BY <3>1, <3>3, <3>4 DEF OwnerInv, SentOnce, TaskOf
    <3> QED BY <3>4, <3>6, <3>7, <3>8, OwnerAppends
  <2> QED BY <2>1, <2>2
<1>4. CASE FailRelease(w)
  BY <1>4, LetGoOwner DEF FailRelease, Finish, Goto
<1> QED BY <1>1, <1>2, <1>3, <1>4 DEF Fail

\* Crashes, restarts and Redis errors keep the owner single.
LEMMA FaultOwner ==
    ASSUME OwnerInv, NEW w \in Workers,
           \/ Crash(w) \/ Restart(w) \/ ErrorOutsideTry(w) \/ ErrorInTry(w)
           \/ \E s \in FailSteps \ {"failRelease"} : ErrorInNestedFail(w, s)
    PROVE  (SingleOwner /\ SentOnce)'
<1> USE DEF Busy, ClaimSteps, TrySteps, FailSteps, callerVars, redisVars
<1>1. CASE Crash(w)
  BY <1>1, LetGoOwner DEF Crash
<1>2. CASE Restart(w)
  <2>1. \A v \in Workers : Deciding(v)' => Deciding(v) /\ msg'[v] = msg[v]
    BY <1>2 DEF Restart, Goto, Deciding, OwnerInv, TypeOK
  <2> QED BY <1>2, <2>1, OwnersShrink DEF Restart
<1>3. CASE ErrorOutsideTry(w)
  <2>1. PICK s : Finish(w, s)
    BY <1>3 DEF ErrorOutsideTry
  <2> QED BY <1>3, <2>1, LetGoOwner DEF ErrorOutsideTry, Finish, Goto
<1>4. CASE ErrorInTry(w)
  <2>1. PICK s \in TrySteps : Goto(w, s, "failRead")
    BY <1>4 DEF ErrorInTry
  <2> QED BY <1>4, <2>1, GotoOwner DEF ErrorInTry
<1>5. CASE \E s \in FailSteps \ {"failRelease"} : ErrorInNestedFail(w, s)
  <2>1. PICK s \in FailSteps \ {"failRelease"} : ErrorInNestedFail(w, s)
    BY <1>5
  <2> QED BY <2>1, GotoOwner DEF ErrorInNestedFail
<1> QED BY <1>1, <1>2, <1>3, <1>4, <1>5

\* Every step keeps the owner single.
LEMMA StepOwnerInv == OwnerInv /\ [FaultStep]_vars => OwnerInv'
<1> SUFFICES ASSUME OwnerInv, [FaultStep]_vars PROVE OwnerInv'
  OBVIOUS
<1>1. TypeOK'
  BY StepTypeOK, FaultStepIsAnyStep DEF OwnerInv
<1>2. (SingleOwner /\ SentOnce)'
  <2>1. CASE UNCHANGED vars
    <3>1. UNCHANGED <<stream, delivered, publisher, pc, msg>>
      BY <2>1 DEF vars, redisVars, callerVars, workerVars
    <3>2. \A v \in Workers : Deciding(v)' => Deciding(v) /\ msg'[v] = msg[v]
      BY <3>1 DEF Deciding
    <3> QED BY <3>1, <3>2, OwnersShrink
  <2>2. CASE Normal
    BY <2>2, PublishSendOwner, CallerOwner, ClaimOwner, ProcessOwner, FailOwner
    DEF Normal, Caller, Work
  <2>3. CASE Crashes
    BY <2>3, CallerOwner, FaultOwner DEF Crashes
  <2>4. CASE Errors
    BY <2>4, FaultOwner DEF Errors
  <2> QED BY <2>1, <2>2, <2>3, <2>4 DEF FaultStep, Next
<1> QED BY <1>1, <1>2 DEF OwnerInv

\* Owners are single at the start.
LEMMA InitOwnerInv == Init => OwnerInv
<1> SUFFICES ASSUME Init PROVE OwnerInv
  OBVIOUS
<1>1. TypeOK
  BY InitTypeOK
<1>2. \A i : i \notin DOMAIN stream
  BY DEF Init
<1>3. \A w \in Workers : ~Deciding(w)
  BY DEF Init, Deciding, Busy, ClaimSteps, TrySteps, FailSteps
<1> QED BY <1>1, <1>2, <1>3 DEF OwnerInv, SingleOwner, SentOnce

\* For any number of tasks, workers and retries, whatever crashes and whichever
\* Redis command fails (but the release of a fail() nested in the try block),
\* no task is ever in two places: no two workers process it, and it is never
\* queued again while a worker is still deciding it.
THEOREM OwnerCorrect == FaultSpec => []SingleOwner
<1>1. Init => OwnerInv
  BY InitOwnerInv
<1>2. OwnerInv /\ [FaultStep]_vars => OwnerInv'
  BY StepOwnerInv
<1>3. OwnerInv => SingleOwner
  BY DEF OwnerInv
<1> QED BY <1>1, <1>2, <1>3, PTL DEF FaultSpec, FaultStep
-----------------------------------------------------------------------------
(* Attempts are counted.  fail() reads retry_count and stores it later; that *)
(* is safe because the task has one owner, so the count in hand is current.  *)

CountInHand(w) ==
    /\ pc[w] = "failMark" => seen[w] = retry[TaskOf(w)]
    /\ pc[w] = "failSend" /\ MayRetry(w) =>
          /\ retry[TaskOf(w)] = seen[w] + 1
          /\ \A i \in DOMAIN stream :
                Task(i) = TaskOf(w) => stream[i].retry <= seen[w]

CountInv ==
    /\ \A t \in Tasks : retry[t] <= MaxRetries
    /\ \A i \in DOMAIN stream : stream[i].retry <= retry[Task(i)]
    /\ \A w \in Workers : CountInHand(w)
    /\ AttemptsInOrder

\* Every message is of a task and carries a count.
LEMMA StreamOK ==
    ASSUME TypeOK
    PROVE  /\ DOMAIN stream = 1..Len(stream) /\ Len(stream) \in Nat
           /\ \A i \in DOMAIN stream : Task(i) \in Tasks /\ stream[i].retry \in Nat
<1>1. DOMAIN stream = 1..Len(stream) /\ Len(stream) \in Nat
  BY DEF TypeOK
<1>2. \A i \in 1..Len(stream) : stream[i] \in Message
  BY DEF TypeOK
<1> QED BY <1>1, <1>2 DEF Message, Task

\* Steps that neither count nor send.
LEMMA CountKeeps ==
    ASSUME TypeOK, CountInv, UNCHANGED <<stream, retry>>,
           \A v \in Workers : pc'[v] \in {"failMark", "failSend"}
               => pc[v] = pc'[v] /\ msg'[v] = msg[v] /\ seen'[v] = seen[v]
    PROVE  CountInv'
<1>1. stream' = stream /\ retry' = retry
  OBVIOUS
<1>2. AttemptsInOrder'
  BY <1>1 DEF CountInv, AttemptsInOrder, Task
<1>3. ASSUME NEW v \in Workers PROVE CountInHand(v)'
  BY <1>1, <1>3 DEF CountInv, CountInHand, MayRetry, TaskOf, Task
<1> QED BY <1>1, <1>2, <1>3 DEF CountInv, Task

\* A worker in the middle of fail() is not disturbed by steps about others.
LEMMA CountAppends ==
    ASSUME TypeOK, CountInv, NEW t \in Tasks, NEW n \in Nat,
           stream' = Append(stream, [task |-> t, retry |-> n]),
           retry' = retry, n <= retry[t],
           \A i \in DOMAIN stream : Task(i) = t => stream[i].retry < n,
           \A v \in Workers : pc'[v] \in {"failMark", "failSend"}
               => /\ pc[v] = pc'[v] /\ msg'[v] = msg[v] /\ seen'[v] = seen[v]
                  /\ TaskOf(v) # t
    PROVE  CountInv'
<1>1. stream \in Seq(Message) /\ Len(stream) \in Nat /\ DOMAIN stream = 1..Len(stream)
  BY DEF TypeOK
<1>. PICK m \in Nat : m = Len(stream) + 1
  BY <1>1
<1>2. /\ DOMAIN stream' = 1..m
      /\ stream'[m] = [task |-> t, retry |-> n]
      /\ \A i \in DOMAIN stream : stream'[i] = stream[i]
  BY <1>1 DEF Message
<1>3. /\ Task(m)' = t /\ stream'[m].retry = n
      /\ \A i \in DOMAIN stream : Task(i)' = Task(i) /\ stream'[i].retry = stream[i].retry
  BY <1>2 DEF Task
<1>4. \A i \in 1..m : i = m \/ i \in DOMAIN stream
  BY <1>1
<1>5. n <= MaxRetries
  BY ConstantsAssumption DEF CountInv, TypeOK
<1>6. AttemptsInOrder'
  <2>1. \A i \in 1..m : stream'[i].retry <= MaxRetries
    BY <1>3, <1>4, <1>5 DEF CountInv, AttemptsInOrder
  <2>2. \A i, j \in 1..m :
            i < j /\ Task(i)' = Task(j)' => stream'[i].retry < stream'[j].retry
    <3> SUFFICES ASSUME NEW i \in 1..m, NEW j \in 1..m, i < j, Task(i)' = Task(j)'
                 PROVE  stream'[i].retry < stream'[j].retry
      OBVIOUS
    <3>1. i \in DOMAIN stream
      BY <1>1
    <3>2. CASE j = m
      BY <1>3, <3>1, <3>2
    <3>3. CASE j \in DOMAIN stream
      BY <1>3, <3>1, <3>3 DEF CountInv, AttemptsInOrder
    <3> QED BY <1>4, <3>2, <3>3
  <2> QED BY <1>2, <2>1, <2>2 DEF AttemptsInOrder
<1>7. \A i \in DOMAIN stream' : stream'[i].retry <= retry'[Task(i)']
  BY <1>2, <1>3, <1>4 DEF CountInv
<1>8. ASSUME NEW v \in Workers PROVE CountInHand(v)'
  <2>1. CASE pc'[v] \in {"failMark", "failSend"}
    <3>1. pc[v] \in Busy /\ msg[v] \in DOMAIN stream
      BY <2>1, HandOK DEF Busy, FailSteps
    <3>2. TaskOf(v)' = TaskOf(v) /\ TaskOf(v) # t /\ (MayRetry(v)' <=> MayRetry(v))
      BY <1>3, <2>1, <3>1 DEF TaskOf, Task, MayRetry
    <3>3. CountInHand(v)
      BY DEF CountInv
    <3>4. pc'[v] = "failMark" => seen'[v] = retry'[TaskOf(v)']
      BY <2>1, <3>2, <3>3 DEF CountInHand
    <3>5. pc'[v] = "failSend" /\ MayRetry(v)' =>
            /\ retry'[TaskOf(v)'] = seen'[v] + 1
            /\ \A i \in 1..m : Task(i)' = TaskOf(v)' => stream'[i].retry <= seen'[v]
      BY <1>3, <1>4, <2>1, <3>2, <3>3 DEF CountInHand
    <3> QED BY <1>2, <3>4, <3>5 DEF CountInHand
  <2>2. CASE pc'[v] \notin {"failMark", "failSend"}
    BY <2>2 DEF CountInHand
  <2> QED BY <2>1, <2>2
<1>9. \A u \in Tasks : retry'[u] <= MaxRetries
  BY DEF CountInv
<1> QED BY <1>6, <1>7, <1>8, <1>9 DEF CountInv

\* Those who publish and cancel keep the counts in order.
LEMMA CallerCount ==
    ASSUME OwnerInv, CountInv, NEW t \in Tasks,
           PublishState(t) \/ PublishSend(t) \/ CancelMark(t) \/ CancelRelease(t)
           \/ PublisherDies(t) \/ CancellerDies(t)
    PROVE  CountInv'
<1>1. CASE PublishSend(t)
  <2>1. \A i \in DOMAIN stream : Task(i) # t
    BY <1>1 DEF PublishSend, OwnerInv, SentOnce
  <2>2. \A v \in Workers : pc[v] \in Busy => TaskOf(v) # t
    BY <2>1, HandOK DEF OwnerInv, TaskOf
  <2>3. 0 <= retry[t]
    BY DEF OwnerInv, TypeOK
  <2> QED
    BY <1>1, <2>1, <2>2, <2>3, CountAppends
    DEF PublishSend, workerVars, OwnerInv, Busy, FailSteps
<1>2. CASE ~PublishSend(t)
  BY <1>2, CountKeeps
  DEF PublishState, CancelMark, CancelRelease, PublisherDies, CancellerDies,
      redisVars, workerVars, OwnerInv
<1> QED BY <1>1, <1>2

\* A worker's step that is not one of fail()'s marking or sending.
LEMMA GotoCount ==
    ASSUME OwnerInv, CountInv, NEW w \in Workers, NEW d,
           d \notin {"failMark", "failSend"},
           pc' = [pc EXCEPT ![w] = d], UNCHANGED <<stream, retry>>,
           \A v \in Workers : v # w => msg'[v] = msg[v] /\ seen'[v] = seen[v]
    PROVE  CountInv'
<1>1. \A v \in Workers : pc'[v] \in {"failMark", "failSend"} => v # w /\ pc'[v] = pc[v]
  BY DEF OwnerInv, TypeOK
<1> QED BY <1>1, CountKeeps DEF OwnerInv

\* The steps of a claim keep the counts in order.
LEMMA ClaimCount ==
    ASSUME OwnerInv, CountInv, NEW w \in Workers, Claim(w)
    PROVE  CountInv'
<1>1. CASE ClaimRead(w)
  BY <1>1, GotoCount DEF ClaimRead, Goto, OwnerInv, TypeOK
<1>2. CASE ClaimExpired(w)
  BY <1>2, GotoCount DEF ClaimExpired, Goto
<1>3. CASE ClaimDrop(w)
  BY <1>3, GotoCount DEF ClaimDrop, Finish, Goto, OwnerInv, TypeOK
<1>4. CASE ClaimKey(w)
  BY <1>4, GotoCount DEF ClaimKey, Goto
<1>5. CASE ClaimMark(w)
  BY <1>5, GotoCount DEF ClaimMark, Goto
<1> QED BY <1>1, <1>2, <1>3, <1>4, <1>5 DEF Claim

\* The steps of the processing keep the counts in order.
LEMMA ProcessCount ==
    ASSUME OwnerInv, CountInv, NEW w \in Workers, Process(w)
    PROVE  CountInv'
<1>1. UNCHANGED <<stream, retry>>
  BY DEF Process, CheckCancelled, AckCancelled, DeadlineExceeded, Prepare, Gate,
         Diagnose, Complete, CompleteRelease, Ack, ForgetCheckpoint, redisVars
<1>2. \A v \in Workers : v # w => msg'[v] = msg[v] /\ seen'[v] = seen[v]
  BY DEF Process, CheckCancelled, AckCancelled, DeadlineExceeded, Prepare, Gate,
         Diagnose, Complete, CompleteRelease, Ack, ForgetCheckpoint, Finish,
         OwnerInv, TypeOK
<1>3. PICK d : d \notin {"failMark", "failSend"} /\ pc' = [pc EXCEPT ![w] = d]
  BY DEF Process, CheckCancelled, AckCancelled, DeadlineExceeded, Prepare, Gate,
         Diagnose, Complete, CompleteRelease, Ack, ForgetCheckpoint, Finish, Goto
<1> QED BY <1>1, <1>2, <1>3, GotoCount

\* Reading the stored count keeps the counts in order.
LEMMA FailReadCount ==
    ASSUME OwnerInv, CountInv, NEW w \in Workers, FailRead(w)
    PROVE  CountInv'
<1>1. /\ pc' = [pc EXCEPT ![w] = "failMark"] /\ seen' = [seen EXCEPT ![w] = retry[TaskOf(w)]]
      /\ UNCHANGED <<stream, retry, msg>>
  BY DEF FailRead, Goto, redisVars
<1>2. AttemptsInOrder'
  BY <1>1 DEF CountInv, AttemptsInOrder, Task
<1>3. ASSUME NEW v \in Workers PROVE CountInHand(v)'
  <2>1. TaskOf(v)' = TaskOf(v) /\ \A i : Task(i)' = Task(i)
    BY <1>1 DEF TaskOf, Task
  <2>2. CASE v = w
    <3>1. pc'[w] = "failMark" /\ seen'[w] = retry[TaskOf(w)]
      BY <1>1 DEF OwnerInv, TypeOK
    <3> QED BY <1>1, <2>1, <2>2, <3>1 DEF CountInHand
  <2>3. CASE v # w
    <3>1. pc'[v] = pc[v] /\ seen'[v] = seen[v]
      BY <1>1, <2>3 DEF OwnerInv, TypeOK
    <3> QED BY <1>1, <2>1, <3>1 DEF CountInHand, MayRetry, CountInv
  <2> QED BY <2>2, <2>3
<1> QED BY <1>1, <1>2, <1>3 DEF CountInv, Task

\* Storing the next count keeps the counts in order.
LEMMA FailMarkCount ==
    ASSUME OwnerInv, CountInv, NEW w \in Workers, FailMark(w)
    PROVE  CountInv'
<1>1. /\ pc[w] = "failMark" /\ pc' = [pc EXCEPT ![w] = "failSend"]
      /\ UNCHANGED <<stream, msg, seen>>
  BY DEF FailMark, Goto
<1>2. TaskOf(w) \in Tasks /\ Deciding(w) /\ seen[w] \in Nat /\ seen[w] = retry[TaskOf(w)]
  BY <1>1, HandOK DEF OwnerInv, TypeOK, Busy, FailSteps, Deciding, CountInv, CountInHand
<1>3. /\ MayRetry(w) => retry' = [retry EXCEPT ![TaskOf(w)] = seen[w] + 1]
      /\ ~MayRetry(w) => retry' = retry
  BY DEF FailMark
<1>4. \A t \in Tasks : retry[t] <= retry'[t] /\ retry'[t] <= MaxRetries /\ retry[t] \in Nat
                       /\ retry'[t] \in Nat
  <2>1. retry \in [Tasks -> Nat] /\ \A t \in Tasks : retry[t] <= MaxRetries
    BY DEF OwnerInv, TypeOK, CountInv
  <2>2. CASE MayRetry(w)
    <3>1. seen[w] + 1 <= MaxRetries
      BY <1>2, <2>2, ConstantsAssumption DEF MayRetry
    <3>2. PICK u \in Tasks : u = TaskOf(w)
      BY <1>2
    <3>3. retry' = [retry EXCEPT ![u] = seen[w] + 1] /\ retry[u] = seen[w]
      BY <1>2, <1>3, <2>2, <3>2
    <3> QED BY <1>2, <2>1, <3>1, <3>3
  <2>3. CASE ~MayRetry(w)
    BY <1>3, <2>1, <2>3
  <2> QED BY <2>2, <2>3
<1>5. \A i : Task(i)' = Task(i)
  BY <1>1 DEF Task
<1>6. \A i \in DOMAIN stream : stream[i].retry <= retry'[Task(i)]
  BY <1>4, StreamOK, ConstantsAssumption DEF CountInv, OwnerInv
<1>7. AttemptsInOrder'
  BY <1>1 DEF CountInv, AttemptsInOrder, Task
<1>8. ASSUME NEW v \in Workers PROVE CountInHand(v)'
  <2>1. TaskOf(v)' = TaskOf(v) /\ (MayRetry(v)' <=> MayRetry(v)) /\ seen'[v] = seen[v]
    BY <1>1 DEF TaskOf, Task, MayRetry
  <2>2. CASE v = w
    <3>1. pc'[w] = "failSend"
      BY <1>1 DEF OwnerInv, TypeOK
    <3>2. MayRetry(w) => retry'[TaskOf(w)] = seen[w] + 1
      BY <1>2, <1>3 DEF OwnerInv, TypeOK
    <3>3. \A i \in DOMAIN stream : Task(i) = TaskOf(w) => stream[i].retry <= seen[w]
      BY <1>2 DEF CountInv
    <3> QED BY <1>1, <1>5, <2>1, <2>2, <3>1, <3>2, <3>3 DEF CountInHand
  <2>3. CASE v # w
    <3>1. pc'[v] = pc[v]
      BY <1>1, <2>3 DEF OwnerInv, TypeOK
    <3>2. CASE Deciding(v)
      <4>1. TaskOf(v) # TaskOf(w) /\ TaskOf(v) \in Tasks
        BY <1>2, <2>3, <3>2, HandOK DEF OwnerInv, SingleOwner, Deciding
      <4>2. retry'[TaskOf(v)] = retry[TaskOf(v)]
        BY <1>2, <1>3, <4>1 DEF OwnerInv, TypeOK
      <4>3. CountInHand(v)
        BY DEF CountInv
      <4> QED BY <1>1, <1>5, <2>1, <3>1, <4>2, <4>3 DEF CountInHand
    <3>3. CASE ~Deciding(v)
      BY <3>1, <3>3 DEF CountInHand, Deciding, Busy, FailSteps
    <3> QED BY <3>2, <3>3
  <2> QED BY <2>2, <2>3
<1> QED BY <1>1, <1>4, <1>5, <1>6, <1>7, <1>8 DEF CountInv

\* Sending the retry keeps the counts in order.
LEMMA FailSendCount ==
    ASSUME OwnerInv, CountInv, NEW w \in Workers, FailSend(w)
    PROVE  CountInv'
<1>1. CASE ~MayRetry(w)
  BY <1>1, GotoCount DEF FailSend, Goto
<1>2. CASE MayRetry(w)
  <2>1. /\ pc[w] = "failSend" /\ pc' = [pc EXCEPT ![w] = "failRelease"]
        /\ UNCHANGED <<retry, msg, seen>>
    BY <1>2 DEF FailSend, Goto
  <2>2. PICK t \in Tasks : t = TaskOf(w)
    BY <2>1, HandOK DEF OwnerInv, Busy, FailSteps
  <2>3. PICK n \in Nat : n = seen[w] + 1
    BY DEF OwnerInv, TypeOK
  <2>4. stream' = Append(stream, [task |-> t, retry |-> n])
    BY <1>2, <2>2, <2>3 DEF FailSend
  <2>5. /\ n <= retry[t]
        /\ \A i \in DOMAIN stream : Task(i) = t => stream[i].retry < n
    <3>1. CountInHand(w) /\ seen[w] \in Nat
      BY DEF CountInv, OwnerInv, TypeOK
    <3>2. retry[t] = n /\ \A i \in DOMAIN stream : Task(i) = t => stream[i].retry <= seen[w]
      BY <1>2, <2>1, <2>2, <2>3, <3>1 DEF CountInHand
    <3>3. \A i \in DOMAIN stream : stream[i].retry \in Nat
      BY StreamOK DEF OwnerInv
    <3> QED BY <2>3, <3>1, <3>2, <3>3
  <2>6. \A v \in Workers : pc'[v] \in {"failMark", "failSend"} => pc[v] = pc'[v] /\ TaskOf(v) # t
    <3>1. \A v \in Workers : pc'[v] \in {"failMark", "failSend"} => v # w /\ pc[v] = pc'[v]
      BY <2>1 DEF OwnerInv, TypeOK
    <3> QED BY <2>1, <2>2, <3>1 DEF OwnerInv, SingleOwner, Deciding, Busy, FailSteps
  <2> QED BY <2>1, <2>4, <2>5, <2>6, CountAppends DEF OwnerInv
<1> QED BY <1>1, <1>2

\* Crashes, restarts and Redis errors keep the counts in order.
LEMMA FaultCount ==
    ASSUME OwnerInv, CountInv, NEW w \in Workers,
           \/ Crash(w) \/ Restart(w) \/ ErrorOutsideTry(w) \/ ErrorInTry(w)
           \/ \E s \in FailSteps \ {"failRelease"} : ErrorInNestedFail(w, s)
    PROVE  CountInv'
<1>1. UNCHANGED <<stream, retry>>
  BY DEF Crash, Restart, ErrorOutsideTry, ErrorInTry, ErrorInNestedFail, redisVars
<1>2. \A v \in Workers : v # w => msg'[v] = msg[v] /\ seen'[v] = seen[v]
  BY DEF Crash, Restart, ErrorOutsideTry, ErrorInTry, ErrorInNestedFail, Finish,
         OwnerInv, TypeOK
<1>3. PICK d : d \notin {"failMark", "failSend"} /\ pc' = [pc EXCEPT ![w] = d]
  BY DEF Crash, Restart, ErrorOutsideTry, ErrorInTry, ErrorInNestedFail, Finish, Goto
<1> QED BY <1>1, <1>2, <1>3, GotoCount

\* Every step keeps the counts in order.
LEMMA StepCountInv == OwnerInv /\ CountInv /\ [FaultStep]_vars => CountInv'
<1> SUFFICES ASSUME OwnerInv, CountInv, [FaultStep]_vars PROVE CountInv'
  OBVIOUS
<1>1. CASE UNCHANGED vars
  BY <1>1, CountKeeps DEF vars, redisVars, workerVars, OwnerInv
<1>2. ASSUME NEW w \in Workers, Fail(w) PROVE CountInv'
  <2>1. CASE FailRelease(w)
    BY <2>1, GotoCount DEF FailRelease, Finish, Goto, OwnerInv, TypeOK
  <2> QED BY <1>2, <2>1, FailReadCount, FailMarkCount, FailSendCount DEF Fail
<1>3. CASE Normal
  BY <1>2, <1>3, CallerCount, ClaimCount, ProcessCount DEF Normal, Caller, Work
<1>4. CASE Crashes
  BY <1>4, CallerCount, FaultCount DEF Crashes
<1>5. CASE Errors
  BY <1>5, FaultCount DEF Errors
<1> QED BY <1>1, <1>3, <1>4, <1>5 DEF FaultStep, Next

\* The messages of a task carry strictly increasing retry counts that never
\* exceed the budget, however fail() calls of different workers interleave.
THEOREM AttemptsCorrect == FaultSpec => []AttemptsInOrder
<1>1. Init => OwnerInv /\ CountInv
  <2>1. Init => CountInv
    BY ConstantsAssumption DEF Init, CountInv, CountInHand, AttemptsInOrder
  <2> QED BY <2>1, InitOwnerInv
<1>2. OwnerInv /\ CountInv /\ [FaultStep]_vars => (OwnerInv /\ CountInv)'
  BY StepOwnerInv, StepCountInv
<1>3. CountInv => AttemptsInOrder
  BY DEF CountInv
<1> QED BY <1>1, <1>2, <1>3, PTL DEF FaultSpec, FaultStep
-----------------------------------------------------------------------------
(* The claim key.  Two workers never compete for it: they would need two    *)
(* live messages of one task.                                               *)

PastClaim(w) == Deciding(w) /\ pc[w] # "claim"

\* Steps that write no claim, but may release one.
LEMMA ClaimKeeps ==
    ASSUME OwnerInv, ClaimNamesHolder,
           \A t \in Tasks : claim'[t] \in {claim[t], NoWorker},
           \A i \in DOMAIN stream : stream'[i] = stream[i],
           \A v \in Workers : PastClaim(v)' => PastClaim(v) /\ msg'[v] = msg[v]
    PROVE  ClaimNamesHolder'
<1>1. \A v \in Workers : PastClaim(v) => msg[v] \in DOMAIN stream /\ TaskOf(v) \in Tasks
  BY HandOK DEF OwnerInv, PastClaim, Deciding
<1>2. \A v \in Workers : PastClaim(v)' => TaskOf(v)' = TaskOf(v)
  BY <1>1 DEF TaskOf, Task
<1> QED BY <1>1, <1>2 DEF ClaimNamesHolder, PastClaim

\* The worker that sets the claim key is the only one with the task.
LEMMA ClaimKeyHolder ==
    ASSUME OwnerInv, ClaimNamesHolder, NEW w \in Workers, ClaimKey(w)
    PROVE  ClaimNamesHolder'
<1>1. /\ pc[w] = "claim" /\ UNCHANGED <<stream, msg>>
      /\ claim' = [claim EXCEPT ![TaskOf(w)] = w]
      /\ \A v \in Workers : v # w => pc'[v] = pc[v]
  BY DEF ClaimKey, Goto, OwnerInv, TypeOK
<1>2. Deciding(w) /\ TaskOf(w) \in Tasks
  BY <1>1, HandOK DEF OwnerInv, Deciding, Busy, ClaimSteps
<1>3. \A v : TaskOf(v)' = TaskOf(v)
  BY <1>1 DEF TaskOf, Task
<1>4. ASSUME NEW v \in Workers, PastClaim(v)' PROVE claim'[TaskOf(v)'] \in {v, NoWorker}
  <2>1. CASE v = w
    BY <1>1, <1>2, <1>3, <2>1 DEF OwnerInv, TypeOK
  <2>2. CASE v # w
    <3>1. PastClaim(v)
      BY <1>1, <1>4, <2>2 DEF PastClaim, Deciding
    <3>2. TaskOf(v) # TaskOf(w) /\ TaskOf(v) \in Tasks
      BY <1>2, <2>2, <3>1, HandOK DEF OwnerInv, SingleOwner, PastClaim, Deciding
    <3>3. claim'[TaskOf(v)] = claim[TaskOf(v)]
      BY <1>1, <3>2 DEF OwnerInv, TypeOK
    <3> QED BY <1>3, <3>1, <3>3 DEF ClaimNamesHolder, PastClaim
  <2> QED BY <2>1, <2>2
<1> QED BY <1>4 DEF ClaimNamesHolder, PastClaim

\* A worker that moves on past its claim, lets go of its message, or reads one.
LEMMA WorkerKeepsClaims ==
    ASSUME OwnerInv, ClaimNamesHolder, NEW w \in Workers, NEW d,
           pc' = [pc EXCEPT ![w] = d],
           d \in {"claim", "drop", "failRelease", "idle", "down"}
              \/ (PastClaim(w) /\ msg'[w] = msg[w]),
           \A v \in Workers : v # w => msg'[v] = msg[v],
           \A t \in Tasks : claim'[t] \in {claim[t], NoWorker},
           \A i \in DOMAIN stream : stream'[i] = stream[i]
    PROVE  ClaimNamesHolder'
<1>1. \A v \in Workers : PastClaim(v)' => PastClaim(v) /\ msg'[v] = msg[v]
  BY DEF OwnerInv, TypeOK, PastClaim, Deciding, Busy, ClaimSteps, TrySteps, FailSteps
<1> QED BY <1>1, ClaimKeeps

\* Those who publish and cancel keep the names in the claim keys.
LEMMA CallerKeepsClaims ==
    ASSUME OwnerInv, ClaimNamesHolder, NEW t \in Tasks,
           PublishState(t) \/ PublishSend(t) \/ CancelMark(t) \/ CancelRelease(t)
           \/ PublisherDies(t) \/ CancellerDies(t)
    PROVE  ClaimNamesHolder'
<1>1. UNCHANGED <<pc, msg>>
  BY DEF PublishState, PublishSend, CancelMark, CancelRelease, PublisherDies,
         CancellerDies, redisVars, workerVars
<1>2. \A u \in Tasks : claim'[u] \in {claim[u], NoWorker}
  BY DEF PublishState, PublishSend, CancelMark, CancelRelease, PublisherDies,
         CancellerDies, redisVars, OwnerInv, TypeOK
<1>3. \A i \in DOMAIN stream : stream'[i] = stream[i]
  <2>1. CASE PublishSend(t)
    BY <2>1 DEF PublishSend, OwnerInv, TypeOK, Message
  <2>2. CASE ~PublishSend(t)
    BY <2>2 DEF PublishState, CancelMark, CancelRelease, PublisherDies, CancellerDies,
                redisVars
  <2> QED BY <2>1, <2>2
<1> QED BY <1>1, <1>2, <1>3, ClaimKeeps DEF PastClaim, Deciding

\* The steps of a worker keep the names in the claim keys.
LEMMA WorkKeepsClaims ==
    ASSUME OwnerInv, ClaimNamesHolder, NEW w \in Workers, Work(w)
    PROVE  ClaimNamesHolder'
<1>1. CASE ClaimKey(w)
  BY <1>1, ClaimKeyHolder
<1>2. CASE ~ClaimKey(w)
  <2> USE DEF Work, Claim, ClaimRead, ClaimExpired, ClaimDrop, ClaimMark,
              Process, CheckCancelled, AckCancelled, DeadlineExceeded, Prepare, Gate,
              Diagnose, Complete, CompleteRelease, Ack, ForgetCheckpoint,
              Fail, FailRead, FailMark, FailSend, FailRelease, redisVars
  <2>1. \A t \in Tasks : claim'[t] \in {claim[t], NoWorker}
    BY <1>2 DEF OwnerInv, TypeOK
  <2>2. \A i \in DOMAIN stream : stream'[i] = stream[i]
    <3>1. CASE FailSend(w) /\ MayRetry(w)
      <4>1. PICK t \in Tasks : t = TaskOf(w)
        BY <3>1, HandOK DEF Goto, OwnerInv, Busy, FailSteps
      <4>2. PICK n \in Nat : n = seen[w] + 1
        BY DEF OwnerInv, TypeOK
      <4>3. stream' = Append(stream, [task |-> t, retry |-> n]) /\ stream \in Seq(Message)
        BY <3>1, <4>1, <4>2 DEF OwnerInv, TypeOK
      <4>4. [task |-> t, retry |-> n] \in Message
        BY DEF Message
      <4> QED BY <4>3, <4>4
    <3>2. CASE ~(FailSend(w) /\ MayRetry(w))
      BY <1>2, <3>2
    <3> QED BY <3>1, <3>2
  <2>3. \A v \in Workers : v # w => msg'[v] = msg[v]
    BY <1>2 DEF Finish, OwnerInv, TypeOK
  <2>4. PICK d : /\ pc' = [pc EXCEPT ![w] = d]
                 /\ \/ d \in {"claim", "drop", "failRelease", "idle", "down"}
                    \/ PastClaim(w) /\ msg'[w] = msg[w]
    BY <1>2 DEF Finish, Goto, PastClaim, Deciding, Busy, ClaimSteps, TrySteps, FailSteps
  <2> HIDE DEF Work, Claim, Process, Fail
  <2> QED BY <2>1, <2>2, <2>3, <2>4, WorkerKeepsClaims
<1> QED BY <1>1, <1>2

\* Crashes, restarts and Redis errors keep the names in the claim keys.
LEMMA FaultKeepsClaims ==
    ASSUME OwnerInv, ClaimNamesHolder, NEW w \in Workers,
           \/ Crash(w) \/ Restart(w) \/ ErrorOutsideTry(w) \/ ErrorInTry(w)
           \/ \E s \in FailSteps \ {"failRelease"} : ErrorInNestedFail(w, s)
    PROVE  ClaimNamesHolder'
<1> USE DEF Crash, Restart, ErrorOutsideTry, ErrorInTry, ErrorInNestedFail, redisVars
<1>1. UNCHANGED <<stream, claim>>
  OBVIOUS
<1>2. \A v \in Workers : v # w => msg'[v] = msg[v]
  BY DEF Finish, OwnerInv, TypeOK
<1>3. PICK d : /\ pc' = [pc EXCEPT ![w] = d]
               /\ \/ d \in {"claim", "drop", "failRelease", "idle", "down"}
                  \/ PastClaim(w) /\ msg'[w] = msg[w]
  BY DEF Finish, Goto, PastClaim, Deciding, Busy, ClaimSteps, TrySteps, FailSteps
<1> QED BY <1>1, <1>2, <1>3, WorkerKeepsClaims

\* Every step keeps the names in the claim keys.
LEMMA StepClaimInv == OwnerInv /\ ClaimNamesHolder /\ [FaultStep]_vars => ClaimNamesHolder'
<1> SUFFICES ASSUME OwnerInv, ClaimNamesHolder, [FaultStep]_vars PROVE ClaimNamesHolder'
  OBVIOUS
<1>1. CASE UNCHANGED vars
  BY <1>1, ClaimKeeps DEF vars, redisVars, workerVars, PastClaim, Deciding
<1>2. CASE Normal
  BY <1>2, CallerKeepsClaims, WorkKeepsClaims DEF Normal, Caller
<1>3. CASE Crashes
  BY <1>3, CallerKeepsClaims, FaultKeepsClaims DEF Crashes
<1>4. CASE Errors
  BY <1>4, FaultKeepsClaims DEF Errors
<1> QED BY <1>1, <1>2, <1>3, <1>4 DEF FaultStep, Next

\* For any number of workers, whatever crashes and whichever Redis command fails
\* (but that release), a worker never works on a task under the claim of another:
\* claim() overwrites the key unconditionally, and is right to.
THEOREM ClaimCorrect == FaultSpec => []ClaimNamesHolder
<1>1. Init => OwnerInv /\ ClaimNamesHolder
  <2>1. Init => ClaimNamesHolder
    BY DEF Init, ClaimNamesHolder, Deciding, Busy, ClaimSteps, TrySteps, FailSteps
  <2> QED BY <2>1, InitOwnerInv
<1>2. OwnerInv /\ ClaimNamesHolder /\ [FaultStep]_vars => (OwnerInv /\ ClaimNamesHolder)'
  BY StepOwnerInv, StepClaimInv
<1> QED BY <1>1, <1>2, PTL DEF FaultSpec, FaultStep

-----------------------------------------------------------------------------
(* The life of a task: the refinement of TaskLifecycle.                    *)

\* Sending a message puts it at the end of those that wait.
LEMMA Enqueued ==
    ASSUME NEW S, NEW s \in Seq(S), NEW d \in 0..Len(s), NEW e \in S
    PROVE  SubSeq(Append(s, e), d + 1, Len(Append(s, e))) = Append(SubSeq(s, d + 1, Len(s)), e)
<1> DEFINE a == SubSeq(Append(s, e), d + 1, Len(Append(s, e)))
           c == SubSeq(s, d + 1, Len(s))
           b == Append(c, e)
<1>1. /\ Append(s, e) \in Seq(S) /\ Len(Append(s, e)) = Len(s) + 1
      /\ Append(s, e)[Len(s) + 1] = e
      /\ \A i \in 1..Len(s) : Append(s, e)[i] = s[i]
  BY AppendProperties
<1>2. /\ a \in Seq(S) /\ Len(a) = Len(s) + 1 - d
      /\ \A i \in 1..Len(s) + 1 - d : a[i] = Append(s, e)[d + i]
  BY <1>1, SubSeqProperties
<1>3. /\ c \in Seq(S) /\ Len(c) = Len(s) - d
      /\ \A i \in 1..Len(s) - d : c[i] = s[d + i]
  BY SubSeqProperties
<1>4. /\ b \in Seq(S) /\ Len(b) = Len(s) + 1 - d
      /\ b[Len(s) + 1 - d] = e
      /\ \A i \in 1..Len(s) - d : b[i] = c[i]
  <2> HIDE DEF c
  <2>1. Len(c) + 1 = Len(s) + 1 - d
    BY <1>3
  <2> QED BY <1>3, <2>1, AppendProperties
<1>5. ASSUME NEW i \in 1..Len(a) PROVE a[i] = b[i]
  <2>0. Len(s) \in Nat
    OBVIOUS
  <2> HIDE DEF a, b, c
  <2>1. CASE i = Len(s) + 1 - d
    BY <1>1, <1>2, <1>4, <2>0, <2>1
  <2>2. CASE i \in 1..Len(s) - d
    <3>1. a[i] = Append(s, e)[d + i] /\ d + i \in 1..Len(s)
      BY <1>2, <2>0, <2>2
    <3>2. a[i] = s[d + i]
      BY <1>1, <3>1
    <3>3. b[i] = s[d + i]
      BY <1>3, <1>4, <2>2
    <3> QED BY <3>2, <3>3
  <2>3. i \in 1..Len(s) + 1 - d
    BY <1>2
  <2>4. i = Len(s) + 1 - d \/ i \in 1..Len(s) - d
    BY <2>0, <2>3
  <2> QED BY <2>1, <2>2, <2>4
<1>6. a = b
  <2> HIDE DEF a, b
  <2> QED BY <1>2, <1>4, <1>5, SeqEqual
<1> QED BY <1>6

\* Reading a message takes the first of those that wait.
LEMMA Dequeued ==
    ASSUME NEW S, NEW s \in Seq(S), NEW d \in 0..Len(s) - 1
    PROVE  /\ SubSeq(s, d + 1, Len(s)) # <<>>
           /\ Head(SubSeq(s, d + 1, Len(s))) = s[d + 1]
           /\ SubSeq(s, d + 1 + 1, Len(s)) = Tail(SubSeq(s, d + 1, Len(s)))
<1>1. d + 1 \in 1..Len(s) /\ Len(s) \in d + 1..Len(s)
  OBVIOUS
<1>2. SubSeq(s, d + 1, Len(s)) # <<>>
  <2> DEFINE q == SubSeq(s, d + 1, Len(s))
  <2>1. Len(q) = Len(s) - d
    BY SubSeqProperties
  <2> HIDE DEF q
  <2>2. Len(q) # 0
    BY <1>1, <2>1
  <2>3. q # <<>>
    BY <2>2
  <2> QED BY <2>3 DEF q
<1> QED BY <1>1, <1>2, HeadTailOfSubSeq
-----------------------------------------------------------------------------
(* The steps of the queue as steps of TaskLifecycle.                       *)

\* A task's fate is read from who may act on it and, once nobody may, from the
\* dead letters and the acknowledgements.
LEMMA FateSame ==
    ASSUME NEW t \in Tasks,
           publisher'[t] = "sent" <=> publisher[t] = "sent",
           Quiet(t)' <=> Quiet(t),
           Quiet(t) => (DeadLettered(t)' <=> DeadLettered(t)),
           Quiet(t) => DeadLettered(t) \/ (LastIsAcked(t)' <=> LastIsAcked(t))
    PROVE  Fate(t)' = Fate(t)
BY DEF Fate

Stutter ==
    /\ Waiting' = Waiting
    /\ Held' = Held
    /\ \A t \in Tasks : Fate(t)' = Fate(t)

\* Most commands change nothing that TaskLifecycle tells apart.
LEMMA CommandStutters ==
    ASSUME OwnerInv, UNCHANGED <<stream, delivered, dlq>>,
           \A t \in Tasks : publisher'[t] = "sent" <=> publisher[t] = "sent",
           \A v \in Workers : Deciding(v)' <=> Deciding(v),
           \A v \in Workers : Deciding(v) => msg'[v] = msg[v],
           \A t \in Tasks : Quiet(t) => DeadLettered(t) \/ (LastIsAcked(t)' <=> LastIsAcked(t))
    PROVE  Stutter
<1>1. Waiting' = Waiting
  BY DEF Waiting
<1>2. Held' = Held
  BY DEF Held
<1>3. \A i : Task(i)' = Task(i) /\ (Undelivered(i)' <=> Undelivered(i))
  BY DEF Task, Undelivered
<1>4. \A v \in Workers : Deciding(v) => TaskOf(v)' = TaskOf(v)
  BY DEF TaskOf, Task
<1>5. ASSUME NEW t \in Tasks PROVE Fate(t)' = Fate(t)
  <2>1. stream' = stream /\ dlq' = dlq
    OBVIOUS
  <2>2. Quiet(t)' <=> Quiet(t)
    BY <1>3, <1>4, <2>1 DEF Quiet
  <2>3. DeadLettered(t)' <=> DeadLettered(t)
    BY <1>3, <2>1 DEF DeadLettered
  <2> QED BY <2>2, <2>3, FateSame
<1> QED BY <1>1, <1>2, <1>5 DEF Stutter

\* When a worker stops deciding without sending a retry, nobody is left to act
\* on its task.
LEMMA LetGoQuiets ==
    ASSUME OwnerInv, NEW w \in Workers, Deciding(w), ~Deciding(w)',
           UNCHANGED <<stream, delivered, publisher>>,
           \A v \in Workers : v # w => (Deciding(v)' <=> Deciding(v)) /\ msg'[v] = msg[v],
           NEW t \in Tasks, t = TaskOf(w)
    PROVE  Quiet(t)'
<1>1. publisher[t] = "sent"
  BY HandOK DEF OwnerInv, SentOnce, TaskOf, Deciding
<1>2. \A i : Task(i)' = Task(i) /\ (Undelivered(i)' <=> Undelivered(i))
  BY DEF Task, Undelivered
<1>3. \A v \in Workers : Deciding(v)' => v # w /\ Deciding(v) /\ TaskOf(v)' = TaskOf(v)
  BY DEF TaskOf, Task
<1>4. stream' = stream /\ publisher' = publisher
  OBVIOUS
<1> QED BY <1>1, <1>2, <1>3, <1>4 DEF OwnerInv, SingleOwner, Quiet

\* A worker that stops deciding without sending a retry closes its task, and
\* touches no other.
LEMMA LetGoCloses ==
    ASSUME OwnerInv, NEW w \in Workers, Deciding(w), ~Deciding(w)',
           UNCHANGED <<stream, delivered, publisher>>,
           \A v \in Workers : v # w => (Deciding(v)' <=> Deciding(v)) /\ msg'[v] = msg[v],
           dlq' = dlq \/ dlq' = Append(dlq, msg[w]),
           acked' = acked \/ acked' = acked \cup {msg[w]}
    PROVE  Lifecycle!Next
<1>. DEFINE h == [worker |-> w, message |-> stream[msg[w]]]
<1>1. PICK t \in Tasks : t = TaskOf(w)
  BY HandOK DEF OwnerInv, Deciding
<1>2. msg[w] \in DOMAIN stream /\ h.message.task = t /\ h \in Held
  BY <1>1, HandOK DEF OwnerInv, Deciding, Held, TaskOf, Task
<1>3. publisher[t] = "sent"
  BY <1>1, <1>2 DEF OwnerInv, SentOnce, TaskOf
<1>4. \A i : Task(i)' = Task(i) /\ (Undelivered(i)' <=> Undelivered(i))
  BY DEF Task, Undelivered
<1>5. \A v \in Workers : Deciding(v)' => v # w /\ Deciding(v) /\ TaskOf(v)' = TaskOf(v)
  BY DEF TaskOf, Task
<1>6. \A v \in Workers : Deciding(v) => v = w \/ (Deciding(v)' /\ TaskOf(v)' = TaskOf(v))
  BY DEF TaskOf, Task
<1>7. stream' = stream /\ publisher' = publisher
  OBVIOUS
<1>8. Fate(t)' \in {"acked", "dead", "lost"}
  <2>1. Quiet(t)'
    BY <1>1, LetGoQuiets
  <2> QED BY <1>3, <1>7, <2>1 DEF Fate
<1>9. ASSUME NEW u \in Tasks, u # t PROVE Fate(u)' = Fate(u)
  <2>1. Quiet(u)' <=> Quiet(u)
    BY <1>1, <1>4, <1>5, <1>6, <1>7, <1>9 DEF Quiet
  <2>2. Task(msg[w]) # u
    BY <1>1, <1>9 DEF TaskOf
  <2>3. DeadLettered(u)' <=> DeadLettered(u)
    <3>1. CASE dlq' = dlq
      BY <1>4, <3>1 DEF DeadLettered
    <3>2. CASE dlq' = Append(dlq, msg[w])
      <4>1. dlq \in Seq(Nat) /\ DOMAIN dlq = 1..Len(dlq) /\ Len(dlq) \in Nat
        BY DEF OwnerInv, TypeOK
      <4>2. /\ DOMAIN dlq' = 1..Len(dlq) + 1 /\ dlq'[Len(dlq) + 1] = msg[w]
            /\ \A k \in 1..Len(dlq) : dlq'[k] = dlq[k]
        BY <3>2, <4>1
      <4>3. \A k \in DOMAIN dlq' : k = Len(dlq) + 1 \/ k \in DOMAIN dlq
        BY <4>1, <4>2
      <4>4. DOMAIN dlq \subseteq DOMAIN dlq'
        BY <4>1, <4>2
      <4> QED BY <1>4, <2>2, <4>1, <4>2, <4>3, <4>4 DEF DeadLettered
    <3> QED BY <3>1, <3>2
  <2>4. LastIsAcked(u)' <=> LastIsAcked(u)
    BY <1>4, <1>7, <2>2 DEF LastIsAcked
  <2> QED BY <1>7, <2>1, <2>3, <2>4, FateSame
<1>10. Waiting' = Waiting
  BY DEF Waiting
<1>11. Held' = Held \ {h}
  BY <1>5, <1>6 DEF Held
<1>12. Lifecycle!Close(h)
  BY <1>2, <1>8, <1>9, <1>10, <1>11 DEF Lifecycle!Close
<1> QED BY <1>2, <1>12 DEF Lifecycle!Next

\* A fresh message reopens its task, or opens it, and touches no other.
LEMMA SendOpens ==
    ASSUME OwnerInv, NEW t \in Tasks, NEW n \in Nat,
           stream' = Append(stream, [task |-> t, retry |-> n]),
           UNCHANGED <<delivered, acked, dlq>>,
           publisher'[t] = "sent",
           \A u \in Tasks : u # t => publisher'[u] = publisher[u],
           \A v \in Workers : Deciding(v)' => Deciding(v) /\ msg'[v] = msg[v],
           \A v \in Workers : Deciding(v) /\ ~Deciding(v)' => TaskOf(v) = t
    PROVE  /\ Waiting' = Append(Waiting, [task |-> t, retry |-> n])
           /\ Fate(t)' = "open"
           /\ \A u \in Tasks : u # t => Fate(u)' = Fate(u)
           /\ \A v \in Workers : Deciding(v)' => stream'[msg'[v]] = stream[msg[v]]
<1>1. /\ stream \in Seq(Message) /\ Len(stream) \in Nat /\ delivered \in 0..Len(stream)
      /\ DOMAIN stream = 1..Len(stream) /\ [task |-> t, retry |-> n] \in Message
  BY DEF OwnerInv, TypeOK, Message
<1>. PICK m \in Nat : m = Len(stream) + 1
  BY <1>1
<1>2. /\ DOMAIN stream' = 1..m /\ m \notin DOMAIN stream /\ m > delivered
      /\ stream'[m] = [task |-> t, retry |-> n]
      /\ \A i \in 1..m : i = m \/ i \in DOMAIN stream
      /\ \A i \in DOMAIN stream : i \in 1..m /\ i < m /\ stream'[i] = stream[i]
  BY <1>1
<1>3. /\ Task(m)' = t /\ Undelivered(m)'
      /\ \A i \in DOMAIN stream : Task(i)' = Task(i) /\ (Undelivered(i)' <=> Undelivered(i))
  BY <1>2 DEF Task, Undelivered
<1>4. Waiting' = Append(Waiting, [task |-> t, retry |-> n])
  BY <1>1, Enqueued DEF Waiting
<1>5. \A v \in Workers : Deciding(v) => msg[v] \in DOMAIN stream
  BY HandOK DEF OwnerInv, Deciding
<1>6. \A v \in Workers : Deciding(v)' =>
            stream'[msg'[v]] = stream[msg[v]] /\ TaskOf(v)' = TaskOf(v)
  BY <1>2, <1>5 DEF TaskOf, Task
<1>7. Fate(t)' = "open"
  <2>1. ~Quiet(t)'
    BY <1>2, <1>3 DEF Quiet
  <2> QED BY <2>1 DEF Fate
<1>8. ASSUME NEW u \in Tasks, u # t PROVE Fate(u)' = Fate(u)
  <2>1. Quiet(u)' <=> Quiet(u)
    <3>1. (\A i \in DOMAIN stream' : Undelivered(i)' => Task(i)' # u)
            <=> (\A i \in DOMAIN stream : Undelivered(i) => Task(i) # u)
      BY <1>2, <1>3, <1>8
    <3>2. (\A v \in Workers : Deciding(v)' => TaskOf(v)' # u)
            <=> (\A v \in Workers : Deciding(v) => TaskOf(v) # u)
      BY <1>6, <1>8
    <3> QED BY <1>8, <3>1, <3>2 DEF Quiet
  <2>2. DeadLettered(u)' <=> DeadLettered(u)
    <3>1. \A k \in DOMAIN dlq : dlq[k] \in DOMAIN stream
      BY <1>1 DEF OwnerInv, TypeOK
    <3>2. \A k \in DOMAIN dlq : Task(dlq[k])' = Task(dlq[k])
      BY <1>2, <3>1 DEF Task
    <3> QED BY <3>2 DEF DeadLettered
  <2>3. LastIsAcked(u)' <=> LastIsAcked(u)
    <3>1. \A i \in acked : i \in DOMAIN stream
      BY <1>1 DEF OwnerInv, TypeOK
    <3>2. ASSUME NEW i \in acked
          PROVE  (\A j \in DOMAIN stream' : j > i => Task(j)' # u)
                    <=> (\A j \in DOMAIN stream : j > i => Task(j) # u)
      BY <1>2, <1>3, <1>8
    <3> QED BY <1>3, <3>1, <3>2 DEF LastIsAcked
  <2>4. publisher'[u] = publisher[u]
    BY <1>8
  <2> QED BY <2>1, <2>2, <2>3, <2>4, FateSame
<1> QED BY <1>4, <1>6, <1>7, <1>8

\* Sending a new task submits it.
LEMMA SubmitStep ==
    ASSUME OwnerInv, NEW t \in Tasks, PublishSend(t)
    PROVE  Lifecycle!Next
<1>1. /\ stream' = Append(stream, [task |-> t, retry |-> 0])
      /\ UNCHANGED <<delivered, acked, dlq, pc, msg>>
      /\ publisher[t] = "stated" /\ publisher'[t] = "sent"
      /\ \A u \in Tasks : u # t => publisher'[u] = publisher[u]
  BY DEF PublishSend, workerVars, OwnerInv, TypeOK
<1>2. \A v \in Workers : Deciding(v)' <=> Deciding(v)
  BY <1>1 DEF Deciding
<1>3. /\ Waiting' = Append(Waiting, [task |-> t, retry |-> 0])
      /\ Fate(t)' = "open"
      /\ \A u \in Tasks : u # t => Fate(u)' = Fate(u)
      /\ \A v \in Workers : Deciding(v)' => stream'[msg'[v]] = stream[msg[v]]
  BY <1>1, <1>2, SendOpens
<1>4. Fate(t) = "new"
  BY <1>1 DEF Fate
<1>5. Held' = Held
  BY <1>2, <1>3 DEF Held
<1>6. Lifecycle!Submit(t)
  BY <1>3, <1>4, <1>5 DEF Lifecycle!Submit
<1> QED BY <1>6 DEF Lifecycle!Next

\* Sending a retry is the retry of the abstract task.
LEMMA RetryStep ==
    ASSUME OwnerInv, CountInv, NEW w \in Workers, FailSend(w), MayRetry(w)
    PROVE  Lifecycle!Next
<1>1. /\ pc[w] = "failSend" /\ pc' = [pc EXCEPT ![w] = "failRelease"]
      /\ UNCHANGED <<delivered, acked, dlq, msg, publisher>>
  BY DEF FailSend, Goto, callerVars
<1>2. PICK t \in Tasks : t = TaskOf(w)
  BY <1>1, HandOK DEF OwnerInv, Busy, FailSteps
<1>3. PICK n \in Nat : n = seen[w] + 1
  BY DEF OwnerInv, TypeOK
<1>4. stream' = Append(stream, [task |-> t, retry |-> n])
  BY <1>2, <1>3 DEF FailSend
<1>5. /\ Deciding(w) /\ ~Deciding(w)'
      /\ \A v \in Workers : v # w => (Deciding(v)' <=> Deciding(v))
  BY <1>1 DEF OwnerInv, TypeOK, Deciding, Busy, ClaimSteps, TrySteps, FailSteps
<1>6. msg[w] \in DOMAIN stream /\ stream[msg[w]] \in Message
  BY <1>5, HandOK DEF OwnerInv, Deciding
<1>7. publisher[t] = "sent" /\ Task(msg[w]) = t
  BY <1>2, <1>6 DEF OwnerInv, SentOnce, TaskOf
<1>8. /\ Waiting' = Append(Waiting, [task |-> t, retry |-> n])
      /\ Fate(t)' = "open"
      /\ \A u \in Tasks : u # t => Fate(u)' = Fate(u)
      /\ \A v \in Workers : Deciding(v)' => stream'[msg'[v]] = stream[msg[v]]
  BY <1>1, <1>2, <1>4, <1>5, <1>7, SendOpens
<1>9. Fate(t) = "open"
  BY <1>2, <1>5, <1>7 DEF Fate, Quiet
<1>. DEFINE h == [worker |-> w, message |-> stream[msg[w]]]
<1>10. h \in Held /\ h.message.task = t
  BY <1>5, <1>7 DEF Held, Task
<1>11. Held' = Held \ {h}
  <2>1. \A v \in Workers : Deciding(v)' <=> Deciding(v) /\ v # w
    BY <1>5
  <2> QED BY <1>8, <2>1 DEF Held
<1>12. n \in h.message.retry + 1..MaxRetries
  <2>1. seen[w] \in Nat /\ stream[msg[w]].retry \in Nat
    BY <1>6 DEF OwnerInv, TypeOK, Message
  <2>2. stream[msg[w]].retry <= seen[w]
    BY <1>1, <1>2, <1>6, <1>7 DEF CountInv, CountInHand
  <2>3. n <= MaxRetries
    BY <1>3, <2>1, ConstantsAssumption DEF MayRetry
  <2> QED BY <1>3, <2>1, <2>2, <2>3, ConstantsAssumption
<1>13. Lifecycle!Retry(h)
  BY <1>8, <1>9, <1>10, <1>11, <1>12 DEF Lifecycle!Retry
<1> QED BY <1>10, <1>13 DEF Lifecycle!Next

\* Reading a message delivers its task.
LEMMA DeliverStep ==
    ASSUME OwnerInv, NEW w \in Workers, ClaimRead(w)
    PROVE  Lifecycle!Next
<1>. DEFINE m == delivered + 1
<1>1. /\ UNCHANGED <<stream, acked, dlq, publisher>>
      /\ delivered' = m /\ msg'[w] = m
      /\ \A v \in Workers : v # w => msg'[v] = msg[v] /\ pc'[v] = pc[v]
      /\ pc[w] = "idle" /\ pc'[w] = "claim"
  BY DEF ClaimRead, Goto, OwnerInv, TypeOK, callerVars
<1>2. /\ stream \in Seq(Message) /\ delivered \in 0..Len(stream) - 1
      /\ DOMAIN stream = 1..Len(stream) /\ Len(stream) \in Nat
  BY DEF OwnerInv, TypeOK, ClaimRead
<1>3. m \in DOMAIN stream /\ Undelivered(m) /\ Task(m) \in Tasks /\ stream[m].task = Task(m)
  BY <1>2, StreamOK DEF Undelivered, Task, OwnerInv
<1>4. /\ Waiting # <<>> /\ Head(Waiting) = stream[m] /\ Waiting' = Tail(Waiting)
  BY <1>1, <1>2, Dequeued DEF Waiting
<1>5. /\ ~Deciding(w) /\ Deciding(w)'
      /\ \A v \in Workers : v # w => (Deciding(v)' <=> Deciding(v))
  BY <1>1 DEF Deciding, Busy, ClaimSteps, TrySteps, FailSteps
<1>6. Held' = Held \cup {[worker |-> w, message |-> Head(Waiting)]}
  <2>1. stream' = stream
    BY <1>1
  <2> QED BY <1>1, <1>4, <1>5, <2>1 DEF Held
<1>7. \A h \in Held : h.worker # w
  BY <1>5 DEF Held
<1>8. \A i : Task(i)' = Task(i)
  BY <1>1 DEF Task
<1>9. /\ \A i \in DOMAIN stream : Undelivered(i)' <=> Undelivered(i) /\ i # m
      /\ TaskOf(w)' = Task(m)
      /\ \A v \in Workers : v # w => TaskOf(v)' = TaskOf(v)
  BY <1>1, <1>2 DEF Undelivered, TaskOf, Task
<1>10. ASSUME NEW t \in Tasks PROVE Fate(t)' = Fate(t)
  <2>1. Quiet(t)' <=> Quiet(t)
    <3>1. CASE t = Task(m)
      <4>1. ~Quiet(t) /\ ~Quiet(t)'
        BY <1>3, <1>5, <1>9, <3>1 DEF Quiet
      <4> QED BY <4>1
    <3>2. CASE t # Task(m)
      <4>1. publisher' = publisher /\ stream' = stream
        BY <1>1
      <4> QED BY <1>3, <1>5, <1>8, <1>9, <3>2, <4>1 DEF Quiet
    <3> QED BY <3>1, <3>2
  <2>2. DeadLettered(t)' <=> DeadLettered(t)
    BY <1>1, <1>8 DEF DeadLettered
  <2>3. LastIsAcked(t)' <=> LastIsAcked(t)
    BY <1>1, <1>8 DEF LastIsAcked
  <2>4. publisher' = publisher
    BY <1>1
  <2> QED BY <2>1, <2>2, <2>3, <2>4, FateSame
<1>11. Lifecycle!Deliver(w)
  BY <1>4, <1>6, <1>7, <1>10 DEF Lifecycle!Deliver
<1> QED BY <1>11 DEF Lifecycle!Next
-----------------------------------------------------------------------------
(* Every step of the queue is a step of TaskLifecycle, or a stutter.       *)

\* A worker that drops a message has put it among the dead letters.
DropIsDead == \A w \in Workers : pc[w] = "drop" => DeadLettered(TaskOf(w))

\* A step by which no worker turns to dropping keeps what is dropped dead.
LEMMA DropKeeps ==
    ASSUME OwnerInv, DropIsDead, UNCHANGED dlq,
           \A i \in DOMAIN stream : i \in DOMAIN stream' /\ stream'[i] = stream[i],
           \A v \in Workers : pc'[v] = "drop" => pc[v] = "drop" /\ msg'[v] = msg[v]
    PROVE  DropIsDead'
<1> SUFFICES ASSUME NEW v \in Workers, pc'[v] = "drop" PROVE DeadLettered(TaskOf(v))'
  BY DEF DropIsDead
<1>1. msg[v] \in DOMAIN stream /\ msg'[v] = msg[v]
  BY HandOK DEF OwnerInv, Busy, ClaimSteps
<1>2. TaskOf(v)' = TaskOf(v)
  BY <1>1 DEF TaskOf, Task
<1>3. PICK k \in DOMAIN dlq : Task(dlq[k]) = TaskOf(v)
  BY DEF DropIsDead, DeadLettered
<1>4. dlq[k] \in DOMAIN stream
  <2>1. DOMAIN stream = 1..Len(stream) /\ Len(stream) \in Nat
    BY DEF OwnerInv, TypeOK
  <2>2. dlq[k] \in 1..delivered /\ delivered \in 0..Len(stream)
    BY DEF OwnerInv, TypeOK
  <2> QED BY <2>1, <2>2
<1>5. Task(dlq[k])' = Task(dlq[k])
  BY <1>4 DEF Task
<1> QED BY <1>2, <1>3, <1>5 DEF DeadLettered

\* A dead letter stays one, whatever is appended to the list.
LEMMA DropAppends ==
    ASSUME OwnerInv, DropIsDead, NEW w \in Workers, pc[w] \in Busy,
           dlq' = Append(dlq, msg[w]), UNCHANGED <<stream, msg>>,
           \A v \in Workers : pc'[v] = "drop" => v = w \/ pc[v] = "drop"
    PROVE  DropIsDead'
<1>1. dlq \in Seq(Nat) /\ msg[w] \in Nat
  BY HandOK DEF OwnerInv, TypeOK
<1>. PICK m \in Nat : m = Len(dlq) + 1
  BY <1>1
<1>2. /\ DOMAIN dlq' = 1..m /\ dlq'[m] = msg[w]
      /\ \A k \in DOMAIN dlq : k \in 1..m /\ dlq'[k] = dlq[k]
  BY <1>1
<1>3. stream' = stream /\ \A v : TaskOf(v)' = TaskOf(v)
  BY DEF TaskOf, Task
<1>4. ASSUME NEW v \in Workers, pc'[v] = "drop" PROVE DeadLettered(TaskOf(v))'
  <2>1. CASE v = w
    BY <1>2, <1>3, <2>1 DEF DeadLettered, TaskOf, Task
  <2>2. CASE v # w
    <3>1. PICK k \in DOMAIN dlq : Task(dlq[k]) = TaskOf(v)
      BY <1>4, <2>2 DEF DropIsDead, DeadLettered
    <3> QED BY <1>2, <1>3, <3>1 DEF DeadLettered, Task
  <2> QED BY <2>1, <2>2
<1> QED BY <1>4 DEF DropIsDead

\* A worker goes from step to step without letting go of its task.
LEMMA GoOnStutters ==
    ASSUME OwnerInv, NEW w \in Workers,
           NEW s \in Busy \ {"drop", "failRelease"}, NEW d \in Busy \ {"drop", "failRelease"},
           Goto(w, s, d), UNCHANGED <<stream, delivered, acked, dlq, publisher, msg>>
    PROVE  Stutter
<1>1. \A v \in Workers : Deciding(v)' <=> Deciding(v)
  BY DEF Goto, Deciding, OwnerInv, TypeOK
<1>2. \A t \in Tasks : LastIsAcked(t)' <=> LastIsAcked(t)
  BY DEF LastIsAcked, Task
<1> QED BY <1>1, <1>2, CommandStutters

\* A worker whose task is decided is no longer observed.
LEMMA IdleStutters ==
    ASSUME OwnerInv, NEW w \in Workers, ~Deciding(w), ~Deciding(w)',
           UNCHANGED <<stream, delivered, acked, dlq, publisher>>,
           \A v \in Workers : v # w => pc'[v] = pc[v] /\ msg'[v] = msg[v]
    PROVE  Stutter
<1>1. \A v \in Workers : Deciding(v)' <=> Deciding(v)
  BY DEF Deciding
<1>2. \A v \in Workers : Deciding(v) => msg'[v] = msg[v]
  OBVIOUS
<1>3. \A t \in Tasks : LastIsAcked(t)' <=> LastIsAcked(t)
  BY DEF LastIsAcked, Task
<1> QED BY <1>1, <1>2, <1>3, CommandStutters

\* The steps of those who publish and cancel.
LEMMA CallerStep ==
    ASSUME OwnerInv, NEW t \in Tasks,
           PublishState(t) \/ PublishSend(t) \/ CancelMark(t) \/ CancelRelease(t)
           \/ PublisherDies(t) \/ CancellerDies(t)
    PROVE  Lifecycle!Next \/ Stutter
<1>1. CASE PublishSend(t)
  BY <1>1, SubmitStep
<1>2. CASE ~PublishSend(t)
  <2>1. UNCHANGED <<stream, delivered, acked, dlq, pc, msg>>
    BY <1>2 DEF PublishState, CancelMark, CancelRelease, PublisherDies, CancellerDies,
                redisVars, workerVars
  <2>2. \A u \in Tasks : publisher'[u] = "sent" <=> publisher[u] = "sent"
    BY <1>2 DEF PublishState, CancelMark, CancelRelease, PublisherDies, CancellerDies,
                OwnerInv, TypeOK
  <2>3. \A v \in Workers : Deciding(v)' <=> Deciding(v)
    BY <2>1 DEF Deciding
  <2>4. \A u \in Tasks : LastIsAcked(u)' <=> LastIsAcked(u)
    BY <2>1 DEF LastIsAcked, Task
  <2>5. Stutter
    BY <2>1, <2>2, <2>3, <2>4, CommandStutters
  <2> QED BY <2>5
<1> QED BY <1>1, <1>2

\* A worker that returns, dies or gives up with a message it has not decided.
LEMMA ReturnCloses ==
    ASSUME OwnerInv, NEW w \in Workers, Deciding(w), NEW d \in {"idle", "down"},
           pc' = [pc EXCEPT ![w] = d], msg' = [msg EXCEPT ![w] = 0],
           UNCHANGED <<stream, delivered, publisher, dlq>>,
           acked' = acked \/ acked' = acked \cup {msg[w]}
    PROVE  Lifecycle!Next
<1>1. ~Deciding(w)'
  BY DEF OwnerInv, TypeOK, Deciding, Busy, ClaimSteps, TrySteps, FailSteps
<1>2. \A v \in Workers : v # w => (Deciding(v)' <=> Deciding(v)) /\ msg'[v] = msg[v]
  BY DEF OwnerInv, TypeOK, Deciding
<1> QED BY <1>1, <1>2, LetGoCloses

\* One that returns or dies after its message was decided.
LEMMA ReturnStutters ==
    ASSUME OwnerInv, NEW w \in Workers, ~Deciding(w), NEW d \in {"idle", "down"},
           pc' = [pc EXCEPT ![w] = d], \A v \in Workers : v # w => msg'[v] = msg[v],
           UNCHANGED <<stream, delivered, acked, dlq, publisher>>
    PROVE  Stutter
<1>1. ~Deciding(w)'
  BY DEF OwnerInv, TypeOK, Deciding, Busy, ClaimSteps, TrySteps, FailSteps
<1>2. \A v \in Workers : v # w => pc'[v] = pc[v]
  BY DEF OwnerInv, TypeOK
<1> QED BY <1>1, <1>2, IdleStutters

\* The steps of a claim.
LEMMA ClaimStep ==
    ASSUME OwnerInv, DropIsDead, NEW w \in Workers, Claim(w)
    PROVE  Lifecycle!Next \/ Stutter
<1> USE DEF Busy, ClaimSteps, TrySteps, FailSteps, callerVars
<1>1. CASE ClaimRead(w)
  BY <1>1, DeliverStep
<1>2. CASE ClaimExpired(w)
  <2>1. pc[w] = "claim" /\ pc' = [pc EXCEPT ![w] = "drop"]
    BY <1>2 DEF ClaimExpired, Goto
  <2>2. Deciding(w) /\ ~Deciding(w)'
    BY <2>1 DEF Deciding, OwnerInv, TypeOK
  <2>3. \A v \in Workers : v # w => (Deciding(v)' <=> Deciding(v)) /\ msg'[v] = msg[v]
    BY <1>2, <2>1 DEF Deciding, ClaimExpired, OwnerInv, TypeOK
  <2> QED BY <1>2, <2>2, <2>3, LetGoCloses DEF ClaimExpired
<1>3. CASE ClaimDrop(w)
  <2>1. /\ pc[w] = "drop" /\ pc' = [pc EXCEPT ![w] = "idle"]
        /\ \A v \in Workers : v # w => msg'[v] = msg[v]
    BY <1>3 DEF ClaimDrop, Finish, Goto, OwnerInv, TypeOK
  <2>2. DeadLettered(TaskOf(w))
    BY <2>1 DEF DropIsDead
  <2>3. \A v \in Workers : (Deciding(v)' <=> Deciding(v)) /\ (Deciding(v) => msg'[v] = msg[v])
    BY <2>1 DEF Deciding, OwnerInv, TypeOK
  <2>4. ASSUME NEW t \in Tasks PROVE DeadLettered(t) \/ (LastIsAcked(t)' <=> LastIsAcked(t))
    <3>1. CASE t = TaskOf(w)
      BY <2>2, <3>1
    <3>2. CASE t # TaskOf(w)
      <4>1. acked' = acked \cup {msg[w]} /\ stream' = stream
        BY <1>3 DEF ClaimDrop
      <4> QED BY <3>2, <4>1 DEF LastIsAcked, TaskOf, Task
    <3> QED BY <3>1, <3>2
  <2>5. UNCHANGED <<stream, delivered, dlq, publisher>>
    BY <1>3 DEF ClaimDrop
  <2>6. Stutter
    BY <2>3, <2>4, <2>5, CommandStutters
  <2> QED BY <2>6
<1>4. CASE ClaimKey(w)
  BY <1>4, GoOnStutters DEF ClaimKey
<1>5. CASE ClaimMark(w)
  BY <1>5, GoOnStutters DEF ClaimMark
<1> QED BY <1>1, <1>2, <1>3, <1>4, <1>5 DEF Claim

\* The steps of the processing.
LEMMA ProcessStep ==
    ASSUME OwnerInv, NEW w \in Workers, Process(w)
    PROVE  Lifecycle!Next \/ Stutter
<1> USE DEF Busy, ClaimSteps, TrySteps, FailSteps, callerVars, redisVars
<1>1. CASE CheckCancelled(w)
  <2>1. PICK d \in {"ackCancelled", "prepare"} : Goto(w, "check", d)
    BY <1>1 DEF CheckCancelled
  <2> QED BY <1>1, <2>1, GoOnStutters DEF CheckCancelled
<1>2. CASE AckCancelled(w)
  <2>1. Deciding(w)
    BY <1>2 DEF AckCancelled, Finish, Goto, Deciding
  <2> QED BY <1>2, <2>1, ReturnCloses DEF AckCancelled, Finish, Goto
<1>3. CASE DeadlineExceeded(w)
  BY <1>3, GoOnStutters DEF DeadlineExceeded
<1>4. CASE Prepare(w)
  <2>1. PICK d \in {"gate", "failRead"} : Goto(w, "prepare", d)
    BY <1>4 DEF Prepare
  <2> QED BY <1>4, <2>1, GoOnStutters DEF Prepare
<1>5. CASE Gate(w)
  <2>1. PICK d \in {"failRead", "diagnose"} : Goto(w, "gate", d)
    BY <1>5 DEF Gate
  <2> QED BY <1>5, <2>1, GoOnStutters DEF Gate
<1>6. CASE Diagnose(w)
  <2>1. PICK d \in {"complete", "failRead"} : Goto(w, "diagnose", d)
    BY <1>6 DEF Diagnose
  <2> QED BY <1>6, <2>1, GoOnStutters DEF Diagnose
<1>7. CASE Complete(w)
  BY <1>7, GoOnStutters DEF Complete
<1>8. CASE CompleteRelease(w)
  BY <1>8, GoOnStutters DEF CompleteRelease
<1>9. CASE Ack(w)
  <2>1. /\ pc[w] = "ack" /\ pc' = [pc EXCEPT ![w] = "forget"]
        /\ UNCHANGED <<stream, delivered, dlq, publisher, msg>>
    BY <1>9 DEF Ack, Goto
  <2>2. Deciding(w) /\ \A v \in Workers : Deciding(v)' <=> Deciding(v)
    BY <2>1 DEF Deciding, OwnerInv, TypeOK
  <2>3. ASSUME NEW t \in Tasks, Quiet(t) PROVE LastIsAcked(t)' <=> LastIsAcked(t)
    <3>1. t # TaskOf(w)
      BY <2>2, <2>3 DEF Quiet
    <3>2. acked' = acked \cup {msg[w]} /\ stream' = stream
      BY <1>9 DEF Ack
    <3> QED BY <3>1, <3>2 DEF LastIsAcked, TaskOf, Task
  <2>4. Stutter
    BY <2>1, <2>2, <2>3, CommandStutters
  <2> QED BY <2>4
<1>10. CASE ForgetCheckpoint(w)
  <2>1. Deciding(w)
    BY <1>10 DEF ForgetCheckpoint, Finish, Goto, Deciding
  <2> QED BY <1>10, <2>1, ReturnCloses DEF ForgetCheckpoint, Finish, Goto
<1> QED
  BY <1>1, <1>2, <1>3, <1>4, <1>5, <1>6, <1>7, <1>8, <1>9, <1>10 DEF Process

\* The steps of fail().
LEMMA FailStep ==
    ASSUME OwnerInv, CountInv, NEW w \in Workers, Fail(w)
    PROVE  Lifecycle!Next \/ Stutter
<1> USE DEF Busy, ClaimSteps, TrySteps, FailSteps, callerVars, redisVars
<1>1. CASE FailRead(w)
  BY <1>1, GoOnStutters DEF FailRead
<1>2. CASE FailMark(w)
  BY <1>2, GoOnStutters DEF FailMark
<1>3. CASE FailSend(w)
  <2>1. CASE MayRetry(w)
    BY <1>3, <2>1, RetryStep
  <2>2. CASE ~MayRetry(w)
    <3>1. pc[w] = "failSend" /\ pc' = [pc EXCEPT ![w] = "failRelease"]
      BY <1>3 DEF FailSend, Goto
    <3>2. Deciding(w) /\ ~Deciding(w)'
      BY <3>1 DEF Deciding, OwnerInv, TypeOK
    <3>3. \A v \in Workers : v # w => (Deciding(v)' <=> Deciding(v)) /\ msg'[v] = msg[v]
      BY <1>3, <3>1 DEF Deciding, FailSend, OwnerInv, TypeOK
    <3> QED BY <1>3, <2>2, <3>2, <3>3, LetGoCloses DEF FailSend
  <2> QED BY <2>1, <2>2
<1>4. CASE FailRelease(w)
  <2>1. ~Deciding(w) /\ \A v \in Workers : v # w => msg'[v] = msg[v]
    BY <1>4 DEF FailRelease, Finish, Goto, Deciding, OwnerInv, TypeOK
  <2> QED BY <1>4, <2>1, ReturnStutters DEF FailRelease, Finish, Goto
<1> QED BY <1>1, <1>2, <1>3, <1>4 DEF Fail

\* Crashes, restarts and Redis errors.
LEMMA FaultyStep ==
    ASSUME OwnerInv, NEW w \in Workers,
           \/ Crash(w) \/ Restart(w) \/ ErrorOutsideTry(w) \/ ErrorInTry(w)
           \/ \E s \in FailSteps \ {"failRelease"} : ErrorInNestedFail(w, s)
    PROVE  Lifecycle!Next \/ Stutter
<1> USE DEF Busy, ClaimSteps, TrySteps, FailSteps, callerVars, redisVars
<1>1. ASSUME NEW d \in {"idle", "down"}, pc' = [pc EXCEPT ![w] = d],
             msg' = [msg EXCEPT ![w] = 0], UNCHANGED <<redisVars, callerVars>>
      PROVE  Lifecycle!Next \/ Stutter
  <2>1. CASE Deciding(w)
    BY <1>1, <2>1, ReturnCloses
  <2>2. CASE ~Deciding(w)
    <3>1. \A v \in Workers : v # w => msg'[v] = msg[v]
      BY <1>1 DEF OwnerInv, TypeOK
    <3> QED BY <1>1, <2>2, <3>1, ReturnStutters
  <2> QED BY <2>1, <2>2
<1>2. CASE Crash(w)
  BY <1>1, <1>2 DEF Crash
<1>3. CASE Restart(w)
  <2>1. ~Deciding(w)
    BY <1>3 DEF Restart, Goto, Deciding
  <2> QED BY <1>3, <2>1, ReturnStutters DEF Restart, Goto
<1>4. CASE ErrorOutsideTry(w)
  BY <1>1, <1>4 DEF ErrorOutsideTry, Finish, Goto
<1>5. CASE ErrorInTry(w)
  <2>1. PICK s \in TrySteps : Goto(w, s, "failRead")
    BY <1>5 DEF ErrorInTry
  <2> QED BY <1>5, <2>1, GoOnStutters DEF ErrorInTry
<1>6. CASE \E s \in FailSteps \ {"failRelease"} : ErrorInNestedFail(w, s)
  <2>1. PICK s \in FailSteps \ {"failRelease"} : ErrorInNestedFail(w, s)
    BY <1>6
  <2> QED BY <2>1, GoOnStutters DEF ErrorInNestedFail
<1> QED BY <1>2, <1>3, <1>4, <1>5, <1>6

\* Every step keeps what a claim drops dead.
LEMMA StepDropIsDead == OwnerInv /\ DropIsDead /\ [FaultStep]_vars => DropIsDead'
<1> SUFFICES ASSUME OwnerInv, DropIsDead, [FaultStep]_vars PROVE DropIsDead'
  OBVIOUS
<1> USE DEF Busy, ClaimSteps, TrySteps, FailSteps
<1>1. ASSUME NEW w \in Workers, NEW d \in Busy \cup {"idle", "down"}, d # "drop",
             pc' = [pc EXCEPT ![w] = d], UNCHANGED <<stream, dlq>>,
             \A v \in Workers : v # w => msg'[v] = msg[v]
      PROVE  DropIsDead'
  <2>1. \A v \in Workers : pc'[v] = "drop" => v # w /\ pc[v] = "drop"
    BY <1>1 DEF OwnerInv, TypeOK
  <2> QED BY <1>1, <2>1, DropKeeps
<1>2. ASSUME NEW t \in Tasks, NEW n \in Nat,
             stream' = Append(stream, [task |-> t, retry |-> n]), UNCHANGED <<dlq, msg>>,
             \A v \in Workers : pc'[v] = "drop" => pc[v] = "drop"
      PROVE  DropIsDead'
  <2>1. \A i \in DOMAIN stream : i \in DOMAIN stream' /\ stream'[i] = stream[i]
    <3>1. stream \in Seq(Message) /\ [task |-> t, retry |-> n] \in Message
      BY DEF OwnerInv, TypeOK, Message
    <3> QED BY <1>2, <3>1
  <2> QED BY <1>2, <2>1, DropKeeps
<1>3. CASE UNCHANGED vars
  BY <1>3, DropKeeps DEF vars, redisVars, workerVars
<1>4. ASSUME NEW t \in Tasks,
             PublishState(t) \/ CancelMark(t) \/ Caller(t)
             \/ PublisherDies(t) \/ CancellerDies(t)
      PROVE  DropIsDead'
  <2>1. CASE PublishSend(t)
    BY <1>2, <2>1 DEF PublishSend, workerVars
  <2>2. CASE ~PublishSend(t)
    BY <1>4, <2>2, DropKeeps
    DEF PublishState, CancelMark, Caller, CancelRelease, PublisherDies, CancellerDies,
        redisVars, workerVars
  <2> QED BY <2>1, <2>2
<1>5. ASSUME NEW w \in Workers, Claim(w) PROVE DropIsDead'
  <2>1. CASE ClaimExpired(w)
    <3>1. /\ pc[w] = "claim" /\ \A v \in Workers : v # w => pc'[v] = pc[v]
          /\ dlq' = Append(dlq, msg[w]) /\ UNCHANGED <<stream, msg>>
      BY <2>1 DEF ClaimExpired, Goto, OwnerInv, TypeOK
    <3> QED BY <3>1, DropAppends
  <2>2. CASE ClaimRead(w)
    BY <1>1, <2>2 DEF ClaimRead, Goto, OwnerInv, TypeOK
  <2>3. CASE ClaimDrop(w)
    BY <1>1, <2>3 DEF ClaimDrop, Finish, Goto, OwnerInv, TypeOK
  <2>4. CASE ClaimKey(w) \/ ClaimMark(w)
    BY <1>1, <2>4 DEF ClaimKey, ClaimMark, Goto
  <2> QED BY <1>5, <2>1, <2>2, <2>3, <2>4 DEF Claim
<1>6. ASSUME NEW w \in Workers, Process(w) PROVE DropIsDead'
  <2>1. UNCHANGED <<stream, dlq>>
    BY <1>6 DEF Process, CheckCancelled, AckCancelled, DeadlineExceeded, Prepare, Gate,
                Diagnose, Complete, CompleteRelease, Ack, ForgetCheckpoint, redisVars
  <2>2. \A v \in Workers : v # w => msg'[v] = msg[v]
    BY <1>6 DEF Process, CheckCancelled, AckCancelled, DeadlineExceeded, Prepare, Gate,
                Diagnose, Complete, CompleteRelease, Ack, ForgetCheckpoint, Finish,
                OwnerInv, TypeOK
  <2>3. PICK d \in Busy \cup {"idle", "down"} : d # "drop" /\ pc' = [pc EXCEPT ![w] = d]
    BY <1>6 DEF Process, CheckCancelled, AckCancelled, DeadlineExceeded, Prepare, Gate,
                Diagnose, Complete, CompleteRelease, Ack, ForgetCheckpoint, Finish, Goto
  <2> QED BY <1>1, <2>1, <2>2, <2>3
<1>7. ASSUME NEW w \in Workers, Fail(w) PROVE DropIsDead'
  <2>1. CASE FailSend(w)
    <3>1. /\ pc[w] = "failSend" /\ UNCHANGED msg
          /\ \A v \in Workers : pc'[v] = "drop" => pc[v] = "drop"
      BY <2>1 DEF FailSend, Goto, OwnerInv, TypeOK
    <3>2. CASE MayRetry(w)
      <4>1. PICK t \in Tasks : t = TaskOf(w)
        BY <3>1, HandOK DEF OwnerInv
      <4>2. PICK n \in Nat : n = seen[w] + 1
        BY DEF OwnerInv, TypeOK
      <4> QED BY <1>2, <2>1, <3>1, <3>2, <4>1, <4>2 DEF FailSend
    <3>3. CASE ~MayRetry(w)
      BY <2>1, <3>1, <3>3, DropAppends DEF FailSend
    <3> QED BY <3>2, <3>3
  <2>2. CASE FailRead(w) \/ FailMark(w)
    BY <1>1, <2>2 DEF FailRead, FailMark, Goto, redisVars
  <2>3. CASE FailRelease(w)
    BY <1>1, <2>3 DEF FailRelease, Finish, Goto, OwnerInv, TypeOK
  <2> QED BY <1>7, <2>1, <2>2, <2>3 DEF Fail
<1>8. ASSUME NEW w \in Workers,
             \/ Crash(w) \/ Restart(w) \/ ErrorOutsideTry(w) \/ ErrorInTry(w)
             \/ \E s \in FailSteps \ {"failRelease"} : ErrorInNestedFail(w, s)
      PROVE  DropIsDead'
  <2>1. UNCHANGED <<stream, dlq>>
    BY <1>8 DEF Crash, Restart, ErrorOutsideTry, ErrorInTry, ErrorInNestedFail, redisVars
  <2>2. \A v \in Workers : v # w => msg'[v] = msg[v]
    BY <1>8 DEF Crash, Restart, ErrorOutsideTry, ErrorInTry, ErrorInNestedFail, Finish,
                OwnerInv, TypeOK
  <2>3. PICK d \in Busy \cup {"idle", "down"} : d # "drop" /\ pc' = [pc EXCEPT ![w] = d]
    BY <1>8 DEF Crash, Restart, ErrorOutsideTry, ErrorInTry, ErrorInNestedFail, Finish, Goto
  <2> QED BY <1>1, <2>1, <2>2, <2>3
<1>9. CASE Normal
  BY <1>4, <1>5, <1>6, <1>7, <1>9 DEF Normal, Work
<1>10. CASE Crashes
  BY <1>4, <1>8, <1>10 DEF Crashes
<1>11. CASE Errors
  BY <1>8, <1>11 DEF Errors
<1> QED BY <1>3, <1>9, <1>10, <1>11 DEF FaultStep, Next

LifecycleInv == OwnerInv /\ CountInv /\ DropIsDead

\* What the refinement needs holds at the start.
LEMMA InitLifecycleInv == Init => LifecycleInv
<1>1. Init => CountInv
  BY ConstantsAssumption DEF Init, CountInv, CountInHand, AttemptsInOrder
<1>2. Init => DropIsDead
  BY DEF Init, DropIsDead
<1> QED BY <1>1, <1>2, InitOwnerInv DEF LifecycleInv

\* Every step keeps what the refinement needs.
LEMMA StepLifecycleInv == LifecycleInv /\ [FaultStep]_vars => LifecycleInv'
BY StepOwnerInv, StepCountInv, StepDropIsDead DEF LifecycleInv

\* The queue starts as the abstract one does.
LEMMA InitRefines == Init => Lifecycle!Init
<1> SUFFICES ASSUME Init PROVE Lifecycle!Init
  OBVIOUS
<1>1. Waiting = <<>>
  BY DEF Init, Waiting
<1>2. Held = {}
  BY DEF Init, Held, Deciding, Busy, ClaimSteps, TrySteps, FailSteps
<1>3. \A t \in Tasks : Fate(t) = "new"
  BY DEF Init, Fate
<1> QED BY <1>1, <1>2, <1>3 DEF Lifecycle!Init

\* Every step of the queue is a step of the abstract one or none.
LEMMA StepRefines == LifecycleInv /\ [FaultStep]_vars => [Lifecycle!Next]_(Lifecycle!vars)
<1> SUFFICES ASSUME LifecycleInv, [FaultStep]_vars
             PROVE  Lifecycle!Next \/ UNCHANGED Lifecycle!vars
  OBVIOUS
<1>1. OwnerInv /\ CountInv /\ DropIsDead
  BY DEF LifecycleInv
<1>2. Stutter => UNCHANGED Lifecycle!vars
  BY DEF Stutter, Lifecycle!vars
<1>3. CASE UNCHANGED vars
  <2>1. UNCHANGED <<stream, delivered, acked, dlq, publisher, pc, msg>>
    BY <1>3 DEF vars, redisVars, callerVars, workerVars
  <2>2. Stutter
    BY <1>1, <2>1, CommandStutters DEF Deciding, LastIsAcked, Task
  <2> QED BY <1>2, <2>2
<1>4. CASE Normal
  BY <1>1, <1>2, <1>4, CallerStep, ClaimStep, ProcessStep, FailStep DEF Normal, Caller, Work
<1>5. CASE Crashes
  BY <1>1, <1>2, <1>5, CallerStep, FaultyStep DEF Crashes
<1>6. CASE Errors
  BY <1>1, <1>2, <1>6, FaultyStep DEF Errors
<1> QED BY <1>3, <1>4, <1>5, <1>6 DEF FaultStep, Next

\* The queue implements TaskLifecycle for any number of tasks, workers and
\* retries, whatever crashes and whichever Redis command fails (but the release
\* of a fail() nested in the try block): however the commands of publish(),
\* claim(), fail() and ack() interleave, messages are delivered in the order in
\* which they were sent, each to one worker, retries are numbered upwards within
\* the budget, and the way in which a task ended never changes.
THEOREM LifecycleCorrect == FaultSpec => ImplementsLifecycle
<1>1. Init => LifecycleInv
  BY InitLifecycleInv
<1>2. LifecycleInv /\ [FaultStep]_vars => LifecycleInv'
  BY StepLifecycleInv
<1>3. Init => Lifecycle!Init
  BY InitRefines
<1>4. LifecycleInv /\ [FaultStep]_vars => [Lifecycle!Next]_(Lifecycle!vars)
  BY StepRefines
<1> QED
  BY <1>1, <1>2, <1>3, <1>4, PTL DEF FaultSpec, FaultStep, ImplementsLifecycle, Lifecycle!Spec
-----------------------------------------------------------------------------
(* Dead letters.  That they are final is read off TaskLifecycle: no step of *)
(* it changes the fate of a task that is over.                              *)

LEMMA HeldIsOpen == \A h \in Held : Fate(h.message.task) \in {"new", "open"}
<1> SUFFICES ASSUME NEW w \in Workers, Deciding(w)
             PROVE  Fate(TaskOf(w)) \in {"new", "open"}
  BY DEF Held, TaskOf, Task
<1> QED BY DEF Fate, Quiet

\* A dead task stays dead.
LEMMA DeadStays ==
    ASSUME LifecycleInv, [FaultStep]_vars, NEW t \in Tasks, Fate(t) = "dead"
    PROVE  Fate(t)' = "dead"
<1>. DEFINE fate == [u \in Tasks |-> Fate(u)]
<1>1. fate'[t] = fate[t] => Fate(t)' = "dead"
  OBVIOUS
<1>2. CASE UNCHANGED Lifecycle!vars
  BY <1>1, <1>2 DEF Lifecycle!vars
<1>3. ASSUME NEW u \in Tasks, Lifecycle!Submit(u) PROVE Fate(t)' = "dead"
  BY <1>1, <1>3 DEF Lifecycle!Submit
<1>4. ASSUME NEW w \in Workers, Lifecycle!Deliver(w) PROVE Fate(t)' = "dead"
  BY <1>1, <1>4 DEF Lifecycle!Deliver
<1>5. ASSUME NEW h \in Held, Lifecycle!Retry(h) \/ Lifecycle!Close(h)
      PROVE  Fate(t)' = "dead"
  BY <1>1, <1>5, HeldIsOpen DEF Lifecycle!Retry, Lifecycle!Close
<1> QED BY <1>2, <1>3, <1>4, <1>5, StepRefines DEF Lifecycle!Next

\* publish() and fail() are the only ones to send.
LEMMA StreamSent ==
    ASSUME [FaultStep]_vars
    PROVE  \/ stream' = stream
           \/ \E t \in Tasks : PublishSend(t)
           \/ \E w \in Workers : FailSend(w) /\ MayRetry(w)
<1>1. CASE UNCHANGED vars
  BY <1>1 DEF vars, redisVars
<1>2. CASE Normal
  BY <1>2 DEF Normal, Caller, PublishState, CancelMark, CancelRelease, Work,
      Claim, ClaimRead, ClaimExpired, ClaimDrop, ClaimKey, ClaimMark,
      Process, CheckCancelled, AckCancelled, DeadlineExceeded, Prepare, Gate,
      Diagnose, Complete, CompleteRelease, Ack, ForgetCheckpoint,
      Fail, FailRead, FailMark, FailSend, FailRelease, redisVars
<1>3. CASE Crashes \/ Errors
  BY <1>3 DEF Crashes, PublisherDies, CancellerDies, Crash, Restart,
      Errors, ErrorOutsideTry, ErrorInTry, ErrorInNestedFail, redisVars
<1> QED BY <1>1, <1>2, <1>3 DEF FaultStep, Next

\* No message on the stream changes.
LEMMA StreamGrows ==
    ASSUME OwnerInv, [FaultStep]_vars
    PROVE  \A i \in DOMAIN stream : i \in DOMAIN stream' /\ stream'[i] = stream[i]
<1>1. ASSUME NEW t \in Tasks, NEW n \in Nat,
             stream' = Append(stream, [task |-> t, retry |-> n])
      PROVE  \A i \in DOMAIN stream : i \in DOMAIN stream' /\ stream'[i] = stream[i]
  <2>1. stream \in Seq(Message) /\ [task |-> t, retry |-> n] \in Message
    BY DEF OwnerInv, TypeOK, Message
  <2> QED BY <1>1, <2>1
<1>2. ASSUME NEW t \in Tasks, PublishSend(t)
      PROVE  \A i \in DOMAIN stream : i \in DOMAIN stream' /\ stream'[i] = stream[i]
  BY <1>1, <1>2 DEF PublishSend
<1>3. ASSUME NEW w \in Workers, FailSend(w), MayRetry(w)
      PROVE  \A i \in DOMAIN stream : i \in DOMAIN stream' /\ stream'[i] = stream[i]
  <2>1. TaskOf(w) \in Tasks
    BY <1>3, HandOK DEF FailSend, Goto, OwnerInv, Busy, FailSteps
  <2>2. seen[w] + 1 \in Nat
    BY DEF OwnerInv, TypeOK
  <2> QED BY <1>1, <1>3, <2>1, <2>2 DEF FailSend
<1>4. CASE stream' = stream
  BY <1>4
<1> QED BY <1>2, <1>3, <1>4, StreamSent

\* Only a worker that stops deciding its message adds a dead letter.
LEMMA LetterSent ==
    ASSUME OwnerInv, [FaultStep]_vars
    PROVE  \/ dlq' = dlq
           \/ \E w \in Workers :
                 /\ Deciding(w) /\ ~Deciding(w)'
                 /\ UNCHANGED <<stream, delivered, publisher>>
                 /\ \A v \in Workers : v # w =>
                        (Deciding(v)' <=> Deciding(v)) /\ msg'[v] = msg[v]
                 /\ dlq' = Append(dlq, msg[w])
<1>1. CASE UNCHANGED vars
  BY <1>1 DEF vars, redisVars
<1>2. ASSUME NEW w \in Workers, ClaimExpired(w) \/ (FailSend(w) /\ ~MayRetry(w))
      PROVE  /\ Deciding(w) /\ ~Deciding(w)'
             /\ UNCHANGED <<stream, delivered, publisher>>
             /\ \A v \in Workers : v # w =>
                    (Deciding(v)' <=> Deciding(v)) /\ msg'[v] = msg[v]
             /\ dlq' = Append(dlq, msg[w])
  <2>1. PICK s \in {"claim", "failSend"}, d \in {"drop", "failRelease"} : Goto(w, s, d)
    BY <1>2 DEF ClaimExpired, FailSend
  <2>2. /\ Deciding(w) /\ ~Deciding(w)'
        /\ \A v \in Workers : v # w => (Deciding(v)' <=> Deciding(v))
    BY <2>1 DEF Goto, Deciding, Busy, ClaimSteps, TrySteps, FailSteps, OwnerInv, TypeOK
  <2> QED BY <1>2, <2>2 DEF ClaimExpired, FailSend, callerVars
<1>3. CASE Normal
  <2>1. dlq' = dlq \/ \E w \in Workers : ClaimExpired(w) \/ (FailSend(w) /\ ~MayRetry(w))
    BY <1>3 DEF Normal, Caller, PublishState, PublishSend, CancelMark, CancelRelease, Work,
        Claim, ClaimRead, ClaimDrop, ClaimKey, ClaimMark,
        Process, CheckCancelled, AckCancelled, DeadlineExceeded, Prepare, Gate,
        Diagnose, Complete, CompleteRelease, Ack, ForgetCheckpoint,
        Fail, FailRead, FailMark, FailSend, FailRelease, redisVars
  <2> QED BY <1>2, <2>1
<1>4. CASE Crashes \/ Errors
  BY <1>4 DEF Crashes, PublisherDies, CancellerDies, Crash, Restart,
      Errors, ErrorOutsideTry, ErrorInTry, ErrorInNestedFail, redisVars
<1> QED BY <1>1, <1>3, <1>4 DEF FaultStep, Next

\* A dead letter is a message of some task.
LEMMA LettersKnown ==
    ASSUME TypeOK
    PROVE  \A k \in DOMAIN dlq : dlq[k] \in DOMAIN stream /\ Task(dlq[k]) \in Tasks
<1>1. /\ DOMAIN dlq = 1..Len(dlq) /\ delivered \in 0..Len(stream)
      /\ \A k \in 1..Len(dlq) : dlq[k] \in 1..delivered
  BY DEF TypeOK
<1> QED BY <1>1, StreamOK

\* The places of a sequence to which one letter is added.
LEMMA LetterAdded ==
    ASSUME NEW q \in Seq(Nat), NEW x \in Nat, NEW m, m = Len(q) + 1
    PROVE  /\ DOMAIN Append(q, x) = 1..m /\ Append(q, x)[m] = x
           /\ \A k \in 1..m : k = m \/ k \in DOMAIN q
           /\ \A k \in DOMAIN q : k # m /\ Append(q, x)[k] = q[k]
OBVIOUS

\* Every step keeps dead letters final.
LEMMA StepDeadLetter ==
    LifecycleInv /\ DeadLetterIsFinal /\ [FaultStep]_vars => DeadLetterIsFinal'
<1> SUFFICES ASSUME LifecycleInv, DeadLetterIsFinal, [FaultStep]_vars
             PROVE  DeadLetterIsFinal'
  OBVIOUS
<1>1. OwnerInv /\ TypeOK
  BY DEF LifecycleInv, OwnerInv
<1>2. \A i \in DOMAIN stream : Task(i)' = Task(i)
  BY <1>1, StreamGrows DEF Task
<1>3. ASSUME NEW t \in Tasks, DeadLettered(t) PROVE Quiet(t) /\ Quiet(t)'
  <2>1. Quiet(t)
    BY <1>3 DEF DeadLetterIsFinal, DeadLettered
  <2>2. Fate(t) = "dead"
    BY <1>3, <2>1 DEF Fate, Quiet
  <2>3. Fate(t)' = "dead"
    BY <2>2, DeadStays
  <2> QED BY <2>1, <2>3 DEF Fate
<1>4. ASSUME NEW k \in DOMAIN dlq, dlq'[k] = dlq[k]
      PROVE  Task(dlq[k])' = Task(dlq[k]) /\ Quiet(Task(dlq[k]))'
  <2>1. Task(dlq[k])' = Task(dlq[k])
    BY <1>1, <1>2, <1>4, LettersKnown DEF Task
  <2>2. PICK t \in Tasks : t = Task(dlq[k])
    BY <1>1, LettersKnown
  <2>3. Quiet(t)'
    BY <1>3, <2>2 DEF DeadLettered
  <2> QED BY <2>1, <2>2, <2>3 DEF Quiet
<1>5. CASE dlq' = dlq
  BY <1>4, <1>5 DEF DeadLetterIsFinal
<1>6. CASE dlq' # dlq
  <2>1. PICK w \in Workers :
            /\ Deciding(w) /\ ~Deciding(w)'
            /\ UNCHANGED <<stream, delivered, publisher>>
            /\ \A v \in Workers : v # w =>
                   (Deciding(v)' <=> Deciding(v)) /\ msg'[v] = msg[v]
            /\ dlq' = Append(dlq, msg[w])
    BY <1>1, <1>6, LetterSent
  <2>2. PICK t \in Tasks : t = TaskOf(w)
    BY <1>1, <2>1, HandOK DEF Deciding
  <2>3. Quiet(t)' /\ ~Quiet(t)
    BY <1>1, <2>1, <2>2, LetGoQuiets DEF Quiet
  <2>4. PICK m \in Nat : m = Len(dlq) + 1
    BY <1>1 DEF TypeOK
  <2>5. /\ DOMAIN dlq' = 1..m /\ dlq'[m] = msg[w]
        /\ \A k \in 1..m : k = m \/ k \in DOMAIN dlq
        /\ \A k \in DOMAIN dlq : k # m /\ dlq'[k] = dlq[k]
    <3>1. dlq \in Seq(Nat) /\ msg[w] \in Nat
      BY <1>1 DEF TypeOK
    <3> QED BY <2>1, <2>4, <3>1, LetterAdded
  <2>6. Task(dlq[m])' = t
    BY <2>1, <2>2, <2>5 DEF TaskOf, Task
  <2>7. Quiet(Task(dlq[m]))'
    BY <2>3, <2>6 DEF Quiet
  <2>8. \A k \in DOMAIN dlq : Task(dlq[k]) # t
    BY <1>3, <2>3 DEF DeadLettered
  <2> QED BY <1>4, <2>5, <2>6, <2>7, <2>8 DEF DeadLetterIsFinal
<1> QED BY <1>5, <1>6

\* A dead letter is final, for any number of tasks and workers: its task has no
\* other, and whatever crashes or fails, nobody processes the task again.
THEOREM DeadLetterCorrect == FaultSpec => []DeadLetterIsFinal
<1>1. Init => LifecycleInv /\ DeadLetterIsFinal
  <2>1. Init => DeadLetterIsFinal
    BY DEF Init, DeadLetterIsFinal
  <2> QED BY <2>1, InitLifecycleInv
<1>2. LifecycleInv /\ DeadLetterIsFinal /\ [FaultStep]_vars
        => (LifecycleInv /\ DeadLetterIsFinal)'
  BY StepLifecycleInv, StepDeadLetter
<1> QED BY <1>1, <1>2, PTL DEF FaultSpec, FaultStep

-----------------------------------------------------------------------------
(***************************************************************************)
(* Verdicts and acknowledgements.  These hold as long as only crashes      *)
(* disturb the queue (Spec): a verdict is kept, an acknowledged message is *)
(* the last of its task, and a task that nobody will process again has a   *)
(* verdict or a pending message.                                           *)
(***************************************************************************)

\* Without Redis errors a step is one of those of which the refinement speaks.
LEMMA NextIsFaultStep == [Next]_vars => [FaultStep]_vars
BY DEF FaultStep

-----------------------------------------------------------------------------
(* Who changes what.                                                       *)

\* The steps of a worker that keeps its message.
Edges ==
    {<<"claim", "drop">>, <<"claim", "mark">>, <<"mark", "check">>,
     <<"check", "ackCancelled">>, <<"check", "prepare">>,
     <<"prepare", "gate">>, <<"prepare", "failRead">>,
     <<"gate", "diagnose">>, <<"gate", "failRead">>,
     <<"diagnose", "complete">>, <<"diagnose", "failRead">>,
     <<"complete", "release">>, <<"release", "ack">>, <<"ack", "forget">>,
     <<"failRead", "failMark">>, <<"failMark", "failSend">>, <<"failSend", "failRelease">>}

Stays(w) == pc'[w] = pc[w] /\ msg'[w] = msg[w] /\ seen'[w] = seen[w]
GoesOn(w) == <<pc[w], pc'[w]>> \in Edges /\ msg'[w] = msg[w]

\* What a step does to a worker: nothing, the next step with its message, a new
\* message, or the end of its work.
LEMMA Moves ==
    ASSUME OwnerInv, [Next]_vars, NEW w \in Workers
    PROVE  Stays(w) \/ GoesOn(w) \/ ClaimRead(w) \/ pc'[w] \notin Busy
<1> USE DEF Busy, ClaimSteps, TrySteps, FailSteps
<1>1. CASE UNCHANGED vars
  BY <1>1 DEF vars, workerVars, Stays
<1>2. ASSUME NEW t \in Tasks,
             PublishState(t) \/ PublishSend(t) \/ CancelMark(t) \/ CancelRelease(t)
             \/ PublisherDies(t) \/ CancellerDies(t)
      PROVE  Stays(w)
  BY <1>2 DEF PublishState, PublishSend, CancelMark, CancelRelease, PublisherDies,
              CancellerDies, workerVars, Stays
<1>3. ASSUME NEW v \in Workers, Work(v) PROVE Stays(w) \/ GoesOn(w) \/ ClaimRead(w) \/ pc'[w] \notin Busy
  <2> USE DEF Work, Claim, ClaimRead, ClaimExpired, ClaimDrop, ClaimKey, ClaimMark,
              Process, CheckCancelled, AckCancelled, DeadlineExceeded, Prepare, Gate,
              Diagnose, Complete, CompleteRelease, Ack, ForgetCheckpoint,
              Fail, FailRead, FailMark, FailSend, FailRelease, Goto, Finish
  <2>1. CASE v # w
    BY <1>3, <2>1 DEF Stays, OwnerInv, TypeOK
  <2>2. CASE v = w
    BY <1>3, <2>2 DEF GoesOn, Edges, OwnerInv, TypeOK
  <2> QED BY <2>1, <2>2
<1>4. ASSUME NEW v \in Workers, Crash(v) \/ Restart(v) PROVE Stays(w) \/ pc'[w] \notin Busy
  BY <1>4 DEF Crash, Restart, Goto, Stays, OwnerInv, TypeOK
<1> QED BY <1>1, <1>2, <1>3, <1>4 DEF Next, Normal, Crashes, Caller

\* A worker that goes on does so by a step of its own.
LEMMA OwnStep ==
    ASSUME OwnerInv, [Next]_vars, NEW w \in Workers, GoesOn(w)
    PROVE  Work(w)
<1>1. pc'[w] # pc[w] /\ pc'[w] \notin {"idle", "down"}
  BY DEF GoesOn, Edges
<1>2. UNCHANGED pc \/ \E v \in Workers : Work(v) \/ Crash(v) \/ Restart(v)
  BY DEF Next, Normal, Crashes, Caller, vars, workerVars, PublishState, PublishSend,
         CancelMark, CancelRelease, PublisherDies, CancellerDies
<1>3. ASSUME NEW v \in Workers, v # w, Work(v) PROVE pc'[w] = pc[w]
  BY <1>3 DEF Work, Claim, ClaimRead, ClaimExpired, ClaimDrop, ClaimKey, ClaimMark,
     Process, CheckCancelled, AckCancelled, DeadlineExceeded, Prepare, Gate,
     Diagnose, Complete, CompleteRelease, Ack, ForgetCheckpoint,
     Fail, FailRead, FailMark, FailSend, FailRelease, Goto, Finish, OwnerInv, TypeOK
<1>4. ASSUME NEW v \in Workers, Crash(v) \/ Restart(v)
      PROVE  pc'[w] \in {pc[w], "idle", "down"}
  BY <1>4 DEF Crash, Restart, Goto, OwnerInv, TypeOK
<1> QED BY <1>1, <1>2, <1>3, <1>4

\* Who changes the status of a task.
LEMMA StatusSet ==
    ASSUME OwnerInv, [Next]_vars, NEW t \in Tasks, status'[t] # status[t]
    PROVE  \/ PublishState(t) \/ CancelMark(t)
           \/ \E w \in Workers :
                 TaskOf(w) = t /\ (ClaimMark(w) \/ Complete(w) \/ FailMark(w))
<1>1. CASE UNCHANGED vars
  BY <1>1 DEF vars, redisVars
<1>2. ASSUME NEW u \in Tasks,
             PublishState(u) \/ PublishSend(u) \/ CancelMark(u) \/ CancelRelease(u)
             \/ PublisherDies(u) \/ CancellerDies(u)
      PROVE  PublishState(t) \/ CancelMark(t)
  <2>1. PublishState(u) \/ CancelMark(u)
    BY <1>2 DEF PublishSend, CancelRelease, PublisherDies, CancellerDies, redisVars
  <2>2. u = t
    BY <2>1 DEF PublishState, CancelMark, OwnerInv, TypeOK
  <2> QED BY <2>1, <2>2
<1>3. ASSUME NEW w \in Workers, Work(w)
      PROVE  TaskOf(w) = t /\ (ClaimMark(w) \/ Complete(w) \/ FailMark(w))
  <2>1. ClaimMark(w) \/ Complete(w) \/ FailMark(w)
    BY <1>3 DEF Work, Claim, ClaimRead, ClaimExpired, ClaimDrop, ClaimKey,
       Process, CheckCancelled, AckCancelled, DeadlineExceeded, Prepare, Gate,
       Diagnose, CompleteRelease, Ack, ForgetCheckpoint,
       Fail, FailRead, FailSend, FailRelease, redisVars
  <2>2. TaskOf(w) = t
    BY <2>1 DEF ClaimMark, Complete, FailMark, OwnerInv, TypeOK
  <2> QED BY <2>1, <2>2
<1>4. ASSUME NEW w \in Workers, Crash(w) \/ Restart(w) PROVE FALSE
  BY <1>4 DEF Crash, Restart, redisVars
<1> QED BY <1>1, <1>2, <1>3, <1>4 DEF Next, Normal, Crashes, Caller

\* Who acknowledges a message.
LEMMA Acknowledged ==
    ASSUME [Next]_vars
    PROVE  \/ acked' = acked
           \/ \E w \in Workers : /\ ClaimDrop(w) \/ AckCancelled(w) \/ Ack(w)
                                 /\ acked' = acked \cup {msg[w]}
<1>1. CASE UNCHANGED vars
  BY <1>1 DEF vars, redisVars
<1>2. ASSUME NEW u \in Tasks,
             PublishState(u) \/ PublishSend(u) \/ CancelMark(u) \/ CancelRelease(u)
             \/ PublisherDies(u) \/ CancellerDies(u)
      PROVE  acked' = acked
  BY <1>2 DEF PublishState, PublishSend, CancelMark, CancelRelease, PublisherDies,
              CancellerDies, redisVars
<1>3. ASSUME NEW w \in Workers, Work(w)
      PROVE  \/ acked' = acked
             \/ /\ ClaimDrop(w) \/ AckCancelled(w) \/ Ack(w)
                /\ acked' = acked \cup {msg[w]}
  BY <1>3 DEF Work, Claim, ClaimRead, ClaimExpired, ClaimDrop, ClaimKey, ClaimMark,
     Process, CheckCancelled, AckCancelled, DeadlineExceeded, Prepare, Gate,
     Diagnose, Complete, CompleteRelease, Ack, ForgetCheckpoint,
     Fail, FailRead, FailMark, FailSend, FailRelease, redisVars
<1>4. ASSUME NEW w \in Workers, Crash(w) \/ Restart(w) PROVE acked' = acked
  BY <1>4 DEF Crash, Restart, redisVars
<1> QED BY <1>1, <1>2, <1>3, <1>4 DEF Next, Normal, Crashes, Caller

\* Who reads a message.
LEMMA Delivered ==
    ASSUME [Next]_vars
    PROVE  delivered' = delivered \/ \E w \in Workers : ClaimRead(w)
BY DEF Next, Normal, Crashes, Caller, vars, redisVars,
   PublishState, PublishSend, CancelMark, CancelRelease, PublisherDies, CancellerDies,
   Work, Claim, ClaimExpired, ClaimDrop, ClaimKey, ClaimMark,
   Process, CheckCancelled, AckCancelled, DeadlineExceeded, Prepare, Gate,
   Diagnose, Complete, CompleteRelease, Ack, ForgetCheckpoint,
   Fail, FailRead, FailMark, FailSend, FailRelease, Crash, Restart

\* A task is sent once and for all.
LEMMA Published ==
    ASSUME OwnerInv, [Next]_vars, NEW t \in Tasks
    PROVE  /\ publisher[t] = "sent" => publisher'[t] = "sent"
           /\ publisher'[t] = "sent" => publisher[t] = "sent" \/ PublishSend(t)
<1>1. CASE UNCHANGED vars
  BY <1>1 DEF vars, callerVars
<1>2. ASSUME NEW u \in Tasks,
             PublishState(u) \/ PublishSend(u) \/ CancelMark(u) \/ CancelRelease(u)
             \/ PublisherDies(u) \/ CancellerDies(u)
      PROVE  /\ publisher[t] = "sent" => publisher'[t] = "sent"
             /\ publisher'[t] = "sent" => publisher[t] = "sent" \/ PublishSend(t)
  BY <1>2 DEF PublishState, PublishSend, CancelMark, CancelRelease, PublisherDies,
              CancellerDies, OwnerInv, TypeOK
<1>3. ASSUME NEW w \in Workers, Work(w) \/ Crash(w) \/ Restart(w) PROVE publisher' = publisher
  BY <1>3 DEF Work, Claim, ClaimRead, ClaimExpired, ClaimDrop, ClaimKey, ClaimMark,
     Process, CheckCancelled, AckCancelled, DeadlineExceeded, Prepare, Gate,
     Diagnose, Complete, CompleteRelease, Ack, ForgetCheckpoint,
     Fail, FailRead, FailMark, FailSend, FailRelease, Crash, Restart, callerVars
<1> QED BY <1>1, <1>2, <1>3 DEF Next, Normal, Crashes, Caller

\* A worker that keeps its message keeps its task.
LEMMA SameTask ==
    ASSUME OwnerInv, [Next]_vars, NEW w \in Workers, pc[w] \in Busy, Stays(w) \/ GoesOn(w)
    PROVE  TaskOf(w)' = TaskOf(w) /\ msg'[w] = msg[w]
<1>1. msg[w] \in DOMAIN stream /\ msg'[w] = msg[w]
  BY HandOK DEF OwnerInv, Stays, GoesOn
<1>2. stream'[msg[w]] = stream[msg[w]]
  BY <1>1, StreamGrows, NextIsFaultStep
<1> QED BY <1>1, <1>2 DEF TaskOf, Task

\* What a reader takes from the stream nobody else has.
LEMMA ReadsFresh ==
    ASSUME OwnerInv, [Next]_vars, NEW w \in Workers, ClaimRead(w)
    PROVE  /\ msg'[w] = delivered + 1 /\ delivered' = delivered + 1
           /\ delivered + 1 \in DOMAIN stream /\ Undelivered(delivered + 1)
           /\ TaskOf(w)' = Task(delivered + 1) /\ pc'[w] = "claim"
           /\ stream' = stream
BY DEF ClaimRead, Goto, OwnerInv, TypeOK, Undelivered, TaskOf, Task
-----------------------------------------------------------------------------
(* A verdict is kept: the worker that gave it is the only one that still    *)
(* has a message of the task, and it is past every step that marks.        *)

Settled(t) == status[t] \in {"COMPLETED", "FAILED"}

Decided(w) ==
    \/ pc[w] \in {"release", "ack", "forget"}
    \/ pc[w] = "failSend" /\ ~MayRetry(w)

\* Nobody can mark task t any more.
NobodyMarks(t) ==
    /\ publisher[t] = "sent"
    /\ \A i \in DOMAIN stream : Undelivered(i) => Task(i) # t
    /\ \A w \in Workers : Deciding(w) /\ ~Decided(w) => TaskOf(w) # t

VerdictHeld == \A t \in Tasks : Settled(t) => NobodyMarks(t)

\* A task that nobody can mark stays so.
LEMMA NobodyMarksStays ==
    ASSUME OwnerInv, [Next]_vars, NEW t \in Tasks, NobodyMarks(t)
    PROVE  NobodyMarks(t)'
<1>1. publisher[t] = "sent" /\ publisher'[t] = "sent"
  BY Published DEF NobodyMarks
<1>2. ASSUME NEW i \in DOMAIN stream', Undelivered(i)' PROVE Task(i)' # t
  <2>1. CASE i \in DOMAIN stream
    <3>1. Undelivered(i)
      <4>1. delivered \in Nat /\ delivered' \in Nat /\ delivered <= delivered'
        BY Delivered, ReadsFresh DEF OwnerInv, TypeOK
      <4>2. i \in Nat
        BY <2>1, StreamOK DEF OwnerInv
      <4> QED BY <1>2, <2>1, <4>1, <4>2 DEF Undelivered
    <3>2. Task(i)' = Task(i)
      BY <2>1, StreamGrows, NextIsFaultStep DEF Task
    <3> QED BY <2>1, <3>1, <3>2 DEF NobodyMarks
  <2>2. CASE i \notin DOMAIN stream
    <3>1. ASSUME NEW u \in Tasks, NEW n \in Nat, u # t,
                 stream' = Append(stream, [task |-> u, retry |-> n])
          PROVE  Task(i)' # t
      <4>1. stream \in Seq(Message) /\ DOMAIN stream = 1..Len(stream) /\ Len(stream) \in Nat
        BY DEF OwnerInv, TypeOK
      <4>2. i = Len(stream) + 1
        BY <2>2, <3>1, <4>1
      <4>3. stream'[i] = [task |-> u, retry |-> n]
        BY <3>1, <4>1, <4>2
      <4> QED BY <3>1, <4>3 DEF Task
    <3>2. ASSUME NEW u \in Tasks, PublishSend(u) PROVE Task(i)' # t
      BY <1>1, <3>1, <3>2 DEF PublishSend
    <3>3. ASSUME NEW w \in Workers, FailSend(w), MayRetry(w) PROVE Task(i)' # t
      <4>1. pc[w] = "failSend" /\ Deciding(w) /\ ~Decided(w)
        BY <3>3 DEF FailSend, Goto, Deciding, Decided, Busy, FailSteps
      <4>2. TaskOf(w) \in Tasks /\ TaskOf(w) # t /\ seen[w] + 1 \in Nat
        <5>1. TaskOf(w) \in Tasks
          BY <4>1, HandOK DEF Deciding, OwnerInv
        <5>2. TaskOf(w) # t
          BY <4>1 DEF NobodyMarks
        <5>3. seen[w] + 1 \in Nat
          BY DEF OwnerInv, TypeOK
        <5> QED BY <5>1, <5>2, <5>3
      <4> QED BY <3>1, <3>3, <4>2 DEF FailSend
    <3> QED BY <2>2, <3>2, <3>3, StreamSent, NextIsFaultStep
  <2> QED BY <2>1, <2>2
<1>3. ASSUME NEW w \in Workers, Deciding(w)', ~Decided(w)' PROVE TaskOf(w)' # t
  <2> USE DEF Deciding, Decided, Busy, ClaimSteps, TrySteps, FailSteps, MayRetry
  <2>1. CASE Stays(w)
    BY <1>3, <2>1, SameTask DEF Stays, NobodyMarks
  <2>2. CASE GoesOn(w)
    <3>1. Deciding(w) /\ ~Decided(w)
      BY <1>3, <2>2 DEF GoesOn, Edges
    <3> QED BY <2>2, <3>1, SameTask DEF NobodyMarks
  <2>3. CASE ClaimRead(w)
    BY <2>3, ReadsFresh DEF NobodyMarks
  <2> QED BY <1>3, <2>1, <2>2, <2>3, Moves
<1> QED BY <1>1, <1>2, <1>3 DEF NobodyMarks

\* A worker that gives the verdict is the only one to have the task.
LEMMA VerdictGiven ==
    ASSUME OwnerInv, [Next]_vars, NEW w \in Workers, NEW t \in Tasks, t = TaskOf(w),
           Complete(w) \/ (FailMark(w) /\ ~MayRetry(w))
    PROVE  NobodyMarks(t)'
<1> USE DEF Busy, ClaimSteps, TrySteps, FailSteps
<1>1. /\ Deciding(w) /\ pc'[w] \in {"release", "failSend"}
      /\ UNCHANGED <<stream, delivered, publisher, msg, seen>>
      /\ \A v \in Workers : v # w => pc'[v] = pc[v]
  BY DEF Complete, FailMark, Goto, Deciding, OwnerInv, TypeOK, callerVars
<1>2. Decided(w)'
  <2>1. CASE Complete(w)
    BY <2>1 DEF Complete, Goto, Decided, OwnerInv, TypeOK
  <2>2. CASE FailMark(w) /\ ~MayRetry(w)
    BY <2>2 DEF FailMark, Goto, Decided, MayRetry, OwnerInv, TypeOK
  <2> QED BY <2>1, <2>2
<1>3. publisher[t] = "sent"
  BY <1>1, HandOK DEF OwnerInv, SentOnce, TaskOf, Deciding
<1>4. \A i \in DOMAIN stream : Undelivered(i) => Task(i) # t
  BY <1>1 DEF OwnerInv, SingleOwner
<1>5. \A v \in Workers : Deciding(v)' /\ ~Decided(v)' => TaskOf(v)' # t
  <2>1. \A v \in Workers : Deciding(v)' /\ ~Decided(v)' => v # w /\ Deciding(v)
    BY <1>1, <1>2 DEF Deciding
  <2>2. \A v : TaskOf(v)' = TaskOf(v)
    BY <1>1 DEF TaskOf, Task
  <2> QED BY <1>1, <2>1, <2>2 DEF OwnerInv, SingleOwner
<1> QED BY <1>1, <1>3, <1>4, <1>5 DEF NobodyMarks, Undelivered, Task

\* Every step keeps settled tasks out of the reach of marks.
LEMMA StepVerdictHeld == OwnerInv /\ VerdictHeld /\ [Next]_vars => VerdictHeld'
<1> SUFFICES ASSUME OwnerInv, VerdictHeld, [Next]_vars, NEW t \in Tasks, Settled(t)'
             PROVE  NobodyMarks(t)'
  BY DEF VerdictHeld
<1>1. CASE Settled(t)
  BY <1>1, NobodyMarksStays DEF VerdictHeld
<1>2. CASE ~Settled(t)
  <2>1. status'[t] # status[t] /\ status'[t] \in {"COMPLETED", "FAILED"}
    BY <1>2 DEF Settled
  <2>2. ~PublishState(t) /\ ~CancelMark(t)
    BY <2>1 DEF PublishState, CancelMark, OwnerInv, TypeOK
  <2>3. PICK w \in Workers : TaskOf(w) = t /\ (ClaimMark(w) \/ Complete(w) \/ FailMark(w))
    BY <2>1, <2>2, StatusSet
  <2>4. Complete(w) \/ (FailMark(w) /\ ~MayRetry(w))
    BY <2>1, <2>3 DEF ClaimMark, FailMark, OwnerInv, TypeOK
  <2> QED BY <2>3, <2>4, VerdictGiven
<1> QED BY <1>1, <1>2

\* For any number of tasks, workers and retries, and whoever crashes when, a task
\* that is COMPLETED or FAILED stays so unless it is cancelled: no late retry,
\* claim or failure of another attempt overwrites its verdict.
THEOREM VerdictCorrect == Spec => VerdictIsKept
<1>1. Init => OwnerInv /\ VerdictHeld
  <2>1. Init => VerdictHeld
    BY DEF Init, VerdictHeld, Settled
  <2> QED BY <2>1, InitOwnerInv
<1>2. OwnerInv /\ VerdictHeld /\ [Next]_vars => (OwnerInv /\ VerdictHeld)'
  BY StepOwnerInv, StepVerdictHeld, NextIsFaultStep
<1>3. OwnerInv /\ VerdictHeld /\ [Next]_vars
        => [\A t \in Tasks : status[t] \in {"COMPLETED", "FAILED"}
                                => status'[t] \in {status[t], "CANCELLED"}]_vars
  <2> SUFFICES ASSUME OwnerInv, VerdictHeld, [Next]_vars, NEW t \in Tasks, Settled(t)
               PROVE  status'[t] \in {status[t], "CANCELLED"}
    BY DEF Settled
  <2>1. NobodyMarks(t)
    BY DEF VerdictHeld
  <2>2. ~PublishState(t)
    BY <2>1 DEF NobodyMarks, PublishState
  <2>3. ASSUME NEW w \in Workers, TaskOf(w) = t PROVE ~(ClaimMark(w) \/ Complete(w) \/ FailMark(w))
    BY <2>1, <2>3 DEF NobodyMarks, ClaimMark, Complete, FailMark, Goto, Deciding, Decided,
                      Busy, ClaimSteps, TrySteps, FailSteps
  <2>4. CancelMark(t) => status'[t] = "CANCELLED"
    BY DEF CancelMark, OwnerInv, TypeOK
  <2> QED BY <2>2, <2>3, <2>4, StatusSet
<1> QED BY <1>1, <1>2, <1>3, PTL DEF Spec, VerdictIsKept
-----------------------------------------------------------------------------
(* Acknowledgements.  A worker acknowledges the message it holds, which     *)
(* nobody else holds, and only when the task has a verdict.                *)

\* Each busy worker has a message of its own.
OwnMessages ==
    \A v, w \in Workers : v # w /\ pc[v] \in Busy /\ pc[w] \in Busy => msg[v] # msg[w]

\* Until it is acknowledged, a held message stays in the pending list.
HeldPending == \A w \in Workers : pc[w] \in Busy \ {"forget"} => msg[w] \notin acked

\* The verdict comes before the acknowledgement.
VerdictFirst ==
    \A w \in Workers :
        /\ pc[w] = "ackCancelled" => status[TaskOf(w)] = "CANCELLED"
        /\ pc[w] \in {"release", "ack", "forget"}
               => status[TaskOf(w)] \in {"COMPLETED", "CANCELLED"}

\* A published task has a verdict, or a message that is not acknowledged.
NotForgotten ==
    \A t \in Tasks :
        publisher[t] = "sent" =>
            Verdict(t) \/ \E i \in DOMAIN stream : Task(i) = t /\ i \notin acked

AckInv == DropIsDead /\ OwnMessages /\ HeldPending /\ VerdictFirst /\ NotForgotten

\* Nobody reads what was read before.
LEMMA FreshIsNew ==
    ASSUME OwnerInv
    PROVE  /\ delivered + 1 \notin acked
           /\ \A w \in Workers : msg[w] # delivered + 1
<1>1. delivered \in Nat /\ acked \subseteq 1..delivered /\ msg \in [Workers -> 0..delivered]
  BY DEF OwnerInv, TypeOK
<1> QED BY <1>1

\* Every step leaves each busy worker a message of its own.
LEMMA StepOwnMessages == OwnerInv /\ OwnMessages /\ [Next]_vars => OwnMessages'
<1> SUFFICES ASSUME OwnerInv, OwnMessages, [Next]_vars,
                    NEW v \in Workers, NEW w \in Workers, v # w, (pc[v] \in Busy)', (pc[w] \in Busy)'
             PROVE  msg'[v] # msg'[w]
  BY DEF OwnMessages
<1> USE DEF Busy, ClaimSteps, TrySteps, FailSteps
<1>1. ASSUME NEW u \in Workers, Stays(u) \/ GoesOn(u), (pc[u] \in Busy)'
      PROVE  pc[u] \in Busy /\ msg'[u] = msg[u]
  BY <1>1 DEF Stays, GoesOn, Edges
<1>2. ASSUME NEW u \in Workers, ClaimRead(u)
      PROVE  /\ msg'[u] = delivered + 1
             /\ \A x \in Workers : x # u => msg'[x] = msg[x] /\ pc'[x] = pc[x]
  BY <1>2 DEF ClaimRead, Goto, OwnerInv, TypeOK
<1>3. CASE ClaimRead(v) \/ ClaimRead(w)
  BY <1>2, <1>3, FreshIsNew
<1>4. CASE ~ClaimRead(v) /\ ~ClaimRead(w)
  <2>1. (Stays(v) \/ GoesOn(v)) /\ (Stays(w) \/ GoesOn(w))
    BY <1>4, Moves
  <2> QED BY <1>1, <2>1 DEF OwnMessages
<1> QED BY <1>3, <1>4

\* Every step leaves held messages in the pending list.
LEMMA StepHeldPending ==
    OwnerInv /\ OwnMessages /\ HeldPending /\ [Next]_vars => HeldPending'
<1> SUFFICES ASSUME OwnerInv, OwnMessages, HeldPending, [Next]_vars,
                    NEW w \in Workers, (pc[w] \in Busy \ {"forget"})'
             PROVE  msg'[w] \notin acked'
  BY DEF HeldPending
<1> USE DEF Busy, ClaimSteps, TrySteps, FailSteps
<1>1. CASE ClaimRead(w)
  BY <1>1, FreshIsNew DEF ClaimRead, OwnerInv, TypeOK
<1>2. CASE Stays(w) \/ GoesOn(w)
  <2>1. pc[w] \in Busy \ {"forget"} /\ msg'[w] = msg[w]
    BY <1>2 DEF Stays, GoesOn, Edges
  <2>2. ASSUME NEW v \in Workers, ClaimDrop(v) \/ AckCancelled(v) \/ Ack(v)
        PROVE  v # w /\ pc[v] \in Busy
    BY <2>2 DEF ClaimDrop, AckCancelled, Ack, Finish, Goto, OwnerInv, TypeOK
  <2>3. \A v \in Workers : ClaimDrop(v) \/ AckCancelled(v) \/ Ack(v) => msg[v] # msg[w]
    BY <2>1, <2>2 DEF OwnMessages
  <2> QED BY <2>1, <2>3, Acknowledged DEF HeldPending
<1> QED BY <1>1, <1>2, Moves

\* Every step keeps the verdict before the acknowledgement.
LEMMA StepVerdictFirst == OwnerInv /\ VerdictFirst /\ [Next]_vars => VerdictFirst'
<1> SUFFICES ASSUME OwnerInv, VerdictFirst, [Next]_vars, NEW w \in Workers,
                    pc'[w] \in {"ackCancelled", "release", "ack", "forget"}
             PROVE  /\ pc'[w] = "ackCancelled" => status'[TaskOf(w)'] = "CANCELLED"
                    /\ pc'[w] \in {"release", "ack", "forget"}
                           => status'[TaskOf(w)'] \in {"COMPLETED", "CANCELLED"}
  BY DEF VerdictFirst
<1> USE DEF Busy, ClaimSteps, TrySteps, FailSteps
<1>1. Stays(w) \/ GoesOn(w)
  BY Moves DEF ClaimRead, Goto, OwnerInv, TypeOK
<1>2. pc[w] \in Busy /\ Deciding(w)
  BY <1>1 DEF Stays, GoesOn, Edges, Deciding
<1>3. PICK t \in Tasks : t = TaskOf(w) /\ t = TaskOf(w)'
  BY <1>1, <1>2, HandOK, SameTask DEF OwnerInv
<1>4. publisher[t] = "sent"
  BY <1>2, <1>3, HandOK DEF OwnerInv, SentOnce, TaskOf
<1>5. /\ pc'[w] = "ackCancelled" => pc[w] = "ackCancelled" \/ CheckCancelled(w)
      /\ pc'[w] \in {"release", "ack", "forget"}
             => pc[w] \in {"release", "ack", "forget"} \/ Complete(w)
  <2>1. CASE Stays(w)
    BY <2>1 DEF Stays
  <2>2. CASE GoesOn(w)
    <3>1. Work(w)
      BY <2>2, OwnStep
    <3> QED BY <2>2, <3>1 DEF GoesOn, Edges, Work, Claim, ClaimRead, ClaimExpired, ClaimDrop,
        ClaimKey, ClaimMark, Process, AckCancelled, DeadlineExceeded, Prepare, Gate,
        Diagnose, Complete, CheckCancelled, CompleteRelease, Ack, ForgetCheckpoint,
        Fail, FailRead, FailMark, FailSend, FailRelease, Goto, Finish, OwnerInv, TypeOK
  <2> QED BY <1>1, <2>1, <2>2
<1>6. CASE CheckCancelled(w)
  BY <1>3, <1>6 DEF CheckCancelled, Goto, IsCancelled, redisVars, OwnerInv, TypeOK
<1>7. CASE Complete(w)
  BY <1>3, <1>7 DEF Complete, Goto, OwnerInv, TypeOK
<1>8. CASE ~CheckCancelled(w) /\ ~Complete(w)
  <2>1. CASE status'[t] = status[t]
    BY <1>3, <1>5, <1>8, <2>1 DEF VerdictFirst
  <2>2. CASE CancelMark(t)
    BY <1>3, <2>2 DEF CancelMark, OwnerInv, TypeOK
  <2>3. ~PublishState(t)
    BY <1>4 DEF PublishState
  <2>4. ASSUME NEW v \in Workers, TaskOf(v) = t, ClaimMark(v) \/ Complete(v) \/ FailMark(v)
        PROVE  FALSE
    <3>1. Deciding(v) /\ pc'[v] \in {"check", "release", "failSend"} /\ pc[v] \in {"mark", "complete", "failMark"}
      BY <2>4 DEF ClaimMark, Complete, FailMark, Goto, Deciding, OwnerInv, TypeOK
    <3>2. v = w
      BY <1>2, <1>3, <2>4, <3>1 DEF OwnerInv, SingleOwner
    <3> QED BY <1>5, <1>8, <3>1, <3>2
  <2> QED BY <2>1, <2>2, <2>3, <2>4, StatusSet
<1> QED BY <1>6, <1>7, <1>8

\* No step acknowledges the only message of a task without a verdict.
LEMMA StepNotForgotten == OwnerInv /\ AckInv /\ [Next]_vars => NotForgotten'
<1> SUFFICES ASSUME OwnerInv, AckInv, [Next]_vars, NEW t \in Tasks, publisher'[t] = "sent"
             PROVE  Verdict(t)' \/ \E i \in DOMAIN stream' : Task(i)' = t /\ i \notin acked'
  BY DEF NotForgotten
<1> USE DEF Busy, ClaimSteps, TrySteps, FailSteps
<1>1. \A i \in DOMAIN stream : i \in DOMAIN stream' /\ Task(i)' = Task(i)
  BY StreamGrows, NextIsFaultStep DEF Task
<1>2. CASE publisher[t] # "sent"
  <2>1. PublishSend(t)
    BY <1>2, Published
  <2>2. PICK m \in Nat : m = Len(stream) + 1
    BY DEF OwnerInv, TypeOK
  <2>3. m \in DOMAIN stream' /\ stream'[m] = [task |-> t, retry |-> 0]
    BY <2>1, <2>2 DEF PublishSend, OwnerInv, TypeOK, Message
  <2>4. m \notin acked'
    BY <2>1, <2>2 DEF PublishSend, OwnerInv, TypeOK
  <2> QED BY <2>3, <2>4 DEF Task
<1>3. CASE publisher[t] = "sent" /\ status'[t] # status[t]
  <2>1. CASE CancelMark(t)
    BY <2>1 DEF CancelMark, Verdict, OwnerInv, TypeOK
  <2>2. ~PublishState(t)
    BY <1>3 DEF PublishState
  <2>3. ASSUME NEW w \in Workers, TaskOf(w) = t, ClaimMark(w) \/ Complete(w) \/ FailMark(w)
        PROVE  \E i \in DOMAIN stream' : Task(i)' = t /\ i \notin acked'
    <3>1. pc[w] \in Busy \ {"forget"} /\ acked' = acked
      BY <2>3 DEF ClaimMark, Complete, FailMark, Goto
    <3>2. msg[w] \in DOMAIN stream /\ msg[w] \notin acked /\ Task(msg[w]) = t
      BY <2>3, <3>1, HandOK DEF OwnerInv, AckInv, HeldPending, TaskOf
    <3> QED BY <1>1, <3>1, <3>2
  <2> QED BY <1>3, <2>1, <2>2, <2>3, StatusSet
<1>4. CASE publisher[t] = "sent" /\ status'[t] = status[t]
  <2>1. DeadLettered(t) => DeadLettered(t)'
    <3> SUFFICES ASSUME NEW k \in DOMAIN dlq, Task(dlq[k]) = t PROVE DeadLettered(t)'
      BY DEF DeadLettered
    <3>1. k \in DOMAIN dlq' /\ dlq'[k] = dlq[k]
      <4>1. CASE dlq' = dlq
        BY <4>1
      <4>2. ASSUME NEW w \in Workers, Deciding(w), dlq' = Append(dlq, msg[w])
            PROVE  k \in DOMAIN dlq' /\ dlq'[k] = dlq[k]
        BY <4>2, HandOK DEF OwnerInv, TypeOK, Deciding
      <4> QED BY <4>1, <4>2, LetterSent, NextIsFaultStep
    <3>2. Task(dlq[k])' = t
      BY <1>1, <3>1, LettersKnown DEF OwnerInv, Task
    <3> QED BY <3>1, <3>2 DEF DeadLettered
  <2>2. Verdict(t) => Verdict(t)'
    BY <1>4, <2>1 DEF Verdict
  <2>3. ASSUME NEW i \in DOMAIN stream, Task(i) = t, i \notin acked
        PROVE  Verdict(t)' \/ \E j \in DOMAIN stream' : Task(j)' = t /\ j \notin acked'
    <3>1. CASE i \notin acked'
      BY <1>1, <2>3, <3>1
    <3>2. CASE i \in acked'
      <4>1. PICK w \in Workers : (ClaimDrop(w) \/ AckCancelled(w) \/ Ack(w)) /\ i = msg[w]
        BY <2>3, <3>2, Acknowledged
      <4>2. TaskOf(w) = t
        BY <2>3, <4>1 DEF TaskOf
      <4>3. CASE ClaimDrop(w)
        <5>1. DeadLettered(t)
          BY <4>2, <4>3 DEF ClaimDrop, Finish, Goto, DropIsDead, AckInv
        <5> QED BY <2>1, <5>1 DEF Verdict
      <4>4. CASE AckCancelled(w) \/ Ack(w)
        <5>1. status[t] \in {"COMPLETED", "CANCELLED"}
          BY <4>2, <4>4 DEF AckCancelled, Ack, Finish, Goto, AckInv, VerdictFirst
        <5> QED BY <1>4, <5>1 DEF Verdict
      <4> QED BY <4>1, <4>3, <4>4
    <3> QED BY <3>1, <3>2
  <2> QED BY <1>4, <2>2, <2>3 DEF AckInv, NotForgotten
<1> QED BY <1>2, <1>3, <1>4

\* Every step keeps the invariant of acknowledgements.
LEMMA StepAckInv == OwnerInv /\ AckInv /\ [Next]_vars => AckInv'
<1> SUFFICES ASSUME OwnerInv, AckInv, [Next]_vars PROVE AckInv'
  OBVIOUS
<1>1. DropIsDead'
  BY StepDropIsDead, NextIsFaultStep DEF AckInv
<1> QED
  BY <1>1, StepOwnMessages, StepHeldPending, StepVerdictFirst, StepNotForgotten DEF AckInv

\* The invariant of acknowledgements holds at the start.
LEMMA InitAckInv == Init => OwnerInv /\ AckInv
<1>1. Init => AckInv
  BY DEF Init, AckInv, DropIsDead, OwnMessages, HeldPending, VerdictFirst, NotForgotten,
         Busy, ClaimSteps, TrySteps, FailSteps
<1> QED BY <1>1, InitOwnerInv

\* For any number of tasks, workers and retries, and whoever crashes when, a task
\* nobody will process any more has a verdict or a message in the group's
\* pending list: what a recovery by pending claim would need is there.
THEOREM StuckCorrect == Spec => []StuckIsPending
<1>1. Init => OwnerInv /\ AckInv
  BY InitAckInv
<1>2. OwnerInv /\ AckInv /\ [Next]_vars => (OwnerInv /\ AckInv)'
  BY StepOwnerInv, StepAckInv, NextIsFaultStep
<1>3. OwnerInv /\ AckInv => StuckIsPending
  <2> SUFFICES ASSUME OwnerInv, AckInv, NEW t \in Tasks, Quiet(t), ~Verdict(t)
               PROVE  Pending(t)
    BY DEF StuckIsPending
  <2>1. PICK i \in DOMAIN stream : Task(i) = t /\ i \notin acked
    BY DEF AckInv, NotForgotten, Quiet
  <2>2. ~Undelivered(i)
    BY <2>1 DEF Quiet
  <2>3. i \in 1..delivered
    BY <2>2, StreamOK DEF Undelivered, OwnerInv, TypeOK
  <2> QED BY <2>1, <2>3 DEF Pending
<1> QED BY <1>1, <1>2, <1>3, PTL DEF Spec
-----------------------------------------------------------------------------
(* An acknowledged message is the last of its task.                        *)

\* A worker that may still acknowledge its message holds the last of the task.
HeldLast ==
    \A w \in Workers, j \in DOMAIN stream :
        pc[w] \in Busy \ {"failRelease"} /\ j > msg[w] => Task(j) # TaskOf(w)

LastInv == DeadLetterIsFinal /\ HeldLast /\ AckedIsLast

\* Whoever sends a message of task t is alone with t, and t was never
\* acknowledged.
LEMMA SenderIsAlone ==
    ASSUME OwnerInv, AckInv, LastInv, [Next]_vars, stream' # stream
    PROVE  \E t \in Tasks, n \in Nat :
              /\ stream' = Append(stream, [task |-> t, retry |-> n])
              /\ \A i \in acked : Task(i) # t
              /\ \A w \in Workers : (pc[w] \in Busy \ {"failRelease"})' => TaskOf(w) # t
              /\ UNCHANGED <<acked, delivered>>
              /\ \A w \in Workers : (pc[w] \in Busy)' => pc[w] \in Busy
<1> USE DEF Busy, ClaimSteps, TrySteps, FailSteps
<1>1. acked \subseteq DOMAIN stream
  BY DEF OwnerInv, TypeOK
<1>2. ASSUME NEW t \in Tasks, PublishSend(t)
      PROVE  /\ stream' = Append(stream, [task |-> t, retry |-> 0])
             /\ \A i \in acked : Task(i) # t
             /\ \A w \in Workers : (pc[w] \in Busy \ {"failRelease"})' => TaskOf(w) # t
             /\ UNCHANGED <<acked, delivered>>
             /\ \A w \in Workers : (pc[w] \in Busy)' => pc[w] \in Busy
  <2>1. \A i \in DOMAIN stream : Task(i) # t
    BY <1>2 DEF PublishSend, OwnerInv, SentOnce
  <2>2. pc' = pc
    BY <1>2 DEF PublishSend, workerVars
  <2>3. \A w \in Workers : pc[w] \in Busy => TaskOf(w) # t
    BY <2>1, HandOK DEF OwnerInv, TaskOf
  <2> QED BY <1>1, <1>2, <2>1, <2>2, <2>3 DEF PublishSend
<1>3. ASSUME NEW w \in Workers, FailSend(w), MayRetry(w), NEW t \in Tasks, t = TaskOf(w),
             NEW n \in Nat, n = seen[w] + 1
      PROVE  /\ stream' = Append(stream, [task |-> t, retry |-> n])
             /\ \A i \in acked : Task(i) # t
             /\ \A v \in Workers : (pc[v] \in Busy \ {"failRelease"})' => TaskOf(v) # t
             /\ UNCHANGED <<acked, delivered>>
             /\ \A v \in Workers : (pc[v] \in Busy)' => pc[v] \in Busy
  <2>1. /\ pc[w] = "failSend" /\ pc'[w] = "failRelease" /\ Deciding(w)
        /\ \A v \in Workers : v # w => pc'[v] = pc[v]
    BY <1>3 DEF FailSend, Goto, Deciding, OwnerInv, TypeOK
  <2>2. msg[w] \in DOMAIN stream /\ Task(msg[w]) = t /\ msg[w] \notin acked
    BY <1>3, <2>1, HandOK DEF OwnerInv, TaskOf, AckInv, HeldPending
  <2>3. ASSUME NEW i \in acked PROVE Task(i) # t
    <3>1. CASE i > msg[w]
      BY <1>1, <1>3, <2>1, <3>1 DEF LastInv, HeldLast
    <3>2. CASE i < msg[w]
      BY <2>2, <3>2 DEF LastInv, AckedIsLast
    <3>3. i \in Nat /\ msg[w] \in Nat /\ i # msg[w]
      BY <1>1, <2>2, StreamOK DEF OwnerInv
    <3> QED BY <3>1, <3>2, <3>3
  <2>4. ASSUME NEW v \in Workers, (pc[v] \in Busy \ {"failRelease"})' PROVE TaskOf(v) # t
    <3>1. v # w /\ pc[v] \in Busy \ {"failRelease"}
      BY <2>1, <2>4
    <3>2. CASE pc[v] = "drop"
      <4>1. DeadLettered(TaskOf(v))
        BY <3>2 DEF AckInv, DropIsDead
      <4>2. PICK k \in DOMAIN dlq : Task(dlq[k]) = TaskOf(v)
        BY <4>1 DEF DeadLettered
      <4>3. Quiet(Task(dlq[k]))
        BY DEF LastInv, DeadLetterIsFinal
      <4> QED BY <1>3, <2>1, <4>2, <4>3 DEF Quiet
    <3>3. CASE pc[v] # "drop"
      BY <1>3, <2>1, <3>1, <3>3 DEF OwnerInv, SingleOwner, Deciding
    <3> QED BY <3>2, <3>3
  <2>5. UNCHANGED <<acked, delivered>> /\ stream' = Append(stream, [task |-> t, retry |-> n])
    BY <1>3 DEF FailSend
  <2> QED BY <2>1, <2>3, <2>4, <2>5
<1>4. CASE \E t \in Tasks : PublishSend(t)
  BY <1>2, <1>4
<1>5. CASE \E w \in Workers : FailSend(w) /\ MayRetry(w)
  <2>1. PICK w \in Workers : FailSend(w) /\ MayRetry(w)
    BY <1>5
  <2>2. PICK t \in Tasks : t = TaskOf(w)
    BY <2>1, HandOK DEF FailSend, Goto, OwnerInv
  <2>3. PICK n \in Nat : n = seen[w] + 1
    BY DEF OwnerInv, TypeOK
  <2> QED BY <1>3, <2>1, <2>2, <2>3
<1> QED BY <1>4, <1>5, StreamSent, NextIsFaultStep

\* Every step keeps held and acknowledged messages the last of their tasks.
LEMMA StepLast ==
    OwnerInv /\ AckInv /\ LastInv /\ [Next]_vars => HeldLast' /\ AckedIsLast'
<1> SUFFICES ASSUME OwnerInv, AckInv, LastInv, [Next]_vars PROVE HeldLast' /\ AckedIsLast'
  OBVIOUS
<1> USE DEF Busy, ClaimSteps, TrySteps, FailSteps
<1>1. CASE stream' # stream
  <2>1. PICK t \in Tasks, n \in Nat :
              /\ stream' = Append(stream, [task |-> t, retry |-> n])
              /\ \A i \in acked : Task(i) # t
              /\ \A w \in Workers : (pc[w] \in Busy \ {"failRelease"})' => TaskOf(w) # t
              /\ UNCHANGED <<acked, delivered>>
              /\ \A w \in Workers : (pc[w] \in Busy)' => pc[w] \in Busy
    BY <1>1, SenderIsAlone
  <2>2. /\ stream \in Seq(Message) /\ DOMAIN stream = 1..Len(stream) /\ Len(stream) \in Nat
        /\ acked \subseteq DOMAIN stream
    BY DEF OwnerInv, TypeOK
  <2>3. PICK m \in Nat : m = Len(stream) + 1
    BY <2>2
  <2>4. /\ DOMAIN stream' = 1..m /\ Task(m)' = t
        /\ \A i \in 1..m : i = m \/ i \in DOMAIN stream
        /\ \A i \in DOMAIN stream : Task(i)' = Task(i) /\ i < m
    BY <2>1, <2>2, <2>3 DEF Task, Message
  <2>5. AckedIsLast'
    BY <2>1, <2>2, <2>4 DEF LastInv, AckedIsLast
  <2>6. ASSUME NEW w \in Workers, NEW j \in DOMAIN stream', j > msg'[w],
               (pc[w] \in Busy \ {"failRelease"})'
        PROVE  Task(j)' # TaskOf(w)'
    <3>1. (Stays(w) \/ GoesOn(w)) /\ pc[w] \in Busy \ {"failRelease"}
      <4>1. pc[w] \in Busy
        BY <2>1, <2>6
      <4>2. ~ClaimRead(w)
        BY <4>1 DEF ClaimRead, Goto
      <4>3. Stays(w) \/ GoesOn(w)
        BY <2>6, <4>2, Moves
      <4> QED BY <2>6, <4>1, <4>3 DEF Stays, GoesOn, Edges
    <3>2. TaskOf(w)' = TaskOf(w) /\ msg'[w] = msg[w] /\ TaskOf(w) # t
      BY <2>1, <2>6, <3>1, SameTask
    <3> QED BY <2>4, <2>6, <3>1, <3>2 DEF LastInv, HeldLast
  <2> QED BY <2>5, <2>6 DEF HeldLast
<1>2. CASE stream' = stream
  <2>0. DOMAIN stream' = DOMAIN stream /\ \A i : Task(i)' = Task(i)
    BY <1>2 DEF Task
  <2>1. ASSUME NEW w \in Workers, NEW j \in DOMAIN stream, j > msg'[w],
               (pc[w] \in Busy \ {"failRelease"})'
        PROVE  Task(j) # TaskOf(w)'
    <3>1. CASE ClaimRead(w)
      <4>1. Undelivered(j) /\ j # delivered + 1 /\ TaskOf(w)' = Task(delivered + 1)
        BY <2>1, <3>1, ReadsFresh, StreamOK DEF Undelivered, OwnerInv, TypeOK
      <4> QED BY <3>1, <4>1, ReadsFresh DEF OwnerInv, SingleOwner
    <3>2. CASE Stays(w) \/ GoesOn(w)
      <4>1. pc[w] \in Busy \ {"failRelease"}
        BY <2>1, <3>2 DEF Stays, GoesOn, Edges
      <4>2. TaskOf(w)' = TaskOf(w) /\ msg'[w] = msg[w]
        BY <3>2, <4>1, SameTask
      <4> QED BY <2>1, <4>1, <4>2 DEF LastInv, HeldLast
    <3> QED BY <2>1, <3>1, <3>2, Moves
  <2>2. ASSUME NEW i \in acked', NEW j \in DOMAIN stream, i < j PROVE Task(i) # Task(j)
    <3>1. CASE i \in acked
      BY <2>2, <3>1 DEF LastInv, AckedIsLast
    <3>2. CASE i \notin acked
      <4>1. PICK w \in Workers : (ClaimDrop(w) \/ AckCancelled(w) \/ Ack(w)) /\ i = msg[w]
        BY <2>2, <3>2, Acknowledged
      <4>2. pc[w] \in Busy \ {"failRelease"}
        BY <4>1 DEF ClaimDrop, AckCancelled, Ack, Finish, Goto
      <4> QED BY <2>2, <4>1, <4>2 DEF LastInv, HeldLast, TaskOf
    <3> QED BY <3>1, <3>2
  <2> QED BY <2>0, <2>1, <2>2 DEF HeldLast, AckedIsLast
<1> QED BY <1>1, <1>2

\* For any number of tasks, workers and retries, and whoever crashes when, an
\* acknowledged message is the last of its task: ack() never takes a message
\* out of the pending list while the task is to be tried again.
THEOREM AckedCorrect == Spec => []AckedIsLast
<1> DEFINE Inv == LifecycleInv /\ AckInv /\ LastInv
<1>1. Init => Inv
  <2>1. Init => LastInv
    BY DEF Init, LastInv, DeadLetterIsFinal, HeldLast, AckedIsLast
  <2> QED BY <2>1, InitLifecycleInv, InitAckInv
<1>2. Inv /\ [Next]_vars => Inv'
  <2> SUFFICES ASSUME Inv, [Next]_vars PROVE Inv'
    OBVIOUS
  <2>1. OwnerInv /\ [FaultStep]_vars /\ DeadLetterIsFinal
    BY NextIsFaultStep DEF LifecycleInv, LastInv
  <2>2. DeadLetterIsFinal' /\ LifecycleInv'
    BY <2>1, StepDeadLetter, StepLifecycleInv
  <2> QED BY <2>1, <2>2, StepAckInv, StepLast DEF LastInv
<1>3. Inv => AckedIsLast
  BY DEF LastInv
<1> QED BY <1>1, <1>2, <1>3, PTL DEF Spec
=============================================================================
