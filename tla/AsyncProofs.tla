---------------------------- MODULE AsyncProofs -----------------------------
EXTENDS AsyncDiagnosis, SequenceTheorems, TLAPS

(* The steps of the streams, and those of the tasks.                       *)
StreamsStep == SSENext /\ UNCHANGED <<queueVars, run>>
TaskStep(t) == Submit(t) \/ Cancel(t) \/ RunStep(t)

\* A step is one of the API and a run, or one of the streams.
LEMMA NextCases ==
    [Next]_vars <=> (\E t \in Tasks : TaskStep(t)) \/ StreamsStep \/ UNCHANGED vars
BY DEF Next, TaskStep, StreamsStep

\* Closing a stream keeps the types of the streams.
LEMMA CloseTypeOK ==
    ASSUME SSETypeOK, NEW c \in Clients, Close(c)
    PROVE  SSETypeOK'
<1>1. queues' \in [Tasks -> SUBSET Clients]
  BY DEF SSETypeOK, Close, Unregister
<1> QED BY <1>1 DEF SSETypeOK, Close

\* Every step of the streams keeps the types.
LEMMA StreamsTypeOK == TypeOK /\ StreamsStep => TypeOK'
<1> SUFFICES ASSUME TypeOK, StreamsStep PROVE TypeOK'
  OBVIOUS
<1>. PICK c \in Clients : StreamStep(c) \/ Disconnect(c) \/ \E t \in Tasks : Subscribe(c, t)
  BY DEF StreamsStep, SSENext
<1>1. SSETypeOK'
  <2>1. CASE Hand(c)
    BY <2>1 DEF Hand, TypeOK, SSETypeOK, Event, Terminal
  <2>2. CASE Resume(c)
    <3>1. CASE handed[c] \in Terminal
      BY <2>2, <3>1, CloseTypeOK DEF Resume, TypeOK
    <3>2. CASE handed[c] \notin Terminal
      BY <2>2, <3>2 DEF Resume, TypeOK, SSETypeOK
    <3> QED BY <3>1, <3>2
  <2>3. CASE Disconnect(c)
    BY <2>3, CloseTypeOK DEF Disconnect, TypeOK
  <2>4. CASE \E t \in Tasks : Subscribe(c, t)
    BY <2>4 DEF Subscribe, TypeOK, SSETypeOK
  <2> QED BY <2>1, <2>2, <2>3, <2>4 DEF StreamStep
<1> QED BY <1>1 DEF TypeOK, StreamsStep, queueVars

\* Publishing an event keeps the types of the streams.
LEMMA PublishTypeOK ==
    ASSUME SSETypeOK, NEW t \in Tasks, NEW e \in Event, Publish(t, e)
    PROVE  SSETypeOK'
BY DEF SSETypeOK, Publish

\* Every step of the API and a run keeps the types.
LEMMA TaskTypeOK ==
    ASSUME TypeOK, NEW t \in Tasks, TaskStep(t)
    PROVE  TypeOK'
<1>1. CASE Submit(t)
  BY <1>1 DEF Submit, TypeOK, SSETypeOK, sseVars, Status, Run
<1>2. CASE Cancel(t)
  BY <1>2 DEF Cancel, TypeOK, SSETypeOK, sseVars, Status
<1>3. CASE Begin(t)
  BY <1>3 DEF Begin, TypeOK, SSETypeOK, sseVars, queueVars, Run, Ended
<1>4. ASSUME NEW e \in {"complete", "inconclusive"}, Finish(t, e) PROVE TypeOK'
  <2>1. SSETypeOK'
    BY <1>4, PublishTypeOK DEF Finish, TypeOK, Event, Terminal
  <2> QED BY <1>4, <2>1 DEF Finish, TypeOK, Status, Run, Ended
<1>5. CASE Raise(t)
  BY <1>5 DEF Raise, TypeOK, SSETypeOK, sseVars, Status, Run, Ended
<1> QED BY <1>1, <1>2, <1>3, <1>4, <1>5 DEF TaskStep, RunStep

\* Every step keeps the types.
LEMMA StepTypeOK == TypeOK /\ [Next]_vars => TypeOK'
<1> SUFFICES ASSUME TypeOK, [Next]_vars PROVE TypeOK'
  OBVIOUS
<1>1. CASE UNCHANGED vars
  BY <1>1 DEF vars, sseVars, queueVars, TypeOK, SSETypeOK
<1> QED BY <1>1, NextCases, StreamsTypeOK, TaskTypeOK

\* The types hold at the start.
LEMMA InitTypeOK == Init => TypeOK
BY DEF Init, SSEInit, TypeOK, SSETypeOK, Status, Run

\* The variables of the asynchronous API keep their types.
THEOREM AsyncTypeCorrect == Spec => []TypeOK
BY InitTypeOK, StepTypeOK, PTL DEF Spec
-----------------------------------------------------------------------------
(* The registry of streams.                                                *)

LEMMA CloseRegistry ==
    ASSUME TypeOK, RegistryIsExact, NEW c \in Clients, Close(c)
    PROVE  RegistryIsExact'
<1>1. /\ stream' = [stream EXCEPT ![c] = NoTask]
      /\ queues' = [queues EXCEPT ![stream[c]] = @ \ {c}]
      /\ stream \in [Clients -> Tasks \cup {NoTask}]
      /\ queues \in [Tasks -> SUBSET Clients]
  BY DEF Close, Unregister, TypeOK, SSETypeOK
<1>2. ASSUME NEW t \in Tasks PROVE queues'[t] = queues[t] \ {c}
  <2>1. CASE stream[c] = t
    BY <1>1, <2>1
  <2>2. CASE stream[c] # t
    <3>1. c \notin queues[t]
      BY <2>2 DEF RegistryIsExact
    <3> QED BY <1>1, <2>2, <3>1
  <2> QED BY <2>1, <2>2
<1>3. \A d \in Clients : stream'[d] = IF d = c THEN NoTask ELSE stream[d]
  BY <1>1
<1> QED BY <1>2, <1>3, SSEAssumption DEF RegistryIsExact

\* Every step keeps the registry exact.
LEMMA StepRegistry == TypeOK /\ RegistryIsExact /\ [Next]_vars => RegistryIsExact'
<1> SUFFICES ASSUME TypeOK, RegistryIsExact, [Next]_vars PROVE RegistryIsExact'
  OBVIOUS
<1>1. CASE UNCHANGED <<queues, stream>>
  BY <1>1 DEF RegistryIsExact
<1>2. ASSUME NEW t \in Tasks, TaskStep(t) PROVE UNCHANGED <<queues, stream>>
  BY <1>2 DEF TaskStep, Submit, Cancel, RunStep, Begin, Finish, Publish, Raise, sseVars
<1>3. CASE StreamsStep
  <2>. PICK c \in Clients : StreamStep(c) \/ Disconnect(c) \/ \E t \in Tasks : Subscribe(c, t)
    BY <1>3 DEF StreamsStep, SSENext
  <2>1. CASE Close(c)
    BY <2>1, CloseRegistry
  <2>2. ASSUME NEW t \in Tasks, Subscribe(c, t) PROVE RegistryIsExact'
    <3>1. /\ \A d \in Clients : stream'[d] = IF d = c THEN t ELSE stream[d]
          /\ \A u \in Tasks : queues'[u] = IF u = t THEN queues[u] \cup {c} ELSE queues[u]
          /\ stream[c] = NoTask
      BY <2>2 DEF Subscribe, TypeOK, SSETypeOK
    <3>2. ASSUME NEW u \in Tasks PROVE queues'[u] = {d \in Clients : stream'[d] = u}
      <4>1. CASE u = t
        BY <3>1, <4>1 DEF RegistryIsExact
      <4>2. CASE u # t
        <5>1. queues'[u] = queues[u] /\ queues[u] = {d \in Clients : stream[d] = u}
          BY <3>1, <4>2 DEF RegistryIsExact
        <5>2. \A d \in Clients : stream'[d] = u <=> stream[d] = u
          BY <3>1, <4>2, SSEAssumption
        <5> QED BY <5>1, <5>2
      <4> QED BY <4>1, <4>2
    <3> QED BY <3>2 DEF RegistryIsExact
  <2> QED BY <1>1, <2>1, <2>2 DEF StreamStep, Hand, Resume, Disconnect
<1> QED BY <1>1, <1>2, <1>3, NextCases DEF vars, sseVars

\* For any tasks and clients, in whatever order they connect, finish and go, a
\* queue is registered exactly while its stream is open.
THEOREM RegistryCorrect == Spec => []RegistryIsExact
<1>1. Init => TypeOK /\ RegistryIsExact
  <2>1. Init => RegistryIsExact
    BY SSEAssumption DEF Init, SSEInit, RegistryIsExact
  <2> QED BY <2>1, InitTypeOK
<1> QED BY <1>1, StepTypeOK, StepRegistry, PTL DEF Spec
-----------------------------------------------------------------------------
(* What a cancel prevents.                                                 *)

\* A task that reads CANCELLED before its run begins is in the set that the run
\* will ask: nothing but a cancel writes that status, and nothing empties the set.
CancelKnown ==
    \A t \in Tasks : status[t] = "CANCELLED" /\ run[t] = "scheduled" => t \in cancelled

\* What EarlyCancelHolds says of one step.
KeepsCancel ==
    \A t \in Tasks :
        status[t] = "CANCELLED" /\ run[t] \in {"scheduled", "skipped"}
            => status'[t] = "CANCELLED" /\ run'[t] \in {"scheduled", "skipped"}

\* Every step keeps the set up to date, and what was cancelled in time.
LEMMA StepCancel == TypeOK /\ CancelKnown /\ [Next]_vars => CancelKnown' /\ KeepsCancel
<1> SUFFICES ASSUME TypeOK, CancelKnown, [Next]_vars PROVE CancelKnown' /\ KeepsCancel
  OBVIOUS
<1>1. CASE UNCHANGED <<queueVars, run>>
  BY <1>1 DEF queueVars, CancelKnown, KeepsCancel
<1>2. ASSUME NEW t \in Tasks, TaskStep(t) PROVE CancelKnown' /\ KeepsCancel
  <2>1. \A u \in Tasks : u # t => /\ status'[u] = status[u] /\ run'[u] = run[u]
                                  /\ u \in cancelled' <=> u \in cancelled
    BY <1>2 DEF TaskStep, Submit, Cancel, RunStep, Begin, Finish, Raise, queueVars, TypeOK
  <2>2. /\ status'[t] = "CANCELLED" /\ run'[t] = "scheduled" => t \in cancelled'
        /\ status[t] = "CANCELLED" /\ run[t] \in {"scheduled", "skipped"}
              => status'[t] = "CANCELLED" /\ run'[t] \in {"scheduled", "skipped"}
    <3> USE DEF CancelKnown, TypeOK
    <3>1. CASE Submit(t)
      BY <3>1 DEF Submit
    <3>2. CASE Cancel(t)
      BY <3>2 DEF Cancel
    <3>3. CASE Begin(t)
      BY <3>3 DEF Begin, queueVars
    <3>4. CASE \E e \in {"complete", "inconclusive"} : Finish(t, e)
      BY <3>4 DEF Finish
    <3>5. CASE Raise(t)
      BY <3>5 DEF Raise
    <3> QED BY <1>2, <3>1, <3>2, <3>3, <3>4, <3>5 DEF TaskStep, RunStep
  <2> QED BY <2>1, <2>2 DEF CancelKnown, KeepsCancel
<1> QED BY <1>1, <1>2, NextCases DEF StreamsStep, vars

\* For any tasks and clients: a task cancelled before its run looks is never
\* diagnosed, and reads CANCELLED ever after.
THEOREM EarlyCancelCorrect == Spec => EarlyCancelHolds
<1>1. Init => TypeOK /\ CancelKnown
  <2>1. Init => CancelKnown
    BY DEF Init, CancelKnown
  <2> QED BY <2>1, InitTypeOK
<1>2. TypeOK /\ CancelKnown /\ [Next]_vars => KeepsCancel
  BY StepCancel
<1>3. KeepsCancel => [\A t \in Tasks :
          status[t] = "CANCELLED" /\ run[t] \in {"scheduled", "skipped"}
              => status'[t] = "CANCELLED" /\ run'[t] \in {"scheduled", "skipped"}]_vars
  BY DEF KeepsCancel
<1> QED BY <1>1, <1>2, <1>3, StepTypeOK, StepCancel, PTL DEF Spec, EarlyCancelHolds
-----------------------------------------------------------------------------
(* One event per stream.                                                   *)

\* What client c still has to take.
Waits(c) == inbox[c] # <<>> \/ handed[c] # "none"

OneEvent ==
    \A c \in Clients :
        /\ inbox[c] = <<>> \/ (Len(inbox[c]) = 1 /\ handed[c] = "none")
        /\ Waits(c) => stream[c] # NoTask /\ run[stream[c]] = "done"

\* Taking the only event leaves none.
LEMMA OneTaken ==
    ASSUME NEW S, NEW q \in Seq(S), Len(q) = 1
    PROVE  Tail(q) = <<>>
<1>1. Tail(q) \in Seq(S) /\ Len(Tail(q)) = 0
  OBVIOUS
<1> QED BY <1>1, EmptySeq

\* One event in an empty queue.
LEMMA OneAdded ==
    ASSUME NEW S, NEW q \in Seq(S), NEW x \in S, q = <<>>
    PROVE  /\ Append(q, x) # <<>> /\ Len(Append(q, x)) = 1
<1>1. Len(q) = 0
  OBVIOUS
<1>2. Len(Append(q, x)) = Len(q) + 1
  OBVIOUS
<1>3. Len(Append(q, x)) = 1
  BY <1>1, <1>2
<1> QED BY <1>3

\* The invariant implies the property.
LEMMA OneEventIsEnough == TypeOK /\ OneEvent => OneTerminalEvent
<1> SUFFICES ASSUME TypeOK, OneEvent PROVE OneTerminalEvent
  OBVIOUS
<1> DEFINE pending(c) == inbox[c] \o (IF handed[c] = "none" THEN <<>> ELSE <<handed[c]>>)
<1>1. ASSUME NEW c \in Clients
      PROVE  Len(pending(c)) <= 1 /\ (pending(c) # <<>> => Waits(c))
  <2>1. inbox[c] \in Seq(Event)
    BY DEF TypeOK, SSETypeOK
  <2>2. CASE handed[c] = "none"
    <3>1. pending(c) = inbox[c]
      BY <2>1, <2>2
    <3>2. inbox[c] = <<>> \/ Len(inbox[c]) = 1
      BY DEF OneEvent
    <3>3. Len(inbox[c]) <= 1
      <4>1. ASSUME NEW q \in Seq(Event), q = <<>> \/ Len(q) = 1 PROVE Len(q) <= 1
        <5>1. Len(q) = 0 \/ Len(q) = 1
          BY <4>1, EmptySeq, Zenon
        <5>2. \A n : n = 0 \/ n = 1 => n <= 1
          OBVIOUS
        <5> QED BY <5>1, <5>2, Zenon
      <4> QED BY <2>1, <3>2, <4>1
    <3> HIDE DEF pending
    <3> QED BY <3>1, <3>3 DEF Waits
  <2>3. CASE handed[c] # "none"
    <3>1. inbox[c] = <<>>
      BY <2>3 DEF OneEvent
    <3>2. pending(c) = <<handed[c]>>
      BY <2>3, <3>1
    <3>3. Len(<<handed[c]>>) = 1
      OBVIOUS
    <3> HIDE DEF pending
    <3> QED BY <2>3, <3>2, <3>3 DEF Waits
  <2> QED BY <2>2, <2>3
<1>2. \A c \in Clients : Waits(c) => stream[c] # NoTask /\ run[stream[c]] = "done"
  BY DEF OneEvent
<1> QED BY <1>1, <1>2, Zenon DEF OneTerminalEvent

\* A run that ends gives one event to the open streams of its task.
LEMMA FinishOneEvent ==
    ASSUME TypeOK, RegistryIsExact, OneEvent, NEW t \in Tasks, NEW e \in Event, Finish(t, e)
    PROVE  OneEvent'
<1>1. /\ run[t] = "diagnosing" /\ \A u \in Tasks : run'[u] = IF u = t THEN "done" ELSE run[u]
      /\ inbox' = [c \in Clients |-> IF c \in queues[t] THEN Append(inbox[c], e) ELSE inbox[c]]
      /\ UNCHANGED <<stream, handed>>
  BY DEF Finish, Publish, TypeOK
<1>2. ASSUME NEW c \in Clients
      PROVE  /\ inbox'[c] = <<>> \/ (Len(inbox'[c]) = 1 /\ handed'[c] = "none")
             /\ Waits(c)' => stream'[c] # NoTask /\ run'[stream'[c]] = "done"
  <2>0. stream[c] \in Tasks \cup {NoTask}
    BY DEF TypeOK, SSETypeOK
  <2>1. CASE c \in queues[t]
    <3>1. stream[c] = t
      BY <2>1 DEF RegistryIsExact
    <3>2. inbox[c] = <<>> /\ handed[c] = "none"
      BY <1>1, <3>1 DEF OneEvent, Waits
    <3>3. inbox'[c] = Append(inbox[c], e) /\ inbox[c] \in Seq(Event)
      BY <1>1, <2>1 DEF TypeOK, SSETypeOK
    <3>4. inbox'[c] # <<>> /\ Len(inbox'[c]) = 1
      BY <3>2, <3>3, OneAdded
    <3> QED BY <1>1, <3>1, <3>2, <3>4, SSEAssumption
  <2>2. CASE c \notin queues[t]
    <3>1. inbox'[c] = inbox[c]
      BY <1>1, <2>2
    <3> QED BY <1>1, <2>0, <3>1 DEF OneEvent, Waits
  <2> QED BY <2>1, <2>2
<1> QED BY <1>2 DEF OneEvent

\* The steps of the streams add no event.
LEMMA StreamsOneEvent == TypeOK /\ OneEvent /\ StreamsStep => OneEvent'
<1> SUFFICES ASSUME TypeOK, OneEvent, StreamsStep PROVE OneEvent'
  OBVIOUS
<1>. PICK c \in Clients : StreamStep(c) \/ Disconnect(c) \/ \E t \in Tasks : Subscribe(c, t)
  BY DEF StreamsStep, SSENext
<1>1. \A d \in Clients : d # c => /\ inbox'[d] = inbox[d] /\ handed'[d] = handed[d]
                                  /\ stream'[d] = stream[d]
  BY DEF StreamStep, Hand, Resume, Disconnect, Subscribe, Close, TypeOK, SSETypeOK
<1>2. run' = run
  BY DEF StreamsStep
<1>3. /\ inbox'[c] = <<>> \/ (Len(inbox'[c]) = 1 /\ handed'[c] = "none")
      /\ Waits(c)' => stream'[c] # NoTask /\ run'[stream'[c]] = "done"
  <2>1. CASE Close(c)
    BY <2>1 DEF Close, Waits, TypeOK, SSETypeOK
  <2>2. CASE Hand(c)
    <3>1. Len(inbox[c]) = 1 /\ inbox[c] \in Seq(Event)
      BY <2>2 DEF Hand, OneEvent, TypeOK, SSETypeOK
    <3>2. Tail(inbox[c]) = <<>>
      BY <3>1, OneTaken
    <3> QED BY <1>2, <2>2, <3>2 DEF Hand, OneEvent, Waits, TypeOK, SSETypeOK
  <2>3. CASE Resume(c) /\ ~Close(c)
    BY <1>2, <2>3 DEF Resume, OneEvent, Waits, TypeOK, SSETypeOK
  <2>4. CASE \E t \in Tasks : Subscribe(c, t)
    BY <1>2, <2>4 DEF Subscribe, OneEvent, Waits, TypeOK, SSETypeOK
  <2> QED BY <2>1, <2>2, <2>3, <2>4 DEF StreamStep, Disconnect
<1> QED BY <1>1, <1>2, <1>3 DEF OneEvent, Waits

\* Every step keeps it at one event for each stream.
LEMMA StepOneEvent == TypeOK /\ RegistryIsExact /\ OneEvent /\ [Next]_vars => OneEvent'
<1> SUFFICES ASSUME TypeOK, RegistryIsExact, OneEvent, [Next]_vars PROVE OneEvent'
  OBVIOUS
<1>1. ASSUME UNCHANGED sseVars, \A t \in Tasks : run[t] = "done" => run'[t] = "done"
      PROVE  OneEvent'
  BY <1>1 DEF sseVars, OneEvent, Waits, TypeOK, SSETypeOK
<1>2. ASSUME NEW t \in Tasks, TaskStep(t) PROVE OneEvent'
  <2>1. CASE \E e \in {"complete", "inconclusive"} : Finish(t, e)
    BY <2>1, FinishOneEvent DEF Event, Terminal
  <2>2. CASE Submit(t) \/ Cancel(t) \/ Begin(t) \/ Raise(t)
    <3>1. \A u \in Tasks : run[u] = "done" => run'[u] = "done"
      BY <2>2 DEF Submit, Cancel, Begin, Raise, TypeOK
    <3>2. UNCHANGED sseVars
      BY <2>2 DEF Submit, Cancel, Begin, Raise
    <3> QED BY <1>1, <3>1, <3>2
  <2> QED BY <1>2, <2>1, <2>2 DEF TaskStep, RunStep
<1>3. CASE UNCHANGED vars
  BY <1>1, <1>3 DEF vars
<1> QED BY <1>2, <1>3, NextCases, StreamsOneEvent

\* For any tasks and clients, a stream is given at most one event, and only by
\* a run that completed: nothing is left behind a terminal event, so no event is
\* lost when the stream stops after it.
THEOREM OneEventCorrect == Spec => []OneTerminalEvent
<1> DEFINE Inv == TypeOK /\ RegistryIsExact /\ OneEvent
<1>1. Init => Inv
  BY InitTypeOK, SSEAssumption DEF Init, SSEInit, RegistryIsExact, OneEvent, Waits
<1>2. Inv /\ [Next]_vars => Inv'
  BY StepTypeOK, StepRegistry, StepOneEvent
<1>3. Inv => OneTerminalEvent
  BY OneEventIsEnough
<1> QED BY <1>1, <1>2, <1>3, PTL DEF Spec
=============================================================================
