--------------------------- MODULE AsyncDiagnosis --------------------------
(***************************************************************************)
(* The asynchronous API: router.py with its InMemoryTaskQueue, the         *)
(* background run of each task (DiagnosisWorker._run_diagnosis) and the    *)
(* event streams.  Everything runs on one event loop, so a step is what a  *)
(* coroutine does between two suspensions; the only one of a run is inside *)
(* agent.diagnose.                                                         *)
(***************************************************************************)
EXTENDS SSEManager

VARIABLES status,     \* TaskState.status, "NONE" without the entry
          cancelled,  \* InMemoryTaskQueue._cancelled
          backlog,    \* InMemoryTaskQueue._queue, which no run ever claims from
          run         \* where _run_async_task(t) stands

queueVars == <<status, cancelled, backlog>>
vars == <<sseVars, queueVars, run>>

Status == {"NONE", "QUEUED", "COMPLETED", "FAILED", "CANCELLED"}
\* done, raised and skipped are the three ways in which a run ends: it
\* completes, agent.diagnose raises, or the cancellation check does.
Ended == {"done", "raised", "skipped"}
Run == {"none", "scheduled", "diagnosing"} \cup Ended

Init ==
    /\ SSEInit
    /\ status = [t \in Tasks |-> "NONE"]
    /\ cancelled = {}
    /\ backlog = <<>>
    /\ run = [t \in Tasks |-> "none"]

\* POST /diagnose/async: publish, and schedule the background run.
Submit(t) ==
    /\ run[t] = "none"
    /\ status' = [status EXCEPT ![t] = "QUEUED"]
    /\ backlog' = Append(backlog, t)
    /\ run' = [run EXCEPT ![t] = "scheduled"]
    /\ UNCHANGED <<sseVars, cancelled>>

\* Seeded fault: the cancel is stored in the state, not in the set the run asks.
CancelMarksOnly(t) ==
    /\ status[t] # "NONE"
    /\ status' = [status EXCEPT ![t] = "CANCELLED"]
    /\ UNCHANGED <<sseVars, cancelled, backlog, run>>

\* POST /tasks/{t}/cancel for a known task.  Any other id enters the set as well,
\* but the server draws the ids of its tasks itself.
Cancel(t) ==
    /\ status[t] # "NONE"
    /\ cancelled' = cancelled \cup {t}
    /\ status' = [status EXCEPT ![t] = "CANCELLED"]
    /\ UNCHANGED <<sseVars, backlog, run>>

\* Seeded fault: the run is driven by its event stream.
BeginWhenHeard(t) ==
    /\ run[t] = "scheduled"
    /\ queues[t] # {}
    /\ run' = [run EXCEPT ![t] = IF t \in cancelled THEN "skipped" ELSE "diagnosing"]
    /\ UNCHANGED <<sseVars, queueVars>>

\* The run starts.  A cancelled task raises CancelledError, which no handler
\* of _run_async_task catches: the run is over and the queue is not told.
Begin(t) ==
    /\ run[t] = "scheduled"
    /\ run' = [run EXCEPT ![t] = IF t \in cancelled THEN "skipped" ELSE "diagnosing"]
    /\ UNCHANGED <<sseVars, queueVars>>

\* Seeded fault: the report's status is stored as the task's.
FinishStoresReport(t, e) ==
    /\ run[t] = "diagnosing"
    /\ run' = [run EXCEPT ![t] = "done"]
    /\ Publish(t, e)
    /\ status' = [status EXCEPT ![t] = e]
    /\ UNCHANGED <<cancelled, backlog>>

\* Seeded fault: an inconclusive run is announced and then run again.
FinishRetries(t, e) ==
    /\ run[t] = "diagnosing"
    /\ run' = [run EXCEPT ![t] = IF e = "inconclusive" THEN "scheduled" ELSE "done"]
    /\ Publish(t, e)
    /\ status' = [status EXCEPT ![t] = IF e = "inconclusive" THEN "QUEUED" ELSE "COMPLETED"]
    /\ UNCHANGED <<cancelled, backlog>>

\* agent.diagnose returns: the terminal event is published and the task is
\* completed without a suspension between the two.
Finish(t, e) ==
    /\ run[t] = "diagnosing"
    /\ run' = [run EXCEPT ![t] = "done"]
    /\ Publish(t, e)
    /\ status' = [status EXCEPT ![t] = "COMPLETED"]
    /\ UNCHANGED <<cancelled, backlog>>

\* agent.diagnose raises: the task fails, and no event is published.
Raise(t) ==
    /\ run[t] = "diagnosing"
    /\ run' = [run EXCEPT ![t] = "raised"]
    /\ status' = [status EXCEPT ![t] = "FAILED"]
    /\ UNCHANGED <<sseVars, cancelled, backlog>>

RunStep(t) ==
    \/ Begin(t)
    \/ \E e \in {"complete", "inconclusive"} : Finish(t, e)
    \/ Raise(t)

Next ==
    \/ \E t \in Tasks : Submit(t) \/ Cancel(t) \/ RunStep(t)
    \/ SSENext /\ UNCHANGED <<queueVars, run>>

\* The event loop runs every coroutine that is ready, and a diagnosis ends:
\* every tool call and every model call has a timeout.  A client reads its
\* stream as long as it stays connected.  Nobody must submit, cancel or go.
Fairness ==
    /\ \A t \in Tasks : WF_vars(RunStep(t))
    /\ \A c \in Clients : WF_vars(StreamStep(c) /\ UNCHANGED <<queueVars, run>>)

Spec == Init /\ [][Next]_vars
FairSpec == Spec /\ Fairness

-----------------------------------------------------------------------------
\* The variables hold what the code can store.
TypeOK ==
    /\ SSETypeOK
    /\ status \in [Tasks -> Status]
    /\ cancelled \subseteq Tasks
    /\ backlog \in Seq(Tasks)
    /\ run \in [Tasks -> Run]

\* Cancelling prevents processing (Test 33 of test_phase5.py) when it comes in
\* time: a task that reads CANCELLED before its run has looked is never
\* diagnosed, nor completed or failed, and reads CANCELLED ever after.  The
\* status that clients read and the set that the run asks are two stores.
EarlyCancelHolds ==
    [][\A t \in Tasks :
          status[t] = "CANCELLED" /\ run[t] \in {"scheduled", "skipped"}
              => status'[t] = "CANCELLED" /\ run'[t] \in {"scheduled", "skipped"}]_vars

\* A stream is given at most one event, it comes from a run that completed,
\* and nothing is left behind it in the queue.
OneTerminalEvent ==
    \A c \in Clients :
        LET pending == inbox[c] \o (IF handed[c] = "none" THEN <<>> ELSE <<handed[c]>>)
        IN  /\ Len(pending) <= 1
            /\ pending # <<>> => stream[c] # NoTask /\ run[stream[c]] = "done"

\* A client that disconnects, or never connects, does not affect execution:
\* every submitted task reaches an end of its run.
EveryRunEnds ==
    \A t \in Tasks : (run[t] = "scheduled") ~> (run[t] \in Ended)

\* A stream that is open when the run of its task is still under way ends by
\* itself when the run completes.
ListenersAreServed ==
    \A c \in Clients, t \in Tasks :
        (stream[c] = t /\ run[t] \in {"scheduled", "diagnosing"})
            ~> (stream[c] # t \/ run[t] \in {"raised", "skipped"})

\* As sse_manager.py:106 has it ("Stop stream on terminal events", which name
\* TASK_CANCELLED and ERROR): a stream of a task that ended stops.
StreamsOfEndedTasksStop ==
    \A c \in Clients, t \in Tasks :
        (stream[c] = t /\ run[t] \in Ended) ~> (stream[c] # t)

\* As the lifecycle of agent-state-diagram.md:126-139 has it, with router.py:215
\* ("Cancel a running diagnosis task") and :219 ("Task not found or already
\* completed"): a task that completed or whose cancel was acknowledged stays so.
EndStatesAreFinal ==
    [][\A t \in Tasks : status[t] \in {"COMPLETED", "CANCELLED"} => status'[t] = status[t]]_vars
=============================================================================
