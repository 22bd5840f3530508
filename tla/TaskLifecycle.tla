--------------------------- MODULE TaskLifecycle ----------------------------
(***************************************************************************)
(* What the task queue promises to those who publish tasks: messages are   *)
(* delivered in the order in which they were sent, each to one worker; a   *)
(* task is with one worker at a time, or waits, or is over; it is sent     *)
(* again at most MaxRetries times, under increasing numbers; and how it    *)
(* ended never changes.                                                    *)
(***************************************************************************)
EXTENDS Naturals, Sequences

CONSTANTS Tasks, Workers, MaxRetries

VARIABLES waiting,  \* the messages that no worker has read
          held,     \* the messages that workers may still decide
          fate      \* how each task ended, if it did

vars == <<waiting, held, fate>>

Init ==
    /\ waiting = <<>>
    /\ held = {}
    /\ fate = [t \in Tasks |-> "new"]

Submit(t) ==
    /\ fate[t] = "new"
    /\ fate' = [fate EXCEPT ![t] = "open"]
    /\ waiting' = Append(waiting, [task |-> t, retry |-> 0])
    /\ UNCHANGED held

Deliver(w) ==
    /\ waiting # <<>>
    /\ \A h \in held : h.worker # w
    /\ held' = held \cup {[worker |-> w, message |-> Head(waiting)]}
    /\ waiting' = Tail(waiting)
    /\ UNCHANGED fate

Retry(h) ==
    /\ \E n \in h.message.retry + 1..MaxRetries :
          waiting' = Append(waiting, [task |-> h.message.task, retry |-> n])
    /\ held' = held \ {h}
    /\ UNCHANGED fate

\* The task is over: acknowledged, dead-lettered, or left in the pending list
\* by a worker that died or gave up.
Close(h) ==
    /\ \E f \in {"acked", "dead", "lost"} : fate' = [fate EXCEPT ![h.message.task] = f]
    /\ held' = held \ {h}
    /\ UNCHANGED waiting

Next ==
    \/ \E t \in Tasks : Submit(t)
    \/ \E w \in Workers : Deliver(w)
    \/ \E h \in held : Retry(h) \/ Close(h)

Spec == Init /\ [][Next]_vars
=============================================================================
