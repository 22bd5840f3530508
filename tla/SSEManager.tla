---------------------------- MODULE SSEManager -----------------------------
(***************************************************************************)
(* The event streams of sse_manager.py: one asyncio queue per open stream, *)
(* registered under its task.  subscribe, unsubscribe and publish hold the *)
(* asyncio lock but never suspend while they hold it, so on the one event  *)
(* loop each of them is a single step.  A stream suspends while its queue  *)
(* is empty and after every event it hands to its client.                  *)
(*                                                                         *)
(* The module is extended by the modules whose processes publish.          *)
(***************************************************************************)
EXTENDS Naturals, Sequences, FiniteSets

CONSTANTS Tasks,     \* task ids
          Clients,   \* HTTP clients, each with at most one open stream
          NoTask     \* the task of a client without a stream

ASSUME SSEAssumption == NoTask \notin Tasks

VARIABLES queues,    \* queues[t]: the clients whose queues are registered for t
          stream,    \* stream[c]: the task whose event_stream client c runs
          inbox,     \* inbox[c]: the asyncio.Queue of that stream
          handed     \* handed[c]: the event c's stream is suspended on, or "none"

sseVars == <<queues, stream, inbox, handed>>

Terminal == {"complete", "inconclusive", "cancelled", "error"}
Event == Terminal \cup {"started"}

SSEInit ==
    /\ queues = [t \in Tasks |-> {}]
    /\ stream = [c \in Clients |-> NoTask]
    /\ inbox = [c \in Clients |-> <<>>]
    /\ handed = [c \in Clients |-> "none"]

\* Seeded fault: a finished stream is not unregistered.
KeepRegistered(c) == UNCHANGED queues

\* The finally block of event_stream.
Unregister(c) ==
    queues' = [queues EXCEPT ![stream[c]] = @ \ {c}]

Close(c) ==
    /\ Unregister(c)
    /\ stream' = [stream EXCEPT ![c] = NoTask]
    /\ inbox' = [inbox EXCEPT ![c] = <<>>]
    /\ handed' = [handed EXCEPT ![c] = "none"]

Subscribe(c, t) ==
    /\ stream[c] = NoTask
    /\ stream' = [stream EXCEPT ![c] = t]
    /\ queues' = [queues EXCEPT ![t] = @ \cup {c}]
    /\ UNCHANGED <<inbox, handed>>

\* queue.get() returns and the event is yielded to the client.
Hand(c) ==
    /\ handed[c] = "none"
    /\ inbox[c] # <<>>
    /\ handed' = [handed EXCEPT ![c] = Head(inbox[c])]
    /\ inbox' = [inbox EXCEPT ![c] = Tail(inbox[c])]
    /\ UNCHANGED <<queues, stream>>

\* The client took the event: the stream stops after a terminal one.
Resume(c) ==
    /\ handed[c] # "none"
    /\ IF handed[c] \in Terminal
       THEN Close(c)
       ELSE /\ handed' = [handed EXCEPT ![c] = "none"]
            /\ UNCHANGED <<queues, stream, inbox>>

\* The client goes away, at any suspension point of its stream.
Disconnect(c) ==
    /\ stream[c] # NoTask
    /\ Close(c)

\* Seeded fault: only the first registered queue gets the event.
PublishToOne(t, e) ==
    /\ inbox' = [c \in Clients |->
                    IF queues[t] # {} /\ c = CHOOSE d \in queues[t] : TRUE
                    THEN Append(inbox[c], e) ELSE inbox[c]]
    /\ UNCHANGED <<queues, stream, handed>>

\* publish(): a step of the publisher.
Publish(t, e) ==
    /\ inbox' = [c \in Clients |->
                    IF c \in queues[t] THEN Append(inbox[c], e) ELSE inbox[c]]
    /\ UNCHANGED <<queues, stream, handed>>

StreamStep(c) == Hand(c) \/ Resume(c)

SSENext == \E c \in Clients :
    StreamStep(c) \/ Disconnect(c) \/ \E t \in Tasks : Subscribe(c, t)

SSETypeOK ==
    /\ queues \in [Tasks -> SUBSET Clients]
    /\ stream \in [Clients -> Tasks \cup {NoTask}]
    /\ inbox \in [Clients -> Seq(Event)]
    /\ handed \in [Clients -> Event \cup {"none"}]

\* A queue is registered exactly while its stream is open, under the stream's
\* task only: no publish reaches a closed stream and no open stream is missed,
\* in whatever order clients connect, finish and go away.
RegistryIsExact ==
    \A t \in Tasks : queues[t] = {c \in Clients : stream[c] = t}
=============================================================================
