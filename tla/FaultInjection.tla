--------------------------- MODULE FaultInjection ---------------------------
(***************************************************************************)
(* The fault toggles of a Java service (FaultConfig, FaultToggleController,*)
(* FaultInjector).  The threads that serve the controller's calls and the  *)
(* endpoints' requests share a HashMap and the toggles in it, with no lock:*)
(* a step is what a thread does to one toggle or one map entry.            *)
(*                                                                         *)
(* The map is not resized once it has a table (a service has fewer faults  *)
(* than its threshold of 12), so no entry is missed while it is there.  Of *)
(* two insertions at the same time, one may lose the entry of the other    *)
(* (each allocates the table, or relinks the same bin), or raise           *)
(* ConcurrentModificationException.                                        *)
(***************************************************************************)
EXTENDS Naturals, Sequences

CONSTANTS Faults,     \* fault ids
          SlowFaults, \* those that the endpoints pass to simulateSlowResponse
          Delays,     \* values of delay_ms
          Default,    \* no delay_ms among the parameters: 1000 ms
          NoBody,     \* activation without parameters
          NoFault,
          Operators,  \* threads of the controller
          Requests,   \* threads of the endpoints
          MaxToggles  \* bound on the toggles ever created

ASSUME FaultAssumption == SlowFaults \subseteq Faults /\ MaxToggles \in Nat

VARIABLES toggles,  \* the FaultToggle objects
          entry,    \* the map: the toggle of each fault, 0 for none
          call,     \* the controller call that each operator makes
          request,  \* the request that each endpoint thread serves
          asked,    \* history: what the calls that ended have set
          armed,    \* history: faults activated since the last reset began
          spoiled   \* history: faults whose calls overlapped or whose entry was lost

vars == <<toggles, entry, call, request, asked, armed, spoiled>>

FreshToggle == [active |-> FALSE, delay |-> Default]
NoCall == [kind |-> "none", step |-> "lookup", fault |-> NoFault, delay |-> NoBody,
           toggle |-> 0, known |-> {}]
NoRequest == [step |-> "active", fault |-> NoFault, effect |-> "none", quiet |-> FALSE]

Init ==
    /\ toggles = <<>>
    /\ entry = [f \in Faults |-> 0]
    /\ call = [o \in Operators |-> NoCall]
    /\ request = [r \in Requests |-> NoRequest]
    /\ asked = [f \in Faults |-> FreshToggle]
    /\ armed = {}
    /\ spoiled = {}

Present == {f \in Faults : entry[f] # 0}

-----------------------------------------------------------------------------
(* Calls of the controller.                                                *)

Concerns(o, f) == call[o].kind = "reset" \/ call[o].fault = f
Busy(f) == \E o \in Operators : call[o].kind # "none" /\ Concerns(o, f)

\* A call of a kind begins that concerns the faults `on'; requests for these
\* are not quiet.
Begin(o, c, on) ==
    /\ call[o] = NoCall
    /\ call' = [call EXCEPT ![o] = c]
    /\ spoiled' = spoiled \cup {f \in on : Busy(f) /\ (c.kind # "reset" \/
                                    \E p \in Operators : call[p].fault = f)}
    /\ request' = [r \in Requests |->
                      [request[r] EXCEPT !.quiet = @ /\ request[r].fault \notin on]]

Activate(o, f, d) ==
    /\ Begin(o, [NoCall EXCEPT !.kind = "activate", !.fault = f, !.delay = d], {f})
    /\ armed' = armed \cup {f}
    /\ UNCHANGED <<toggles, entry, asked>>

Deactivate(o, f) ==
    /\ Begin(o, [NoCall EXCEPT !.kind = "deactivate", !.fault = f], {f})
    /\ UNCHANGED <<toggles, entry, asked, armed>>

Activating == {call[o].fault : o \in {p \in Operators : call[p].kind = "activate"}}

\* Seeded fault: resetAll stops before the last toggle.
ResetAllButOne(o) ==
    /\ Begin(o, [NoCall EXCEPT !.kind = "reset", !.step = "visit",
                               !.known = IF Present = {} THEN {}
                                         ELSE Present \ {CHOOSE f \in Present : TRUE}], Faults)
    /\ armed' = Activating
    /\ UNCHANGED <<toggles, entry, asked>>

\* resetAll visits the toggles that are in the map now.
Reset(o) ==
    /\ Begin(o, [NoCall EXCEPT !.kind = "reset", !.step = "visit", !.known = Present], Faults)
    /\ armed' = Activating
    /\ UNCHANGED <<toggles, entry, asked>>

\* computeIfAbsent finds the toggle, or the place where to insert one.
Lookup(o) ==
    /\ call[o].kind \in {"activate", "deactivate"} /\ call[o].step = "lookup"
    /\ LET f == call[o].fault
       IN  call' = [call EXCEPT ![o] =
               IF f \in Present THEN [@ EXCEPT !.step = "set", !.toggle = entry[f]]
               ELSE [@ EXCEPT !.step = "insert", !.known = Present]]
    /\ UNCHANGED <<toggles, entry, request, asked, armed, spoiled>>

\* The entries that were inserted while o was inserting.
Recent(o) == Present \ call[o].known

\* Seeded fault: the new toggle is returned but not stored (getOrDefault).
InsertNothing(o) ==
    /\ call[o].step = "insert"
    /\ Len(toggles) < MaxToggles
    /\ toggles' = Append(toggles, FreshToggle)
    /\ call' = [call EXCEPT ![o].step = "set", ![o].toggle = Len(toggles) + 1]
    /\ UNCHANGED <<entry, request, asked, armed, spoiled>>

Insert(o) ==
    /\ call[o].step = "insert"
    /\ Len(toggles) < MaxToggles
    /\ toggles' = Append(toggles, FreshToggle)
    /\ \E lost \in SUBSET (Recent(o) \ {call[o].fault}) :
        /\ entry' = [f \in Faults |-> IF f = call[o].fault THEN Len(toggles) + 1
                                      ELSE IF f \in lost THEN 0 ELSE entry[f]]
        /\ spoiled' = spoiled \cup lost
    /\ call' = [call EXCEPT ![o].step = "set", ![o].toggle = Len(toggles) + 1]
    /\ UNCHANGED <<request, asked, armed>>

\* ConcurrentModificationException: the call answers 500.
InsertRaises(o) ==
    /\ call[o].step = "insert"
    /\ Recent(o) # {}
    /\ call' = [call EXCEPT ![o] = NoCall]
    /\ UNCHANGED <<toggles, entry, request, asked, armed, spoiled>>

SetActive(o) ==
    /\ call[o].step = "set"
    /\ LET active == call[o].kind = "activate"
           ends == ~active \/ call[o].delay = NoBody
       IN  /\ toggles' = [toggles EXCEPT ![call[o].toggle].active = active]
           /\ call' = [call EXCEPT ![o] = IF ends THEN NoCall ELSE [@ EXCEPT !.step = "parameters"]]
           /\ asked' = IF ends THEN [asked EXCEPT ![call[o].fault].active = active] ELSE asked
    /\ UNCHANGED <<entry, request, armed, spoiled>>

SetParameters(o) ==
    /\ call[o].step = "parameters"
    /\ toggles' = [toggles EXCEPT ![call[o].toggle].delay = call[o].delay]
    /\ call' = [call EXCEPT ![o] = NoCall]
    /\ asked' = [asked EXCEPT ![call[o].fault] = [active |-> TRUE, delay |-> call[o].delay]]
    /\ UNCHANGED <<entry, request, armed, spoiled>>

\* The parameters stay.  An entry that was inserted after the reset began may
\* be visited as well.
VisitToggle(o) ==
    /\ call[o].step = "visit" /\ call[o].known # {}
    /\ \E f \in Present :
        /\ toggles' = [toggles EXCEPT ![entry[f]].active = FALSE]
        /\ call' = [call EXCEPT ![o].known = (@ \cap Present) \ {f}]
    /\ UNCHANGED <<entry, request, asked, armed, spoiled>>

\* When an entry was inserted meanwhile, forEach raises at its end: the call
\* answers 500 with every toggle visited.
ResetDone(o) ==
    /\ call[o].step = "visit" /\ call[o].known \cap Present = {}
    /\ call' = [call EXCEPT ![o] = NoCall]
    /\ asked' = [f \in Faults |-> [asked[f] EXCEPT !.active = FALSE]]
    /\ UNCHANGED <<toggles, entry, request, armed, spoiled>>

-----------------------------------------------------------------------------
(* Requests: isActive and getParameters look the toggle up separately.     *)

IsActive(f) == f \in Present /\ toggles[entry[f]].active

\* simulateException raises at once, simulateSlowResponse reads the delay.
Enter(r, f) ==
    /\ request[r] = NoRequest
    /\ request' = [request EXCEPT ![r] =
           [fault |-> f, quiet |-> ~Busy(f),
            step |-> IF IsActive(f) /\ f \in SlowFaults THEN "parameters" ELSE "done",
            effect |-> IF IsActive(f) /\ f \notin SlowFaults THEN "raised" ELSE "none"]]
    /\ UNCHANGED <<toggles, entry, call, asked, armed, spoiled>>

GetParameters(r) ==
    /\ request[r].step = "parameters"
    /\ LET f == request[r].fault
       IN  request' = [request EXCEPT ![r].step = "done", ![r].effect =
               IF f \in Present THEN toggles[entry[f]].delay ELSE Default]
    /\ UNCHANGED <<toggles, entry, call, asked, armed, spoiled>>

Leave(r) ==
    /\ request[r].step = "done"
    /\ request' = [request EXCEPT ![r] = NoRequest]
    /\ UNCHANGED <<toggles, entry, call, asked, armed, spoiled>>

\* Nobody reads the parameters of a fault that only raises.
Bodies(f) == IF f \in SlowFaults THEN Delays \cup {Default, NoBody} ELSE {NoBody}

Next ==
    \/ \E o \in Operators :
        \/ \E f \in Faults : Deactivate(o, f) \/ \E d \in Bodies(f) : Activate(o, f, d)
        \/ Reset(o) \/ Lookup(o) \/ Insert(o) \/ InsertRaises(o)
        \/ SetActive(o) \/ SetParameters(o) \/ VisitToggle(o) \/ ResetDone(o)
    \/ \E r \in Requests : GetParameters(r) \/ Leave(r) \/ \E f \in Faults : Enter(r, f)

Spec == Init /\ [][Next]_vars

-----------------------------------------------------------------------------
(* Properties.                                                             *)

Resetting == \E o \in Operators : call[o].kind = "reset"

\* A reset is complete: once it has ended, a fault is inactive unless its
\* activation began after the reset did or was under way then, whatever calls
\* ran at the same time.
ResetIsComplete ==
    ~Resetting => \A f \in Faults \ armed : ~IsActive(f)

Expected(f) ==
    IF ~asked[f].active THEN "none"
    ELSE IF f \in SlowFaults THEN asked[f].delay ELSE "raised"

\* A request during which nobody calls for its fault gets what the last call
\* asked for, however the calls for other faults interleave; only a fault that
\* had two calls at a time, or whose first activation met another one, is out.
QuietRequestIsServed ==
    \A r \in Requests :
        request[r].step = "done" /\ request[r].quiet /\ request[r].fault \notin spoiled
            => request[r].effect = Expected(request[r].fault)
=============================================================================
