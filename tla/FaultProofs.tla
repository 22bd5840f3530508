---------------------------- MODULE FaultProofs -----------------------------
(***************************************************************************)
(* Proofs about the fault toggles: resets are complete, and requests get   *)
(* what was asked for, for any number of threads, faults and toggles.      *)
(***************************************************************************)
EXTENDS FaultInjection, TLAPS

Body == Delays \cup {Default, NoBody}
Toggle == [active : BOOLEAN, delay : Body]

Call == [kind : {"none", "activate", "deactivate", "reset"},
         step : {"lookup", "insert", "set", "parameters", "visit"},
         fault : Faults \cup {NoFault}, delay : Body, toggle : Nat, known : SUBSET Faults]

Request == [step : {"active", "parameters", "done"}, fault : Faults \cup {NoFault},
            effect : Body \cup {"none", "raised"}, quiet : BOOLEAN]

\* The values that the code can store.
FaultTypes ==
    /\ toggles \in Seq(Toggle)
    /\ entry \in [Faults -> 0..Len(toggles)]
    /\ call \in [Operators -> Call]
    /\ request \in [Requests -> Request]
    /\ asked \in [Faults -> Toggle]
    /\ armed \in SUBSET Faults
    /\ spoiled \in SUBSET Faults

\* o serves a call for the fault f, and it has found f's toggle.
Serves(o, f) == call[o].kind \in {"activate", "deactivate"} /\ call[o].fault = f
Holds(o) == call[o].step \in {"set", "parameters"}

\* A call is at a step of its kind, and what it holds is one of n toggles.
CallOK(c, n) ==
    /\ c.kind = "none" => c = NoCall
    /\ c.kind = "reset" <=> c.step = "visit"
    /\ c.kind \in {"activate", "deactivate"} => c.fault \in Faults
    /\ c.step \in {"set", "parameters"} => c.toggle \in 1..n
    /\ c.step = "parameters" => c.kind = "activate"

CallsOK == \A o \in Operators : CallOK(call[o], Len(toggles))

\* No toggle serves two faults.
Owned ==
    /\ \A f, g \in Faults : entry[f] = entry[g] /\ entry[f] # 0 => f = g
    /\ \A o \in Operators, f \in Faults : Holds(o) /\ entry[f] = call[o].toggle => call[o].fault = f

\* A fault that is active without having been activated since the last reset
\* began is one that a reset still has to visit.
ToBeVisited ==
    /\ Activating \subseteq armed
    /\ \A f \in Faults \ armed : IsActive(f) =>
          \E o \in Operators : call[o].kind = "reset" /\ f \in call[o].known

ResetInv == FaultTypes /\ CallsOK /\ Owned /\ ToBeVisited

\* No two calls concern an unspoiled fault at a time, unless they are resets.
Exclusive(f) ==
    \A o, p \in Operators : o # p /\ Serves(o, f) => call[p].kind # "reset" /\ ~Serves(p, f)

\* The toggle of an unspoiled fault is as the last call left it; a reset or a
\* running activation may be ahead of what is recorded of its end.
AsAsked(f) ==
    /\ entry[f] = 0 => asked[f] = FreshToggle
    /\ entry[f] # 0 =>
          /\ toggles[entry[f]].delay = asked[f].delay
          /\ \/ toggles[entry[f]].active = asked[f].active
             \/ \E o \in Operators : \/ call[o].kind = "reset"
                                     \/ Serves(o, f) /\ call[o].step = "parameters"
    /\ \A o \in Operators :
          /\ call[o].kind = "reset" /\ IsActive(f) => f \in call[o].known
          /\ Serves(o, f) =>
                /\ call[o].step = "insert" => entry[f] = 0
                /\ Holds(o) => call[o].toggle = entry[f]
                /\ call[o].step = "parameters" => IsActive(f)

\* Nobody calls for the fault of a quiet request, and the request sees what was
\* asked for.
Served(r) ==
    request[r].quiet =>
        LET f == request[r].fault
        IN  /\ f \in Faults /\ ~Busy(f)
            /\ f \notin spoiled =>
                  /\ request[r].step = "parameters" => asked[f].active /\ f \in SlowFaults
                  /\ request[r].step = "done" => request[r].effect = Expected(f)

ServedInv ==
    /\ FaultTypes /\ CallsOK /\ Owned
    /\ \A f \in Faults \ spoiled : Exclusive(f) /\ AsAsked(f)
    /\ \A r \in Requests : Served(r)

-----------------------------------------------------------------------------
(* What the variables hold.                                                *)

\* What a new toggle, an idle operator and an idle request are.
LEMMA FreshTypes ==
    /\ FreshToggle \in Toggle /\ NoCall \in Call /\ NoRequest \in Request
    /\ NoCall.kind = "none" /\ NoCall.step = "lookup" /\ NoCall.fault = NoFault
    /\ NoRequest.quiet = FALSE /\ NoRequest.step = "active"
BY DEF FreshToggle, Toggle, Body, NoCall, Call, NoRequest, Request

\* The types hold at the start.
LEMMA TypesInit == Init => FaultTypes /\ CallsOK
<1> SUFFICES ASSUME Init PROVE FaultTypes /\ CallsOK
  OBVIOUS
<1>1. FaultTypes
  BY FreshTypes DEF Init, FaultTypes
<1>2. CallsOK
  BY FreshTypes DEF Init, CallsOK, CallOK
<1> QED BY <1>1, <1>2

\* The call that an operator begins with.
ActivateCall(f, d) == [NoCall EXCEPT !.kind = "activate", !.fault = f, !.delay = d]
DeactivateCall(f) == [NoCall EXCEPT !.kind = "deactivate", !.fault = f]
ResetCall == [NoCall EXCEPT !.kind = "reset", !.step = "visit", !.known = Present]

\* The calls of the controller are calls, at their first step.
LEMMA BegunCalls ==
    /\ \A f \in Faults : \A d \in Bodies(f) :
          /\ ActivateCall(f, d) \in Call
          /\ ActivateCall(f, d).kind = "activate" /\ ActivateCall(f, d).step = "lookup"
          /\ ActivateCall(f, d).fault = f
    /\ \A f \in Faults :
          /\ DeactivateCall(f) \in Call
          /\ DeactivateCall(f).kind = "deactivate" /\ DeactivateCall(f).step = "lookup"
          /\ DeactivateCall(f).fault = f
    /\ /\ ResetCall \in Call
       /\ ResetCall.kind = "reset" /\ ResetCall.step = "visit"
       /\ ResetCall.known = Present /\ ResetCall.fault = NoFault
BY DEF ActivateCall, DeactivateCall, ResetCall, NoCall, Call, Body, Bodies, Present

\* The beginning of a call changes what its operator does, and nothing else
\* but the quiet of requests.
LEMMA BegunOf ==
    ASSUME FaultTypes, CallsOK, NEW o \in Operators, NEW c \in Call, NEW on \in SUBSET Faults,
           Begin(o, c, on)
    PROVE  /\ call[o] = NoCall
           /\ call' \in [Operators -> Call] /\ request' \in [Requests -> Request]
           /\ call'[o] = c /\ \A p \in Operators \ {o} : call'[p] = call[p]
           /\ spoiled \subseteq spoiled' /\ spoiled' \in SUBSET Faults
<1>1. call' = [call EXCEPT ![o] = c] /\ call[o] = NoCall
  BY DEF Begin
<1>2. /\ call' \in [Operators -> Call]
      /\ call'[o] = c /\ \A p \in Operators \ {o} : call'[p] = call[p]
  BY <1>1 DEF FaultTypes
<1>3. request' \in [Requests -> Request]
  <2>1. \A r \in Requests : [request[r] EXCEPT !.quiet = @ /\ request[r].fault \notin on] \in Request
    <3> SUFFICES ASSUME NEW r \in Requests
                 PROVE  [request[r] EXCEPT !.quiet = @ /\ request[r].fault \notin on] \in Request
      OBVIOUS
    <3>1. request[r] \in Request
      BY DEF FaultTypes
    <3>2. (request[r].quiet /\ request[r].fault \notin on) \in BOOLEAN
      OBVIOUS
    <3> DEFINE b == request[r].quiet /\ request[r].fault \notin on
    <3> HIDE DEF b
    <3>3. [request[r] EXCEPT !.quiet = b] \in Request
      BY <3>1, <3>2 DEF Request, b
    <3> QED BY <3>3 DEF b
  <2> QED BY <2>1 DEF Begin
<1>4. spoiled \subseteq spoiled' /\ spoiled' \in SUBSET Faults
  BY DEF Begin, FaultTypes
<1> QED BY <1>1, <1>2, <1>3, <1>4

\* One operator's call changes, and the toggles only grow in number.
LEMMA CallChanged ==
    ASSUME FaultTypes, CallsOK, NEW o \in Operators, NEW c \in Call,
           call' = [call EXCEPT ![o] = c],
           Len(toggles') \in Nat, Len(toggles) <= Len(toggles'), CallOK(c, Len(toggles'))
    PROVE  /\ call' \in [Operators -> Call] /\ CallsOK'
           /\ call'[o] = c /\ \A p \in Operators \ {o} : call'[p] = call[p]
<1>1. /\ call' \in [Operators -> Call]
      /\ call'[o] = c /\ \A p \in Operators \ {o} : call'[p] = call[p]
  BY DEF FaultTypes
<1>2. Len(toggles) \in Nat
  BY DEF FaultTypes
<1>3. ASSUME NEW p \in Operators PROVE CallOK(call'[p], Len(toggles'))
  <2>1. CASE p = o
    BY <1>1, <2>1
  <2>2. CASE p # o
    <3>1. CallOK(call[p], Len(toggles)) /\ call'[p] = call[p]
      BY <1>1, <2>2 DEF CallsOK
    <3> QED BY <1>2, <3>1 DEF CallOK
  <2> QED BY <2>1, <2>2
<1> QED BY <1>1, <1>3 DEF CallsOK

\* The beginning of a call keeps the types.
LEMMA TypesBegin ==
    ASSUME FaultTypes, CallsOK, NEW o \in Operators, NEW c \in Call, NEW on \in SUBSET Faults,
           Begin(o, c, on), CallOK(c, Len(toggles)), armed' \in SUBSET Faults,
           UNCHANGED <<toggles, entry, asked>>
    PROVE  FaultTypes' /\ CallsOK'
<1>1. /\ call' \in [Operators -> Call] /\ request' \in [Requests -> Request]
      /\ spoiled' \in SUBSET Faults
  BY BegunOf
<1>2. /\ toggles' = toggles /\ call' = [call EXCEPT ![o] = c]
      /\ Len(toggles') \in Nat /\ Len(toggles) <= Len(toggles') /\ CallOK(c, Len(toggles'))
  BY DEF FaultTypes, Begin
<1>3. CallsOK'
  BY <1>2, CallChanged
<1> QED BY <1>1, <1>2, <1>3 DEF FaultTypes

\* What the calls of the controller that begin have in common.
LEMMA BeginCases ==
    ASSUME FaultTypes, CallsOK, NEW o \in Operators,
           \/ \E f \in Faults : Deactivate(o, f) \/ \E d \in Bodies(f) : Activate(o, f, d)
           \/ Reset(o)
    PROVE  \E c \in Call, on \in SUBSET Faults :
              /\ Begin(o, c, on) /\ CallOK(c, Len(toggles))
              /\ c.step \in {"lookup", "visit"} /\ c.kind # "none"
              /\ \/ /\ c.kind = "reset" /\ c.known = Present /\ on = Faults /\ armed' = Activating
                 \/ /\ c.kind = "activate" /\ on = {c.fault} /\ armed' = armed \cup {c.fault}
                 \/ /\ c.kind = "deactivate" /\ on = {c.fault} /\ armed' = armed
              /\ armed' \in SUBSET Faults
              /\ UNCHANGED <<toggles, entry, asked>>
<1>1. ASSUME NEW f \in Faults, Deactivate(o, f)
      PROVE  /\ Begin(o, DeactivateCall(f), {f}) /\ armed' = armed
             /\ CallOK(DeactivateCall(f), Len(toggles)) /\ UNCHANGED <<toggles, entry, asked>>
  <2>1. Begin(o, DeactivateCall(f), {f}) /\ armed' = armed /\ UNCHANGED <<toggles, entry, asked>>
    BY <1>1 DEF Deactivate, DeactivateCall
  <2> QED BY <2>1, BegunCalls DEF CallOK
<1>2. ASSUME NEW f \in Faults, NEW d \in Bodies(f), Activate(o, f, d)
      PROVE  /\ Begin(o, ActivateCall(f, d), {f}) /\ armed' = armed \cup {f}
             /\ CallOK(ActivateCall(f, d), Len(toggles)) /\ UNCHANGED <<toggles, entry, asked>>
  <2>1. /\ Begin(o, ActivateCall(f, d), {f}) /\ armed' = armed \cup {f}
        /\ UNCHANGED <<toggles, entry, asked>>
    BY <1>2 DEF Activate, ActivateCall
  <2> QED BY <2>1, BegunCalls DEF CallOK
<1>3. ASSUME Reset(o)
      PROVE  /\ Begin(o, ResetCall, Faults) /\ armed' = Activating /\ armed' \in SUBSET Faults
             /\ CallOK(ResetCall, Len(toggles)) /\ UNCHANGED <<toggles, entry, asked>>
  <2>1. /\ Begin(o, ResetCall, Faults) /\ armed' = Activating
        /\ UNCHANGED <<toggles, entry, asked>>
    BY <1>3 DEF Reset, ResetCall
  <2>2. Activating \subseteq Faults
    BY DEF Activating, CallsOK, CallOK
  <2> QED BY <2>1, <2>2, BegunCalls DEF CallOK
<1>4. armed \in SUBSET Faults
  BY DEF FaultTypes
<1>5. CASE \E f \in Faults : Deactivate(o, f)
  <2>1. PICK f \in Faults : Deactivate(o, f)
    BY <1>5
  <2> DEFINE c == DeactivateCall(f)
  <2>2. c \in Call /\ c.kind = "deactivate" /\ c.step = "lookup" /\ c.fault = f
    BY BegunCalls
  <2>3. /\ Begin(o, c, {f}) /\ armed' = armed
        /\ CallOK(c, Len(toggles)) /\ UNCHANGED <<toggles, entry, asked>>
    BY <1>1, <2>1
  <2> HIDE DEF c
  <2> QED BY <1>4, <2>2, <2>3
<1>6. CASE \E f \in Faults : \E d \in Bodies(f) : Activate(o, f, d)
  <2>1. PICK f \in Faults : \E d \in Bodies(f) : Activate(o, f, d)
    BY <1>6
  <2>2. PICK d \in Bodies(f) : Activate(o, f, d)
    BY <2>1
  <2> DEFINE c == ActivateCall(f, d)
  <2>3. c \in Call /\ c.kind = "activate" /\ c.step = "lookup" /\ c.fault = f
    BY BegunCalls
  <2>4. /\ Begin(o, c, {f}) /\ armed' = armed \cup {f}
        /\ CallOK(c, Len(toggles)) /\ UNCHANGED <<toggles, entry, asked>>
    BY <1>2, <2>2
  <2> HIDE DEF c
  <2> QED BY <1>4, <2>3, <2>4
<1>7. CASE Reset(o)
  <2> DEFINE c == ResetCall
  <2>1. c \in Call /\ c.kind = "reset" /\ c.step = "visit" /\ c.known = Present
    BY BegunCalls
  <2>2. /\ Begin(o, c, Faults) /\ armed' = Activating /\ armed' \in SUBSET Faults
        /\ CallOK(c, Len(toggles)) /\ UNCHANGED <<toggles, entry, asked>>
    BY <1>3, <1>7
  <2> HIDE DEF c
  <2> QED BY <2>1, <2>2
<1> QED BY <1>5, <1>6, <1>7

\* What the later steps of a call do to it and to the toggles.
LEMMA LookupOf ==
    ASSUME FaultTypes, CallsOK, NEW o \in Operators, Lookup(o)
    PROVE  LET f == call[o].fault
           IN  /\ call[o].kind \in {"activate", "deactivate"} /\ f \in Faults
               /\ \E c \in Call :
                     /\ call' = [call EXCEPT ![o] = c] /\ CallOK(c, Len(toggles))
                     /\ c.kind = call[o].kind /\ c.fault = f
                     /\ \/ f \in Present /\ c.step = "set" /\ c.toggle = entry[f]
                        \/ f \notin Present /\ c.step = "insert"
<1> DEFINE f == call[o].fault
           found == [call[o] EXCEPT !.step = "set", !.toggle = entry[f]]
           new == [call[o] EXCEPT !.step = "insert", !.known = Present]
<1>1. call[o] \in Call /\ CallOK(call[o], Len(toggles))
  BY DEF FaultTypes, CallsOK
<1>2. call[o].kind \in {"activate", "deactivate"} /\ f \in Faults
  BY <1>1 DEF Lookup, CallOK
<1>3. /\ f \in Present => call' = [call EXCEPT ![o] = found]
      /\ f \notin Present => call' = [call EXCEPT ![o] = new]
  BY DEF Lookup
<1>4. entry[f] \in 0..Len(toggles) /\ Len(toggles) \in Nat
  BY <1>2 DEF FaultTypes
<1>5. CASE f \in Present
  <2>1. entry[f] \in 1..Len(toggles)
    BY <1>4, <1>5 DEF Present
  <2>2. /\ found \in Call /\ found.kind = call[o].kind /\ found.fault = f
        /\ found.step = "set" /\ found.toggle = entry[f]
    <3> DEFINE n == entry[f]
    <3>1. n \in Nat
      BY <1>4
    <3> HIDE DEF n
    <3>2. LET x == [call[o] EXCEPT !.step = "set", !.toggle = n]
          IN  /\ x \in Call /\ x.kind = call[o].kind /\ x.fault = call[o].fault
              /\ x.step = "set" /\ x.toggle = n
      BY <1>1, <3>1 DEF Call
    <3> QED BY <3>2 DEF n
  <2>3. CallOK(found, Len(toggles))
    BY <1>2, <2>1, <2>2 DEF CallOK
  <2> QED BY <1>2, <1>3, <1>5, <2>2, <2>3
<1>6. CASE f \notin Present
  <2>1. /\ new \in Call /\ new.kind = call[o].kind /\ new.fault = f /\ new.step = "insert"
    BY <1>1 DEF Call, Present
  <2>2. CallOK(new, Len(toggles))
    BY <1>2, <2>1 DEF CallOK
  <2> QED BY <1>2, <1>3, <1>6, <2>1, <2>2
<1> QED BY <1>5, <1>6

\* The new toggle gets a new number, and the entries that are lost are known.
LEMMA InsertOf ==
    ASSUME FaultTypes, CallsOK, NEW o \in Operators, Insert(o)
    PROVE  LET n == Len(toggles) + 1
               f == call[o].fault
           IN  /\ call[o].kind \in {"activate", "deactivate"} /\ f \in Faults
               /\ toggles' \in Seq(Toggle) /\ Len(toggles') = n /\ n \in Nat
               /\ toggles'[n] = FreshToggle /\ \A i \in 1..Len(toggles) : toggles'[i] = toggles[i]
               /\ entry' \in [Faults -> 0..n] /\ entry'[f] = n
               /\ \A g \in Faults \ {f} : \/ entry'[g] = entry[g]
                                          \/ entry'[g] = 0 /\ g \in spoiled'
               /\ spoiled \subseteq spoiled' /\ spoiled' \in SUBSET Faults
               /\ \E c \in Call :
                     /\ call' = [call EXCEPT ![o] = c] /\ CallOK(c, n)
                     /\ c.kind = call[o].kind /\ c.fault = f
                     /\ c.step = "set" /\ c.toggle = n
<1> DEFINE n == Len(toggles) + 1
           f == call[o].fault
           c == [call[o] EXCEPT !.step = "set", !.toggle = n]
<1>1. call[o] \in Call /\ CallOK(call[o], Len(toggles))
  BY DEF FaultTypes, CallsOK
<1>2. call[o].kind \in {"activate", "deactivate"} /\ f \in Faults
  <2>1. call[o].step = "insert"
    BY DEF Insert
  <2>2. call[o].kind # "none" /\ call[o].kind # "reset"
    BY <1>1, <2>1, FreshTypes DEF CallOK
  <2> QED BY <1>1, <2>2 DEF Call, CallOK
<1>3. Len(toggles) \in Nat /\ n \in Nat /\ toggles \in Seq(Toggle)
  BY DEF FaultTypes
<1>4. /\ toggles' \in Seq(Toggle) /\ Len(toggles') = n
      /\ toggles'[n] = FreshToggle /\ \A i \in 1..Len(toggles) : toggles'[i] = toggles[i]
  BY <1>3, FreshTypes DEF Insert
<1>5. PICK lost \in SUBSET (Recent(o) \ {call[o].fault}) :
        /\ entry' = [g \in Faults |-> IF g = call[o].fault THEN Len(toggles) + 1
                                      ELSE IF g \in lost THEN 0 ELSE entry[g]]
        /\ spoiled' = spoiled \cup lost
  BY DEF Insert
<1>6. lost \subseteq Faults
  BY <1>5 DEF Recent, Present
<1>7. /\ entry' \in [Faults -> 0..n] /\ entry'[f] = n
      /\ \A g \in Faults \ {f} : \/ entry'[g] = entry[g]
                                 \/ entry'[g] = 0 /\ g \in spoiled'
  <2>1. entry' = [g \in Faults |-> IF g = f THEN n ELSE IF g \in lost THEN 0 ELSE entry[g]]
    BY <1>5
  <2>2. \A g \in Faults : entry[g] \in 0..n
    BY <1>3 DEF FaultTypes
  <2> HIDE DEF n, f
  <2>3. 0 \in 0..n /\ n \in 0..n
    BY <1>3
  <2> QED BY <1>2, <1>5, <2>1, <2>2, <2>3
<1>8. spoiled \subseteq spoiled' /\ spoiled' \in SUBSET Faults
  BY <1>5, <1>6 DEF FaultTypes
<1>9. call' = [call EXCEPT ![o] = c]
  BY DEF Insert
<1>10. c \in Call /\ c.kind = call[o].kind /\ c.fault = f /\ c.step = "set" /\ c.toggle = n
  BY <1>1, <1>3 DEF Call
<1>11. CallOK(c, n)
  <2> HIDE DEF c
  <2>1. n \in 1..n
    BY <1>3
  <2> QED BY <1>2, <1>10, <2>1 DEF CallOK
<1> HIDE DEF c
<1> QED BY <1>2, <1>3, <1>4, <1>7, <1>8, <1>9, <1>10, <1>11

\* A call that ends.
LEMMA EndedCall == \A n \in Nat : CallOK(NoCall, n)
BY FreshTypes DEF CallOK

\* setActive changes one toggle, and it is recorded when it ends the call.
LEMMA SetActiveOf ==
    ASSUME FaultTypes, CallsOK, NEW o \in Operators, SetActive(o)
    PROVE  LET t == call[o].toggle
               f == call[o].fault
               active == call[o].kind = "activate"
           IN  /\ call[o].kind \in {"activate", "deactivate"} /\ f \in Faults
               /\ t \in 1..Len(toggles)
               /\ toggles' \in Seq(Toggle) /\ Len(toggles') = Len(toggles)
               /\ toggles'[t].active = active /\ toggles'[t].delay = toggles[t].delay
               /\ \A i \in 1..Len(toggles) : i # t => toggles'[i] = toggles[i]
               /\ asked' \in [Faults -> Toggle]
               /\ \A g \in Faults \ {f} : asked'[g] = asked[g]
               /\ \/ /\ call' = [call EXCEPT ![o] = NoCall]
                     /\ asked'[f].active = active /\ asked'[f].delay = asked[f].delay
                  \/ /\ active /\ asked' = asked
                     /\ \E c \in Call :
                           /\ call' = [call EXCEPT ![o] = c] /\ CallOK(c, Len(toggles))
                           /\ c.kind = "activate" /\ c.fault = f
                           /\ c.step = "parameters" /\ c.toggle = t
<1> DEFINE t == call[o].toggle
           f == call[o].fault
           active == call[o].kind = "activate"
           ends == ~active \/ call[o].delay = NoBody
           c == [call[o] EXCEPT !.step = "parameters"]
<1>1. call[o] \in Call /\ CallOK(call[o], Len(toggles)) /\ call[o].step = "set"
  BY DEF FaultTypes, CallsOK, SetActive
<1>2. call[o].kind \in {"activate", "deactivate"} /\ f \in Faults /\ t \in 1..Len(toggles)
  <2>1. call[o].kind # "none" /\ call[o].kind # "reset"
    BY <1>1, FreshTypes DEF CallOK
  <2> QED BY <1>1, <2>1 DEF Call, CallOK
<1>3. toggles' = [toggles EXCEPT ![t].active = active]
  BY DEF SetActive
<1>4. toggles \in Seq(Toggle) /\ toggles[t] \in Toggle /\ active \in BOOLEAN
  BY <1>2 DEF FaultTypes
<1>5. /\ [toggles[t] EXCEPT !.active = active] \in Toggle
      /\ [toggles[t] EXCEPT !.active = active].active = active
      /\ [toggles[t] EXCEPT !.active = active].delay = toggles[t].delay
  <2> HIDE DEF active
  <2> QED BY <1>4 DEF Toggle
<1>6. /\ toggles' \in Seq(Toggle) /\ Len(toggles') = Len(toggles)
      /\ toggles'[t] = [toggles[t] EXCEPT !.active = active]
      /\ \A i \in 1..Len(toggles) : i # t => toggles'[i] = toggles[i]
  <2> DEFINE x == [toggles[t] EXCEPT !.active = active]
  <2>1. toggles' = [toggles EXCEPT ![t] = x]
    BY <1>3
  <2>2. x \in Toggle
    BY <1>5
  <2> HIDE DEF x, t
  <2> QED BY <1>2, <1>4, <2>1, <2>2 DEF x
<1>7. asked[f] \in Toggle /\ asked \in [Faults -> Toggle]
  BY <1>2 DEF FaultTypes
<1>8. CASE ends
  <2>1. call' = [call EXCEPT ![o] = NoCall] /\ asked' = [asked EXCEPT ![f].active = active]
    BY <1>8 DEF SetActive
  <2> DEFINE x == [asked[f] EXCEPT !.active = active]
  <2>2. x \in Toggle /\ x.active = active /\ x.delay = asked[f].delay
    <3> HIDE DEF active
    <3> QED BY <1>4, <1>7 DEF Toggle
  <2>3. asked' = [asked EXCEPT ![f] = x]
    BY <2>1
  <2> HIDE DEF x
  <2>4. /\ asked' \in [Faults -> Toggle] /\ asked'[f] = x
        /\ \A g \in Faults \ {f} : asked'[g] = asked[g]
    BY <1>2, <1>7, <2>2, <2>3
  <2> QED BY <1>2, <1>5, <1>6, <2>1, <2>2, <2>4
<1>9. CASE ~ends
  <2>1. call' = [call EXCEPT ![o] = c] /\ asked' = asked /\ active
    BY <1>9 DEF SetActive
  <2>2. /\ c \in Call /\ c.kind = "activate" /\ c.fault = f
        /\ c.step = "parameters" /\ c.toggle = t
    BY <1>1, <2>1 DEF Call
  <2>3. CallOK(c, Len(toggles))
    <3> HIDE DEF c
    <3> QED BY <1>2, <2>2 DEF CallOK
  <2> HIDE DEF c
  <2> QED BY <1>2, <1>5, <1>6, <1>7, <2>1, <2>2, <2>3
<1> QED BY <1>8, <1>9

\* setParameters changes one toggle and ends the call.
LEMMA SetParametersOf ==
    ASSUME FaultTypes, CallsOK, NEW o \in Operators, SetParameters(o)
    PROVE  LET t == call[o].toggle
               f == call[o].fault
           IN  /\ call[o].kind = "activate" /\ f \in Faults
               /\ t \in 1..Len(toggles)
               /\ toggles' \in Seq(Toggle) /\ Len(toggles') = Len(toggles)
               /\ toggles'[t].active = toggles[t].active /\ toggles'[t].delay = call[o].delay
               /\ \A i \in 1..Len(toggles) : i # t => toggles'[i] = toggles[i]
               /\ asked' \in [Faults -> Toggle]
               /\ \A g \in Faults \ {f} : asked'[g] = asked[g]
               /\ asked'[f].active = TRUE /\ asked'[f].delay = call[o].delay
               /\ call' = [call EXCEPT ![o] = NoCall]
<1> DEFINE t == call[o].toggle
           f == call[o].fault
           x == [toggles[t] EXCEPT !.delay = call[o].delay]
           y == [active |-> TRUE, delay |-> call[o].delay]
<1>1. call[o] \in Call /\ CallOK(call[o], Len(toggles)) /\ call[o].step = "parameters"
  BY DEF FaultTypes, CallsOK, SetParameters
<1>2. /\ call[o].kind = "activate" /\ f \in Faults /\ t \in 1..Len(toggles)
      /\ call[o].delay \in Body
  BY <1>1 DEF CallOK, Call
<1>3. toggles \in Seq(Toggle) /\ toggles[t] \in Toggle /\ asked \in [Faults -> Toggle]
  BY <1>2 DEF FaultTypes
<1>4. x \in Toggle /\ x.delay = call[o].delay /\ x.active = toggles[t].active
  BY <1>2, <1>3 DEF Toggle
<1>5. y \in Toggle /\ y.active = TRUE /\ y.delay = call[o].delay
  BY <1>2 DEF Toggle
<1>6. /\ toggles' = [toggles EXCEPT ![t] = x] /\ asked' = [asked EXCEPT ![f] = y]
      /\ call' = [call EXCEPT ![o] = NoCall]
  BY DEF SetParameters
<1> HIDE DEF x, y, t, f
<1>7. /\ toggles' \in Seq(Toggle) /\ Len(toggles') = Len(toggles) /\ toggles'[t] = x
      /\ \A i \in 1..Len(toggles) : i # t => toggles'[i] = toggles[i]
  BY <1>2, <1>3, <1>4, <1>6
<1>8. /\ asked' \in [Faults -> Toggle] /\ asked'[f] = y
      /\ \A g \in Faults \ {f} : asked'[g] = asked[g]
  BY <1>2, <1>3, <1>5, <1>6
<1> QED BY <1>2, <1>4, <1>5, <1>6, <1>7, <1>8 DEF t, f

\* A visit of a reset changes the toggle of one fault that is in the map.
LEMMA VisitOf ==
    ASSUME FaultTypes, CallsOK, NEW o \in Operators, VisitToggle(o)
    PROVE  \E f \in Present :
              LET t == entry[f]
              IN  /\ call[o].kind = "reset" /\ t \in 1..Len(toggles)
                  /\ toggles' \in Seq(Toggle) /\ Len(toggles') = Len(toggles)
                  /\ toggles'[t].active = FALSE /\ toggles'[t].delay = toggles[t].delay
                  /\ \A i \in 1..Len(toggles) : i # t => toggles'[i] = toggles[i]
                  /\ \E c \in Call :
                        /\ call' = [call EXCEPT ![o] = c] /\ CallOK(c, Len(toggles))
                        /\ c.kind = "reset" /\ c.fault = call[o].fault /\ c.step = "visit"
                        /\ c.known = (call[o].known \cap Present) \ {f}
<1>1. call[o] \in Call /\ CallOK(call[o], Len(toggles)) /\ call[o].step = "visit"
  BY DEF FaultTypes, CallsOK, VisitToggle
<1>2. call[o].kind = "reset"
  BY <1>1 DEF CallOK
<1>3. PICK f \in Present :
        /\ toggles' = [toggles EXCEPT ![entry[f]].active = FALSE]
        /\ call' = [call EXCEPT ![o].known = (@ \cap Present) \ {f}]
  BY DEF VisitToggle
<1> DEFINE t == entry[f]
           x == [toggles[t] EXCEPT !.active = FALSE]
           k == (call[o].known \cap Present) \ {f}
           c == [call[o] EXCEPT !.known = k]
<1>4. t \in 1..Len(toggles) /\ toggles \in Seq(Toggle) /\ toggles[t] \in Toggle
  <2>1. f \in Faults /\ t # 0
    BY DEF Present
  <2>2. t \in 0..Len(toggles) /\ toggles \in Seq(Toggle) /\ Len(toggles) \in Nat
    BY <2>1 DEF FaultTypes
  <2> HIDE DEF t
  <2>3. t \in 1..Len(toggles)
    BY <2>1, <2>2
  <2> QED BY <2>2, <2>3
<1>5. toggles' = [toggles EXCEPT ![t] = x] /\ call' = [call EXCEPT ![o] = c]
  BY <1>3
<1>6. x \in Toggle /\ x.active = FALSE /\ x.delay = toggles[t].delay
  BY <1>4 DEF Toggle
<1>7. k \in SUBSET Faults
  BY <1>1 DEF Call, Present
<1>8. /\ c \in Call /\ c.kind = "reset" /\ c.fault = call[o].fault /\ c.step = "visit"
      /\ c.known = k
  <2> HIDE DEF k
  <2> QED BY <1>1, <1>2, <1>7 DEF Call
<1>9. CallOK(c, Len(toggles))
  <2> HIDE DEF c, k
  <2> QED BY <1>8 DEF CallOK
<1>10. /\ toggles' \in Seq(Toggle) /\ Len(toggles') = Len(toggles) /\ toggles'[t] = x
       /\ \A i \in 1..Len(toggles) : i # t => toggles'[i] = toggles[i]
  <2> HIDE DEF x, c, k, t
  <2> QED BY <1>4, <1>5, <1>6
<1> HIDE DEF x, c
<1> QED BY <1>2, <1>4, <1>5, <1>6, <1>8, <1>9, <1>10

\* The end of a reset is recorded for every fault.
LEMMA ResetDoneOf ==
    ASSUME FaultTypes, CallsOK, NEW o \in Operators, ResetDone(o)
    PROVE  /\ call[o].kind = "reset" /\ call[o].known \cap Present = {}
           /\ call' = [call EXCEPT ![o] = NoCall]
           /\ asked' \in [Faults -> Toggle]
           /\ \A g \in Faults : asked'[g].active = FALSE /\ asked'[g].delay = asked[g].delay
<1>1. call[o].kind = "reset"
  BY DEF CallsOK, CallOK, ResetDone
<1>2. \A g \in Faults : /\ [asked[g] EXCEPT !.active = FALSE] \in Toggle
                        /\ [asked[g] EXCEPT !.active = FALSE].active = FALSE
                        /\ [asked[g] EXCEPT !.active = FALSE].delay = asked[g].delay
  <2> SUFFICES ASSUME NEW g \in Faults
               PROVE  /\ [asked[g] EXCEPT !.active = FALSE] \in Toggle
                      /\ [asked[g] EXCEPT !.active = FALSE].active = FALSE
                      /\ [asked[g] EXCEPT !.active = FALSE].delay = asked[g].delay
    OBVIOUS
  <2>1. asked[g] \in Toggle
    BY DEF FaultTypes
  <2> QED BY <2>1 DEF Toggle
<1>3. asked' = [g \in Faults |-> [asked[g] EXCEPT !.active = FALSE]]
  BY DEF ResetDone
<1> QED BY <1>1, <1>2, <1>3 DEF ResetDone

\* A request looks a toggle up, and changes nothing but itself.
LEMMA EntryOf ==
    ASSUME FaultTypes, NEW f \in Faults
    PROVE  /\ f \in Present <=> entry[f] \in 1..Len(toggles)
           /\ f \in Present => toggles[entry[f]] \in Toggle
           /\ IsActive(f) \in BOOLEAN
<1>1. entry[f] \in 0..Len(toggles) /\ toggles \in Seq(Toggle) /\ Len(toggles) \in Nat
  BY DEF FaultTypes
<1> DEFINE t == entry[f]
<1> HIDE DEF t
<1>2. t # 0 <=> t \in 1..Len(toggles)
  BY <1>1 DEF t
<1>3. f \in Present <=> t # 0
  BY DEF Present, t
<1>4. t \in 1..Len(toggles) => toggles[t] \in Toggle
  BY <1>1
<1> QED BY <1>2, <1>3, <1>4 DEF t, IsActive, Toggle

\* A request stays one.
LEMMA RequestTypes ==
    ASSUME FaultTypes, NEW r \in Requests,
           (\E f \in Faults : Enter(r, f)) \/ GetParameters(r) \/ Leave(r)
    PROVE  request' \in [Requests -> Request]
<1>1. request \in [Requests -> Request] /\ request[r] \in Request
  BY DEF FaultTypes
<1>2. ASSUME NEW f \in Faults, Enter(r, f) PROVE request' \in [Requests -> Request]
  <2> DEFINE s == IF IsActive(f) /\ f \in SlowFaults THEN "parameters" ELSE "done"
             e == IF IsActive(f) /\ f \notin SlowFaults THEN "raised" ELSE "none"
             q == ~Busy(f)
  <2>1. s \in {"active", "parameters", "done"} /\ e \in Body \cup {"none", "raised"}
    OBVIOUS
  <2>2. q \in BOOLEAN
    BY DEF Busy
  <2>3. request' = [request EXCEPT ![r] = [fault |-> f, quiet |-> q, step |-> s, effect |-> e]]
    BY <1>2 DEF Enter
  <2> HIDE DEF s, e, q
  <2>4. [fault |-> f, quiet |-> q, step |-> s, effect |-> e] \in Request
    BY <2>1, <2>2 DEF Request
  <2> QED BY <1>1, <2>3, <2>4
<1>3. CASE GetParameters(r)
  <2> DEFINE f == request[r].fault
             e == IF f \in Present THEN toggles[entry[f]].delay ELSE Default
  <2>1. e \in Body
    <3>1. CASE f \in Present
      <4>1. f \in Faults
        BY <3>1 DEF Present
      <4>2. toggles[entry[f]] \in Toggle
        BY <3>1, <4>1, EntryOf
      <4> QED BY <3>1, <4>2 DEF Toggle
    <3>2. CASE f \notin Present
      BY <3>2 DEF Body
    <3> QED BY <3>1, <3>2
  <2>2. request' = [request EXCEPT ![r] = [@ EXCEPT !.step = "done", !.effect = e]]
    BY <1>3 DEF GetParameters
  <2> HIDE DEF e
  <2>3. [request[r] EXCEPT !.step = "done", !.effect = e] \in Request
    BY <1>1, <2>1 DEF Request
  <2> QED BY <1>1, <2>2, <2>3
<1>4. CASE Leave(r)
  BY <1>1, <1>4, FreshTypes DEF Leave
<1> QED BY <1>2, <1>3, <1>4

\* A change to one operator's call leaves the calls of the others.
LEMMA CallIs ==
    ASSUME FaultTypes, NEW o \in Operators, NEW c, call' = [call EXCEPT ![o] = c]
    PROVE  call'[o] = c /\ \A p \in Operators \ {o} : call'[p] = call[p]
BY DEF FaultTypes

\* Every step keeps the types.
LEMMA TypesNext ==
    ASSUME FaultTypes, CallsOK, [Next]_vars
    PROVE  FaultTypes' /\ CallsOK'
<1>1. Len(toggles) \in Nat /\ Len(toggles) <= Len(toggles)
  BY DEF FaultTypes
<1>2. ASSUME NEW o \in Operators,
             \/ \E f \in Faults : Deactivate(o, f) \/ \E d \in Bodies(f) : Activate(o, f, d)
             \/ Reset(o)
      PROVE  FaultTypes' /\ CallsOK'
  BY <1>2, BeginCases, TypesBegin
<1>3. ASSUME NEW o \in Operators, Lookup(o) PROVE FaultTypes' /\ CallsOK'
  <2>1. UNCHANGED <<toggles, entry, request, asked, armed, spoiled>>
    BY <1>3 DEF Lookup
  <2>2. PICK c \in Call : call' = [call EXCEPT ![o] = c] /\ CallOK(c, Len(toggles))
    BY <1>3, LookupOf
  <2>3. call' \in [Operators -> Call] /\ CallsOK'
    BY <1>1, <2>1, <2>2, CallChanged
  <2> QED BY <2>1, <2>3 DEF FaultTypes
<1>4. ASSUME NEW o \in Operators, Insert(o) PROVE FaultTypes' /\ CallsOK'
  <2>1. UNCHANGED <<request, asked, armed>>
    BY <1>4 DEF Insert
  <2>2. /\ toggles' \in Seq(Toggle) /\ Len(toggles') = Len(toggles) + 1
        /\ entry' \in [Faults -> 0..Len(toggles')] /\ spoiled' \in SUBSET Faults
    BY <1>4, InsertOf
  <2>3. PICK c \in Call : call' = [call EXCEPT ![o] = c] /\ CallOK(c, Len(toggles'))
    BY <1>4, <2>2, InsertOf
  <2>4. Len(toggles') \in Nat /\ Len(toggles) <= Len(toggles')
    BY <1>1, <2>2
  <2>5. call' \in [Operators -> Call] /\ CallsOK'
    BY <2>3, <2>4, CallChanged
  <2> QED BY <2>1, <2>2, <2>5 DEF FaultTypes
<1>5. ASSUME NEW o \in Operators, InsertRaises(o) PROVE FaultTypes' /\ CallsOK'
  <2>1. /\ UNCHANGED <<toggles, entry, request, asked, armed, spoiled>>
        /\ call' = [call EXCEPT ![o] = NoCall]
    BY <1>5 DEF InsertRaises
  <2>2. call' \in [Operators -> Call] /\ CallsOK'
    BY <1>1, <2>1, CallChanged, EndedCall, FreshTypes
  <2> QED BY <2>1, <2>2 DEF FaultTypes
<1>6. ASSUME NEW o \in Operators, SetActive(o) PROVE FaultTypes' /\ CallsOK'
  <2>1. UNCHANGED <<entry, request, armed, spoiled>>
    BY <1>6 DEF SetActive
  <2>2. /\ toggles' \in Seq(Toggle) /\ Len(toggles') = Len(toggles)
        /\ asked' \in [Faults -> Toggle]
    BY <1>6, SetActiveOf
  <2>3. \E c \in Call : call' = [call EXCEPT ![o] = c] /\ CallOK(c, Len(toggles))
    BY <1>1, <1>6, SetActiveOf, EndedCall, FreshTypes
  <2>4. PICK c \in Call : call' = [call EXCEPT ![o] = c] /\ CallOK(c, Len(toggles'))
    BY <2>2, <2>3
  <2>5. call' \in [Operators -> Call] /\ CallsOK'
    BY <1>1, <2>2, <2>4, CallChanged
  <2> QED BY <2>1, <2>2, <2>5 DEF FaultTypes
<1>7. ASSUME NEW o \in Operators, SetParameters(o) PROVE FaultTypes' /\ CallsOK'
  <2>1. UNCHANGED <<entry, request, armed, spoiled>>
    BY <1>7 DEF SetParameters
  <2>2. /\ toggles' \in Seq(Toggle) /\ Len(toggles') = Len(toggles)
        /\ asked' \in [Faults -> Toggle] /\ call' = [call EXCEPT ![o] = NoCall]
    BY <1>7, SetParametersOf
  <2>3. call' \in [Operators -> Call] /\ CallsOK'
    BY <1>1, <2>2, CallChanged, EndedCall, FreshTypes
  <2> QED BY <2>1, <2>2, <2>3 DEF FaultTypes
<1>8. ASSUME NEW o \in Operators, VisitToggle(o) PROVE FaultTypes' /\ CallsOK'
  <2>1. UNCHANGED <<entry, request, asked, armed, spoiled>>
    BY <1>8 DEF VisitToggle
  <2>2. toggles' \in Seq(Toggle) /\ Len(toggles') = Len(toggles)
    BY <1>8, VisitOf
  <2>3. PICK c \in Call : call' = [call EXCEPT ![o] = c] /\ CallOK(c, Len(toggles'))
    BY <1>8, <2>2, VisitOf
  <2>4. call' \in [Operators -> Call] /\ CallsOK'
    BY <1>1, <2>2, <2>3, CallChanged
  <2> QED BY <2>1, <2>2, <2>4 DEF FaultTypes
<1>9. ASSUME NEW o \in Operators, ResetDone(o) PROVE FaultTypes' /\ CallsOK'
  <2>1. UNCHANGED <<toggles, entry, request, armed, spoiled>>
    BY <1>9 DEF ResetDone
  <2>2. asked' \in [Faults -> Toggle] /\ call' = [call EXCEPT ![o] = NoCall]
    BY <1>9, ResetDoneOf
  <2>3. call' \in [Operators -> Call] /\ CallsOK'
    BY <1>1, <2>1, <2>2, CallChanged, EndedCall, FreshTypes
  <2> QED BY <2>1, <2>2, <2>3 DEF FaultTypes
<1>10. ASSUME NEW r \in Requests,
              (\E f \in Faults : Enter(r, f)) \/ GetParameters(r) \/ Leave(r)
       PROVE  FaultTypes' /\ CallsOK'
  <2>1. UNCHANGED <<toggles, entry, call, asked, armed, spoiled>>
    BY <1>10 DEF Enter, GetParameters, Leave
  <2>2. request' \in [Requests -> Request]
    BY <1>10, RequestTypes
  <2> QED BY <2>1, <2>2 DEF FaultTypes, CallsOK
<1>11. CASE UNCHANGED vars
  BY <1>11 DEF vars, FaultTypes, CallsOK
<1> QED
  BY <1>2, <1>3, <1>4, <1>5, <1>6, <1>7, <1>8, <1>9, <1>10, <1>11 DEF Next

-----------------------------------------------------------------------------
(* Resets.                                                                 *)

\* A step that stores no toggle anew leaves the owners.
LEMMA OwnedKept ==
    ASSUME Owned, entry' = entry,
           \A p \in Operators : Holds(p)' =>
              Holds(p) /\ call'[p].toggle = call[p].toggle /\ call'[p].fault = call[p].fault
    PROVE  Owned'
BY DEF Owned

\* No step makes two faults share a toggle.
LEMMA OwnedNext ==
    ASSUME FaultTypes, CallsOK, Owned, [Next]_vars
    PROVE  Owned'
<1>1. ASSUME NEW o \in Operators, NEW c, call' = [call EXCEPT ![o] = c], entry' = entry,
             c.step \notin {"set", "parameters"}
      PROVE  Owned'
  <2>1. call'[o] = c /\ \A p \in Operators \ {o} : call'[p] = call[p]
    BY <1>1, CallIs
  <2> QED BY <1>1, <2>1, OwnedKept DEF Holds
<1>2. ASSUME NEW o \in Operators,
             \/ \E f \in Faults : Deactivate(o, f) \/ \E d \in Bodies(f) : Activate(o, f, d)
             \/ Reset(o)
      PROVE  Owned'
  <2>1. PICK c \in Call, on \in SUBSET Faults :
          /\ Begin(o, c, on) /\ c.step \in {"lookup", "visit"}
          /\ UNCHANGED <<toggles, entry, asked>>
    BY <1>2, BeginCases
  <2>2. call' = [call EXCEPT ![o] = c] /\ entry' = entry
    BY <2>1 DEF Begin
  <2> QED BY <1>1, <2>1, <2>2
<1>3. ASSUME NEW o \in Operators, Lookup(o) PROVE Owned'
  <2> DEFINE f == call[o].fault
  <2>1. entry' = entry /\ f \in Faults
    BY <1>3, LookupOf DEF Lookup
  <2>2. PICK c \in Call :
          /\ call' = [call EXCEPT ![o] = c] /\ c.fault = f
          /\ \/ f \in Present /\ c.step = "set" /\ c.toggle = entry[f]
             \/ f \notin Present /\ c.step = "insert"
    BY <1>3, LookupOf
  <2>3. CASE c.step = "insert"
    BY <1>1, <2>1, <2>2, <2>3
  <2>4. CASE f \in Present /\ c.toggle = entry[f]
    <3>1. call'[o] = c /\ \A p \in Operators \ {o} : call'[p] = call[p]
      BY <2>2, CallIs
    <3>2. entry[f] # 0
      BY <2>4 DEF Present
    <3>3. \A p \in Operators, g \in Faults :
            Holds(p)' /\ entry'[g] = call'[p].toggle => call'[p].fault = g
      <4> SUFFICES ASSUME NEW p \in Operators, NEW g \in Faults,
                          Holds(p)', entry'[g] = call'[p].toggle
                   PROVE  call'[p].fault = g
        OBVIOUS
      <4>1. CASE p = o
        BY <2>1, <2>2, <2>4, <3>1, <3>2, <4>1 DEF Owned
      <4>2. CASE p # o
        <5>1. Holds(p) /\ entry[g] = call[p].toggle /\ call'[p] = call[p]
          BY <2>1, <3>1, <4>2 DEF Holds
        <5> QED BY <5>1 DEF Owned
      <4> QED BY <4>1, <4>2
    <3> QED BY <2>1, <3>3 DEF Owned
  <2> QED BY <2>2, <2>3, <2>4
<1>4. ASSUME NEW o \in Operators, Insert(o) PROVE Owned'
  <2> DEFINE f == call[o].fault
             n == Len(toggles) + 1
  <2>1. /\ f \in Faults /\ n \in Nat /\ entry'[f] = n
        /\ \A g \in Faults \ {f} : entry'[g] = entry[g] \/ entry'[g] = 0
    BY <1>4, InsertOf
  <2>2. PICK c \in Call : call' = [call EXCEPT ![o] = c] /\ c.fault = f /\ c.toggle = n
    BY <1>4, InsertOf
  <2>3. call'[o] = c /\ \A p \in Operators \ {o} : call'[p] = call[p]
    BY <2>2, CallIs
  <2>4. Len(toggles) \in Nat /\ \A g \in Faults : entry[g] \in 0..Len(toggles)
    BY DEF FaultTypes
  <2>5. \A g \in Faults \ {f} : entry'[g] # n
    BY <2>1, <2>4
  <2>6. \A p \in Operators : Holds(p) => call[p].toggle # n /\ call[p].toggle # 0
    BY <2>4 DEF CallsOK, CallOK, Holds
  <2>7. n # 0
    BY <2>4
  <2> HIDE DEF n
  <2>8. \A g, h \in Faults : entry'[g] = entry'[h] /\ entry'[g] # 0 => g = h
    BY <2>1, <2>5, <2>7 DEF Owned
  <2>9. \A p \in Operators, g \in Faults :
          Holds(p)' /\ entry'[g] = call'[p].toggle => call'[p].fault = g
    <3> SUFFICES ASSUME NEW p \in Operators, NEW g \in Faults,
                        Holds(p)', entry'[g] = call'[p].toggle
                 PROVE  call'[p].fault = g
      OBVIOUS
    <3>1. CASE p = o
      BY <2>2, <2>3, <2>5, <3>1
    <3>2. CASE p # o
      <4>1. Holds(p) /\ entry'[g] = call[p].toggle /\ call'[p] = call[p]
        BY <2>3, <3>2 DEF Holds
      <4>2. g # f /\ entry[g] = call[p].toggle
        BY <2>1, <2>6, <4>1
      <4> QED BY <4>1, <4>2 DEF Owned
    <3> QED BY <3>1, <3>2
  <2> QED BY <2>8, <2>9 DEF Owned
<1>5. ASSUME NEW o \in Operators, SetActive(o) PROVE Owned'
  <2>1. entry' = entry
    BY <1>5 DEF SetActive
  <2>2. CASE call' = [call EXCEPT ![o] = NoCall]
    BY <1>1, <2>1, <2>2, FreshTypes
  <2>3. CASE \E c \in Call : /\ call' = [call EXCEPT ![o] = c] /\ c.fault = call[o].fault
                             /\ c.toggle = call[o].toggle
    <3>1. PICK c \in Call : /\ call' = [call EXCEPT ![o] = c] /\ c.fault = call[o].fault
                            /\ c.toggle = call[o].toggle
      BY <2>3
    <3>2. call'[o] = c /\ \A p \in Operators \ {o} : call'[p] = call[p]
      BY <3>1, CallIs
    <3>3. Holds(o)
      BY <1>5 DEF SetActive, Holds
    <3> QED BY <2>1, <3>1, <3>2, <3>3, OwnedKept DEF Holds
  <2> QED BY <1>5, <2>2, <2>3, SetActiveOf
<1>6. ASSUME NEW o \in Operators, VisitToggle(o) PROVE Owned'
  <2>1. entry' = entry
    BY <1>6 DEF VisitToggle
  <2>2. PICK c \in Call : call' = [call EXCEPT ![o] = c] /\ c.step = "visit"
    BY <1>6, VisitOf
  <2> QED BY <1>1, <2>1, <2>2
<1>7. ASSUME NEW o \in Operators, InsertRaises(o) \/ SetParameters(o) \/ ResetDone(o)
      PROVE  Owned'
  <2>1. entry' = entry /\ call' = [call EXCEPT ![o] = NoCall]
    BY <1>7 DEF InsertRaises, SetParameters, ResetDone
  <2> QED BY <1>1, <2>1, FreshTypes
<1>8. ASSUME NEW r \in Requests,
             (\E f \in Faults : Enter(r, f)) \/ GetParameters(r) \/ Leave(r)
      PROVE  Owned'
  BY <1>8 DEF Enter, GetParameters, Leave, Owned, Holds
<1>9. CASE UNCHANGED vars
  BY <1>9 DEF vars, Owned, Holds
<1> QED
  BY <1>2, <1>3, <1>4, <1>5, <1>6, <1>7, <1>8, <1>9 DEF Next

\* What a step must respect for the active faults that were not armed to stay
\* in the hands of a reset.
LEMMA ToBeVisitedKept ==
    ASSUME ToBeVisited, armed \subseteq armed',
           \A p \in Operators : call'[p].kind = "activate" => call'[p].fault \in armed',
           \A g \in Faults \ armed : IsActive(g)' =>
              /\ IsActive(g)
              /\ \A p \in Operators : call[p].kind = "reset" /\ g \in call[p].known
                    => \/ call'[p].kind = "reset" /\ g \in call'[p].known
                       \/ \E q \in Operators : call'[q].kind = "reset" /\ g \in call'[q].known
    PROVE  ToBeVisited'
<1>1. Activating' \subseteq armed'
  BY DEF Activating
<1>2. ASSUME NEW g \in Faults \ armed', IsActive(g)'
      PROVE  \E q \in Operators : call'[q].kind = "reset" /\ g \in call'[q].known
  <2>1. g \in Faults \ armed
    OBVIOUS
  <2>2. IsActive(g)
    BY <1>2, <2>1
  <2>3. PICK p \in Operators : call[p].kind = "reset" /\ g \in call[p].known
    BY <2>1, <2>2 DEF ToBeVisited
  <2> QED BY <1>2, <2>1, <2>3
<1> QED BY <1>1, <1>2 DEF ToBeVisited

\* A step of a call that is no reset, and that lets no fault become active but
\* an armed one.
LEMMA NoResetKept ==
    ASSUME FaultTypes, ToBeVisited, armed \subseteq armed', NEW o \in Operators, NEW c,
           call' = [call EXCEPT ![o] = c], call[o].kind # "reset",
           c.kind = "activate" => c.fault \in armed',
           \A g \in Faults \ armed : IsActive(g)' => IsActive(g)
    PROVE  ToBeVisited'
<1>1. call'[o] = c /\ \A p \in Operators \ {o} : call'[p] = call[p]
  BY CallIs
<1>2. \A p \in Operators : call[p].kind = "activate" => call[p].fault \in armed
  BY DEF ToBeVisited, Activating
<1>3. \A p \in Operators : call'[p].kind = "activate" => call'[p].fault \in armed'
  BY <1>1, <1>2
<1>4. \A p \in Operators : call[p].kind = "reset" => call'[p] = call[p]
  BY <1>1
<1> QED BY <1>3, <1>4, ToBeVisitedKept

\* The toggle of another fault is another toggle.
LEMMA OthersUntouched ==
    ASSUME FaultTypes, Owned, NEW f \in Faults, NEW t, entry' = entry,
           \A i \in 1..Len(toggles) : i # t => toggles'[i] = toggles[i],
           \A g \in Faults : entry[g] = t => g = f
    PROVE  \A g \in Faults \ {f} :
              /\ IsActive(g)' <=> IsActive(g)
              /\ g \in Present => toggles'[entry'[g]] = toggles[entry[g]]
<1> SUFFICES ASSUME NEW g \in Faults, g # f
             PROVE  /\ IsActive(g)' <=> IsActive(g)
                    /\ g \in Present => toggles'[entry'[g]] = toggles[entry[g]]
  OBVIOUS
<1>1. g \in Present' <=> g \in Present
  BY DEF Present
<1>2. g \in Present => entry[g] \in 1..Len(toggles)
  BY EntryOf
<1>3. entry[g] # t
  OBVIOUS
<1>4. g \in Present => toggles'[entry'[g]] = toggles[entry[g]]
  BY <1>2, <1>3
<1> QED BY <1>1, <1>4 DEF IsActive

\* An insertion activates nothing.
LEMMA InsertIsIdle ==
    ASSUME FaultTypes, CallsOK, NEW o \in Operators, Insert(o)
    PROVE  /\ \A g \in Faults : IsActive(g)' => IsActive(g)
           /\ \A g \in Faults \ spoiled' : g # call[o].fault =>
                 entry'[g] = entry[g] /\ (entry[g] # 0 => toggles'[entry'[g]] = toggles[entry[g]])
<1>0. PICK f \in Faults : f = call[o].fault
  BY InsertOf
<1> DEFINE n == Len(toggles) + 1
<1>1. /\ n \in Nat /\ entry'[f] = n /\ toggles'[n] = FreshToggle
      /\ \A g \in Faults \ {f} : \/ entry'[g] = entry[g]
                                 \/ entry'[g] = 0 /\ g \in spoiled'
      /\ \A i \in 1..Len(toggles) : toggles'[i] = toggles[i]
  BY <1>0, InsertOf
<1> HIDE DEF n
<1>2. ~IsActive(f)'
  BY <1>1 DEF IsActive, FreshToggle
<1>3. ASSUME NEW g \in Faults \ {f}, entry'[g] = entry[g]
      PROVE  /\ IsActive(g)' <=> IsActive(g)
             /\ entry[g] # 0 => toggles'[entry'[g]] = toggles[entry[g]]
  <2>1. g \in Present' <=> g \in Present
    BY <1>3 DEF Present
  <2>2. g \in Present => toggles'[entry'[g]] = toggles[entry[g]]
    BY <1>1, <1>3, EntryOf
  <2>3. entry[g] # 0 => g \in Present
    BY DEF Present
  <2> QED BY <2>1, <2>2, <2>3 DEF IsActive
<1>4. ASSUME NEW g \in Faults \ {f}, entry'[g] = 0
      PROVE  ~IsActive(g)'
  BY <1>4 DEF IsActive, Present
<1>5. \A g \in Faults : IsActive(g)' => IsActive(g)
  BY <1>1, <1>2, <1>3, <1>4
<1>6. \A g \in Faults \ spoiled' : g # f =>
        entry'[g] = entry[g] /\ (entry[g] # 0 => toggles'[entry'[g]] = toggles[entry[g]])
  BY <1>1, <1>3
<1> QED BY <1>0, <1>5, <1>6

\* Every step leaves the active faults that were not armed to a reset.
LEMMA ToBeVisitedNext ==
    ASSUME ResetInv, [Next]_vars
    PROVE  ToBeVisited'
<1> USE DEF ResetInv
<1>1. \A p \in Operators : call[p].kind = "activate" => call[p].fault \in armed
  BY DEF ToBeVisited, Activating
<1>2. ASSUME NEW o \in Operators,
             \/ \E f \in Faults : Deactivate(o, f) \/ \E d \in Bodies(f) : Activate(o, f, d)
             \/ Reset(o)
      PROVE  ToBeVisited'
  <2>1. PICK c \in Call, on \in SUBSET Faults :
          /\ Begin(o, c, on)
          /\ \/ c.kind = "reset" /\ c.known = Present /\ armed' = Activating
             \/ c.kind = "activate" /\ armed' = armed \cup {c.fault}
             \/ c.kind = "deactivate" /\ armed' = armed
          /\ UNCHANGED <<toggles, entry, asked>>
    BY <1>2, BeginCases
  <2>2. /\ call' = [call EXCEPT ![o] = c] /\ call[o].kind # "reset"
        /\ call'[o] = c /\ \A p \in Operators \ {o} : call'[p] = call[p]
    BY <2>1, CallIs, FreshTypes DEF Begin
  <2>3. \A g \in Faults : IsActive(g)' <=> IsActive(g)
    BY <2>1 DEF IsActive, Present
  <2>4. CASE c.kind # "reset"
    BY <2>1, <2>2, <2>3, <2>4, NoResetKept
  <2>5. CASE c.kind = "reset"
    <3>1. c.known = Present /\ armed' = Activating
      BY <2>1, <2>5
    <3>2. Activating' \subseteq armed'
      BY <2>2, <2>5, <3>1 DEF Activating
    <3>3. \A g \in Faults : IsActive(g)' => call'[o].kind = "reset" /\ g \in call'[o].known
      BY <2>2, <2>3, <2>5, <3>1 DEF IsActive
    <3> QED BY <3>2, <3>3 DEF ToBeVisited
  <2> QED BY <2>4, <2>5
<1>3. ASSUME NEW o \in Operators, Lookup(o) PROVE ToBeVisited'
  <2>1. PICK c \in Call : /\ call' = [call EXCEPT ![o] = c]
                          /\ c.kind = call[o].kind /\ c.fault = call[o].fault
    BY <1>3, LookupOf
  <2>2. call[o].kind # "reset" /\ toggles' = toggles /\ entry' = entry /\ armed' = armed
    BY <1>3, LookupOf DEF Lookup
  <2>3. \A g \in Faults : IsActive(g)' <=> IsActive(g)
    BY <2>2 DEF IsActive, Present
  <2> QED BY <1>1, <2>1, <2>2, <2>3, NoResetKept
<1>4. ASSUME NEW o \in Operators, Insert(o) PROVE ToBeVisited'
  <2>1. PICK c \in Call : /\ call' = [call EXCEPT ![o] = c]
                          /\ c.kind = call[o].kind /\ c.fault = call[o].fault
    BY <1>4, InsertOf
  <2>2. call[o].kind # "reset" /\ armed' = armed
    BY <1>4, InsertOf DEF Insert
  <2> QED BY <1>1, <1>4, <2>1, <2>2, InsertIsIdle, NoResetKept
<1>5. ASSUME NEW o \in Operators, InsertRaises(o) PROVE ToBeVisited'
  <2>1. /\ call' = [call EXCEPT ![o] = NoCall] /\ call[o].kind # "reset"
        /\ toggles' = toggles /\ entry' = entry /\ armed' = armed
    BY <1>5 DEF InsertRaises, CallsOK, CallOK
  <2>2. \A g \in Faults : IsActive(g)' <=> IsActive(g)
    BY <2>1 DEF IsActive, Present
  <2> QED BY <2>1, <2>2, FreshTypes, NoResetKept
<1>6. ASSUME NEW o \in Operators, SetActive(o) PROVE ToBeVisited'
  <2>0. PICK f \in Faults, t \in 1..Len(toggles) : f = call[o].fault /\ t = call[o].toggle
    BY <1>6, SetActiveOf
  <2>1. entry' = entry /\ armed' = armed /\ Holds(o)
    BY <1>6 DEF SetActive, Holds
  <2>2. /\ call[o].kind # "reset"
        /\ toggles'[t].active = (call[o].kind = "activate")
        /\ \A i \in 1..Len(toggles) : i # t => toggles'[i] = toggles[i]
    BY <1>6, <2>0, SetActiveOf
  <2>3. \A g \in Faults : entry[g] = t => g = f
    BY <2>0, <2>1 DEF Owned
  <2>4. \A g \in Faults \ {f} : IsActive(g)' <=> IsActive(g)
    BY <2>1, <2>2, <2>3, OthersUntouched
  <2>5. f \notin armed => (IsActive(f)' => IsActive(f))
    <3> SUFFICES ASSUME f \notin armed, IsActive(f)' PROVE IsActive(f)
      OBVIOUS
    <3>1. toggles'[t].active = FALSE
      BY <1>1, <2>0, <2>2
    <3>2. f \in Present /\ entry[f] # t
      BY <2>1, <3>1 DEF IsActive, Present
    <3>3. toggles'[entry'[f]] = toggles[entry[f]]
      BY <2>1, <2>2, <3>2, EntryOf
    <3> QED BY <3>2, <3>3 DEF IsActive
  <2>6. PICK c : /\ call' = [call EXCEPT ![o] = c]
                 /\ c.kind = "activate" => call[o].kind = "activate" /\ c.fault = f
    BY <1>6, <2>0, SetActiveOf, FreshTypes
  <2>7. \A g \in Faults \ armed : IsActive(g)' => IsActive(g)
    BY <2>4, <2>5
  <2>8. c.kind = "activate" => c.fault \in armed'
    BY <1>1, <2>0, <2>1, <2>6
  <2> QED BY <2>1, <2>2, <2>6, <2>7, <2>8, NoResetKept
<1>7. ASSUME NEW o \in Operators, SetParameters(o) PROVE ToBeVisited'
  <2> DEFINE f == call[o].fault
             t == call[o].toggle
  <2>1. entry' = entry /\ armed' = armed
    BY <1>7 DEF SetParameters
  <2>2. /\ t \in 1..Len(toggles) /\ call[o].kind # "reset"
        /\ toggles'[t].active = toggles[t].active
        /\ \A i \in 1..Len(toggles) : i # t => toggles'[i] = toggles[i]
        /\ call' = [call EXCEPT ![o] = NoCall]
    BY <1>7, SetParametersOf
  <2>3. \A g \in Faults : IsActive(g)' <=> IsActive(g)
    <3> SUFFICES ASSUME NEW g \in Faults PROVE IsActive(g)' <=> IsActive(g)
      OBVIOUS
    <3>1. g \in Present' <=> g \in Present
      BY <2>1 DEF Present
    <3>2. g \in Present => toggles'[entry'[g]].active = toggles[entry[g]].active
      BY <2>1, <2>2, EntryOf
    <3> QED BY <3>1, <3>2 DEF IsActive
  <2> QED BY <2>1, <2>2, <2>3, FreshTypes, NoResetKept
<1>8. ASSUME NEW o \in Operators, VisitToggle(o) PROVE ToBeVisited'
  <2>1. PICK f \in Present :
          /\ call[o].kind = "reset" /\ entry[f] \in 1..Len(toggles)
          /\ toggles'[entry[f]].active = FALSE
          /\ \A i \in 1..Len(toggles) : i # entry[f] => toggles'[i] = toggles[i]
          /\ \E c \in Call :
                /\ call' = [call EXCEPT ![o] = c]
                /\ c.kind = "reset" /\ c.known = (call[o].known \cap Present) \ {f}
    BY <1>8, VisitOf
  <2>2. PICK c \in Call :
          /\ call' = [call EXCEPT ![o] = c]
          /\ c.kind = "reset" /\ c.known = (call[o].known \cap Present) \ {f}
    BY <2>1
  <2>3. call'[o] = c /\ \A p \in Operators \ {o} : call'[p] = call[p]
    BY <2>2, CallIs
  <2>4. entry' = entry /\ armed' = armed /\ f \in Faults
    BY <1>8 DEF VisitToggle, Present
  <2>5. \A g \in Faults : entry[g] = entry[f] => g = f
    BY <2>4 DEF Owned, Present
  <2>6. \A g \in Faults \ {f} : IsActive(g)' <=> IsActive(g)
    <3> DEFINE t == entry[f]
    <3>1. \A i \in 1..Len(toggles) : i # t => toggles'[i] = toggles[i]
      BY <2>1
    <3>2. \A g \in Faults : entry[g] = t => g = f
      BY <2>5
    <3> HIDE DEF t
    <3> QED BY <2>4, <3>1, <3>2, OthersUntouched
  <2>7. ~IsActive(f)'
    BY <2>1, <2>4 DEF IsActive
  <2>8. \A p \in Operators : call'[p].kind = "activate" => call'[p].fault \in armed'
    BY <1>1, <2>2, <2>3, <2>4
  <2>9. ASSUME NEW g \in Faults \ armed, IsActive(g)', NEW p \in Operators,
               call[p].kind = "reset", g \in call[p].known
        PROVE  IsActive(g) /\ call'[p].kind = "reset" /\ g \in call'[p].known
    <3>1. g # f /\ IsActive(g) /\ g \in Present
      BY <2>6, <2>7, <2>9 DEF IsActive
    <3> QED BY <2>2, <2>3, <2>9, <3>1
  <2>10. \A g \in Faults \ armed : IsActive(g)' => IsActive(g)
    BY <2>6, <2>7
  <2> QED BY <2>4, <2>8, <2>9, <2>10, ToBeVisitedKept
<1>9. ASSUME NEW o \in Operators, ResetDone(o) PROVE ToBeVisited'
  <2>1. toggles' = toggles /\ entry' = entry /\ armed' = armed
    BY <1>9 DEF ResetDone
  <2>2. call[o].known \cap Present = {} /\ call' = [call EXCEPT ![o] = NoCall]
    BY <1>9, ResetDoneOf
  <2>3. call'[o] = NoCall /\ \A p \in Operators \ {o} : call'[p] = call[p]
    BY <2>2, CallIs
  <2>4. \A g \in Faults : IsActive(g)' <=> IsActive(g)
    BY <2>1 DEF IsActive, Present
  <2>5. \A p \in Operators : call'[p].kind = "activate" => call'[p].fault \in armed'
    BY <1>1, <2>1, <2>3, FreshTypes
  <2>6. \A g \in Faults : IsActive(g) => g \notin call[o].known
    BY <2>2 DEF IsActive
  <2> QED BY <2>1, <2>3, <2>4, <2>5, <2>6, ToBeVisitedKept
<1>10. ASSUME NEW r \in Requests,
              (\E f \in Faults : Enter(r, f)) \/ GetParameters(r) \/ Leave(r)
       PROVE  ToBeVisited'
  <2>1. UNCHANGED <<toggles, entry, call, armed>>
    BY <1>10 DEF Enter, GetParameters, Leave
  <2> QED BY <2>1 DEF ToBeVisited, Activating, IsActive, Present
<1>11. CASE UNCHANGED vars
  BY <1>11 DEF vars, ToBeVisited, Activating, IsActive, Present
<1> QED
  BY <1>2, <1>3, <1>4, <1>5, <1>6, <1>7, <1>8, <1>9, <1>10, <1>11 DEF Next

\* The invariant of resets holds at the start.
LEMMA ResetInit == Init => ResetInv
<1> SUFFICES ASSUME Init PROVE ResetInv
  OBVIOUS
<1>1. FaultTypes /\ CallsOK
  BY TypesInit
<1>2. Owned /\ ToBeVisited
  BY FreshTypes DEF Init, Owned, Holds, ToBeVisited, Activating, IsActive, Present
<1> QED BY <1>1, <1>2 DEF ResetInv

\* Every step keeps the invariant of resets.
LEMMA ResetNext == ResetInv /\ [Next]_vars => ResetInv'
BY TypesNext, OwnedNext, ToBeVisitedNext DEF ResetInv

\* resetAll is complete: once no reset runs, a fault is inactive unless its
\* activation began after the last reset did or was under way then, for any
\* number of threads and faults and whatever entries the map loses meanwhile.
THEOREM ResetCorrect == Spec => []ResetIsComplete
<1>1. ResetInv => ResetIsComplete
  BY DEF ResetInv, ToBeVisited, ResetIsComplete, Resetting
<1> QED BY <1>1, ResetInit, ResetNext, PTL DEF Spec

-----------------------------------------------------------------------------
(* Quiet requests.                                                         *)

\* Two calls for one fault at a time spoil it when the second begins.
LEMMA ExclusiveBegin ==
    ASSUME FaultTypes, CallsOK, NEW f \in Faults, f \notin spoiled', Exclusive(f),
           NEW o \in Operators, NEW c \in Call, NEW on \in SUBSET Faults, Begin(o, c, on),
           \/ c.kind = "reset" /\ on = Faults
           \/ c.kind \in {"activate", "deactivate"} /\ on = {c.fault}
    PROVE  Exclusive(f)'
<1>1. /\ call'[o] = c /\ \A p \in Operators \ {o} : call'[p] = call[p]
      /\ call[o].kind = "none"
  BY BegunOf, FreshTypes
<1>2. f \in on /\ Busy(f) => c.kind = "reset" /\ \A p \in Operators : call[p].fault # f
  BY DEF Begin
<1> SUFFICES ASSUME NEW p \in Operators, NEW q \in Operators, p # q, Serves(p, f)'
             PROVE  call'[q].kind # "reset" /\ ~Serves(q, f)'
  BY DEF Exclusive
<1>3. CASE p # o /\ q # o
  BY <1>1, <1>3 DEF Exclusive, Serves
<1>4. CASE p = o
  <2>1. on = {f} /\ ~Busy(f) /\ call'[q] = call[q]
    BY <1>1, <1>2, <1>4 DEF Serves
  <2> QED BY <2>1 DEF Busy, Concerns, Serves
<1>5. CASE q = o
  <2>1. Serves(p, f) /\ call[p].fault = f
    BY <1>1, <1>5 DEF Serves
  <2>2. Busy(f)
    BY <2>1 DEF Busy, Concerns, Serves
  <2>3. f \notin on
    BY <1>2, <2>1, <2>2
  <2> QED BY <1>1, <1>5, <2>3 DEF Serves
<1> QED BY <1>3, <1>4, <1>5

\* The other steps of a call leave its kind and its fault, or end it.
LEMMA ExclusiveKept ==
    ASSUME NEW f \in Faults, Exclusive(f), NEW o \in Operators, NEW c,
           call'[o] = c, \A p \in Operators \ {o} : call'[p] = call[p],
           c.kind = "none" \/ (c.kind = call[o].kind /\ c.fault = call[o].fault)
    PROVE  Exclusive(f)'
<1>1. \A p \in Operators : /\ Serves(p, f)' => Serves(p, f)
                           /\ call'[p].kind = "reset" => call[p].kind = "reset"
  BY DEF Serves
<1> QED BY <1>1 DEF Exclusive

\* A step that leaves the toggle of a fault leaves it as asked.
LEMMA AsAskedKept ==
    ASSUME NEW f \in Faults, AsAsked(f),
           entry'[f] = entry[f], asked'[f] = asked[f],
           entry[f] # 0 => toggles'[entry'[f]] = toggles[entry[f]],
           NEW o \in Operators, NEW c,
           call'[o] = c, \A p \in Operators \ {o} : call'[p] = call[p],
           call[o].kind = "reset" \/ (Serves(o, f) /\ call[o].step = "parameters")
              => c.kind = "reset",
           c.kind = "reset" /\ IsActive(f) => f \in c.known,
           c.kind \in {"activate", "deactivate"} /\ c.fault = f =>
              /\ c.step = "insert" => entry[f] = 0
              /\ c.step = "set" => c.toggle = entry[f]
              /\ c.step # "parameters"
    PROVE  AsAsked(f)'
<1>1. IsActive(f)' <=> IsActive(f)
  BY DEF IsActive, Present
<1>2. entry'[f] = 0 => asked'[f] = FreshToggle
  BY DEF AsAsked
<1>3. ASSUME entry'[f] # 0
      PROVE  /\ toggles'[entry'[f]].delay = asked'[f].delay
             /\ \/ toggles'[entry'[f]].active = asked'[f].active
                \/ \E p \in Operators : \/ call'[p].kind = "reset"
                                        \/ Serves(p, f)' /\ call'[p].step = "parameters"
  <2>1. /\ toggles[entry[f]].delay = asked[f].delay
        /\ \/ toggles[entry[f]].active = asked[f].active
           \/ \E p \in Operators : \/ call[p].kind = "reset"
                                   \/ Serves(p, f) /\ call[p].step = "parameters"
    BY <1>3 DEF AsAsked
  <2>2. CASE toggles[entry[f]].active = asked[f].active
    BY <1>3, <2>1, <2>2
  <2>3. ASSUME NEW p \in Operators,
               call[p].kind = "reset" \/ (Serves(p, f) /\ call[p].step = "parameters")
        PROVE  \E q \in Operators : \/ call'[q].kind = "reset"
                                    \/ Serves(q, f)' /\ call'[q].step = "parameters"
    BY <2>3 DEF Serves
  <2> QED BY <1>3, <2>1, <2>2, <2>3
<1>4. ASSUME NEW p \in Operators
      PROVE  /\ call'[p].kind = "reset" /\ IsActive(f)' => f \in call'[p].known
             /\ Serves(p, f)' =>
                   /\ call'[p].step = "insert" => entry'[f] = 0
                   /\ Holds(p)' => call'[p].toggle = entry'[f]
                   /\ call'[p].step = "parameters" => IsActive(f)'
  <2>1. CASE p = o
    BY <1>1, <2>1 DEF Serves, Holds
  <2>2. CASE p # o
    BY <1>1, <2>2 DEF AsAsked, Serves, Holds
  <2> QED BY <2>1, <2>2
<1> QED BY <1>2, <1>3, <1>4 DEF AsAsked

\* A step of a call that serves an unspoiled fault leaves it as asked when it
\* leaves the toggle so, or on the way there.
LEMMA AsAskedServed ==
    ASSUME NEW f \in Faults, NEW o \in Operators, Exclusive(f), Serves(o, f), NEW c,
           call'[o] = c, \A p \in Operators \ {o} : call'[p] = call[p],
           entry'[f] # 0, toggles'[entry'[f]].delay = asked'[f].delay,
           \/ toggles'[entry'[f]].active = asked'[f].active
           \/ c.kind = "activate" /\ c.fault = f /\ c.step = "parameters",
           c.kind # "reset", c.step # "insert",
           c.kind \in {"activate", "deactivate"} => c.toggle = entry'[f],
           c.step = "parameters" => IsActive(f)'
    PROVE  AsAsked(f)'
<1>1. \A p \in Operators \ {o} : call'[p].kind # "reset" /\ ~Serves(p, f)'
  BY DEF Exclusive, Serves
<1>2. \A p \in Operators :
        /\ call'[p].kind = "reset" /\ IsActive(f)' => f \in call'[p].known
        /\ Serves(p, f)' =>
              /\ call'[p].step = "insert" => entry'[f] = 0
              /\ Holds(p)' => call'[p].toggle = entry'[f]
              /\ call'[p].step = "parameters" => IsActive(f)'
  BY <1>1 DEF Serves
<1>3. \/ toggles'[entry'[f]].active = asked'[f].active
      \/ \E p \in Operators : \/ call'[p].kind = "reset"
                              \/ Serves(p, f)' /\ call'[p].step = "parameters"
  BY DEF Serves
<1> QED BY <1>2, <1>3 DEF AsAsked

\* An unspoiled fault stays so that its toggle is as the calls asked.
LEMMA AsAskedNext ==
    ASSUME FaultTypes, CallsOK, Owned, [Next]_vars,
           NEW f \in Faults, f \notin spoiled', f \notin spoiled => Exclusive(f) /\ AsAsked(f)
    PROVE  Exclusive(f)' /\ AsAsked(f)'
<1>0. FaultTypes /\ Owned
  OBVIOUS
<1>1. ASSUME NEW o \in Operators,
             \/ \E g \in Faults : Deactivate(o, g) \/ \E d \in Bodies(g) : Activate(o, g, d)
             \/ Reset(o)
      PROVE  Exclusive(f)' /\ AsAsked(f)'
  <2>1. PICK c \in Call, on \in SUBSET Faults :
          /\ Begin(o, c, on) /\ c.step \in {"lookup", "visit"} /\ c.kind # "none"
          /\ \/ c.kind = "reset" /\ c.known = Present /\ on = Faults
             \/ c.kind \in {"activate", "deactivate"} /\ on = {c.fault}
          /\ UNCHANGED <<toggles, entry, asked>>
    BY <1>1, BeginCases
  <2>2. /\ call'[o] = c /\ \A p \in Operators \ {o} : call'[p] = call[p]
        /\ call[o] = NoCall /\ spoiled \subseteq spoiled'
    BY <2>1, BegunOf
  <2>3. Exclusive(f) /\ AsAsked(f)
    BY <2>2
  <2>4. Exclusive(f)'
    BY <2>1, <2>3, ExclusiveBegin
  <2>5. IsActive(f) => f \in Present
    BY DEF IsActive
  <2>6. AsAsked(f)'
    BY <2>1, <2>2, <2>3, <2>5, AsAskedKept, FreshTypes DEF Serves
  <2> QED BY <2>4, <2>6
<1>2. ASSUME NEW o \in Operators, Lookup(o) PROVE Exclusive(f)' /\ AsAsked(f)'
  <2>1. UNCHANGED <<toggles, entry, asked, spoiled>> /\ call[o].step = "lookup"
    BY <1>2 DEF Lookup
  <2>2. PICK g \in Faults : g = call[o].fault /\ call[o].kind \in {"activate", "deactivate"}
    BY <1>2, LookupOf
  <2>3. PICK c \in Call :
          /\ call' = [call EXCEPT ![o] = c]
          /\ c.kind = call[o].kind /\ c.fault = g
          /\ \/ g \in Present /\ c.step = "set" /\ c.toggle = entry[g]
             \/ g \notin Present /\ c.step = "insert"
    BY <1>2, <2>2, LookupOf
  <2>4. call'[o] = c /\ \A p \in Operators \ {o} : call'[p] = call[p]
    BY <2>3, CallIs
  <2>5. g \notin Present => entry[g] = 0
    BY DEF Present
  <2>6. AsAsked(f)'
    BY <2>1, <2>2, <2>3, <2>4, <2>5, AsAskedKept
  <2> QED BY <2>1, <2>2, <2>3, <2>4, <2>6, ExclusiveKept
<1>3. ASSUME NEW o \in Operators, Insert(o) PROVE Exclusive(f)' /\ AsAsked(f)'
  <2>1. asked' = asked /\ call[o].step = "insert"
    BY <1>3 DEF Insert
  <2>2. PICK g \in Faults, n \in Nat :
          /\ g = call[o].fault /\ call[o].kind \in {"activate", "deactivate"}
          /\ n = Len(toggles) + 1
    BY <1>3, InsertOf
  <2>3. /\ entry'[g] = n /\ toggles'[n] = FreshToggle /\ spoiled \subseteq spoiled'
    BY <1>3, <2>2, InsertOf
  <2>4. PICK c \in Call :
          /\ call' = [call EXCEPT ![o] = c]
          /\ c.kind = call[o].kind /\ c.fault = g /\ c.step = "set" /\ c.toggle = n
    BY <1>3, <2>2, InsertOf
  <2>5. call'[o] = c /\ \A p \in Operators \ {o} : call'[p] = call[p]
    BY <2>4, CallIs
  <2>6. Exclusive(f) /\ AsAsked(f)
    BY <2>3
  <2>7. CASE f # g
    <3>1. entry'[f] = entry[f] /\ (entry[f] # 0 => toggles'[entry'[f]] = toggles[entry[f]])
      BY <1>3, <2>2, <2>7, InsertIsIdle
    <3>2. AsAsked(f)'
      BY <2>1, <2>2, <2>4, <2>5, <2>6, <2>7, <3>1, AsAskedKept DEF Serves
    <3> QED BY <2>2, <2>4, <2>5, <2>6, <3>2, ExclusiveKept
  <2>8. CASE f = g
    <3>1. Serves(o, f)
      BY <2>2, <2>8 DEF Serves
    <3>2. asked[f] = FreshToggle
      BY <2>1, <2>6, <3>1 DEF AsAsked
    <3>3. n # 0
      <4>1. Len(toggles) \in Nat
        BY DEF FaultTypes
      <4> QED BY <2>2, <4>1
    <3>4. AsAsked(f)'
      BY <2>1, <2>2, <2>3, <2>4, <2>5, <2>6, <2>8, <3>1, <3>2, <3>3, AsAskedServed
    <3> QED BY <2>2, <2>4, <2>5, <2>6, <3>4, ExclusiveKept
  <2> QED BY <2>7, <2>8
<1>4. ASSUME NEW o \in Operators, InsertRaises(o) PROVE Exclusive(f)' /\ AsAsked(f)'
  <2>1. /\ UNCHANGED <<toggles, entry, asked, spoiled>> /\ call[o].step = "insert"
        /\ call' = [call EXCEPT ![o] = NoCall] /\ call[o].kind # "reset"
    BY <1>4 DEF InsertRaises, CallsOK, CallOK
  <2>2. call'[o] = NoCall /\ \A p \in Operators \ {o} : call'[p] = call[p]
    BY <2>1, CallIs
  <2>3. AsAsked(f)'
    BY <2>1, <2>2, AsAskedKept, FreshTypes
  <2> QED BY <2>1, <2>2, <2>3, ExclusiveKept, FreshTypes
<1>5. ASSUME NEW o \in Operators, SetActive(o) PROVE Exclusive(f)' /\ AsAsked(f)'
  <2>1. entry' = entry /\ spoiled' = spoiled /\ call[o].step = "set" /\ Holds(o)
    BY <1>5 DEF SetActive, Holds
  <2>2. PICK g \in Faults, t \in 1..Len(toggles), active \in BOOLEAN :
          /\ g = call[o].fault /\ t = call[o].toggle /\ active = (call[o].kind = "activate")
          /\ call[o].kind \in {"activate", "deactivate"}
    BY <1>5, SetActiveOf
  <2>3. /\ toggles'[t].active = active /\ toggles'[t].delay = toggles[t].delay
        /\ \A i \in 1..Len(toggles) : i # t => toggles'[i] = toggles[i]
        /\ \A h \in Faults \ {g} : asked'[h] = asked[h]
    BY <1>5, <2>2, SetActiveOf
  <2>4. \/ /\ call' = [call EXCEPT ![o] = NoCall]
           /\ asked'[g].active = active /\ asked'[g].delay = asked[g].delay
        \/ /\ active /\ asked' = asked
           /\ \E c \in Call : /\ call' = [call EXCEPT ![o] = c]
                              /\ c.kind = "activate" /\ c.fault = g
                              /\ c.step = "parameters" /\ c.toggle = t
    BY <1>5, <2>2, SetActiveOf
  <2>5. PICK c \in Call :
          /\ call' = [call EXCEPT ![o] = c]
          /\ \/ /\ c = NoCall
                /\ asked'[g].active = active /\ asked'[g].delay = asked[g].delay
             \/ /\ active /\ asked' = asked
                /\ c.kind = "activate" /\ c.fault = g
                /\ c.step = "parameters" /\ c.toggle = t
    BY <2>4, FreshTypes
  <2>6. /\ call'[o] = c /\ \A p \in Operators \ {o} : call'[p] = call[p]
        /\ c.kind = "none" \/ (c.kind = call[o].kind /\ c.fault = call[o].fault)
    BY <2>2, <2>5, CallIs, FreshTypes
  <2>7. Exclusive(f)'
    BY <2>1, <2>6, ExclusiveKept
  <2>8. CASE f # g
    <3>1. \A h \in Faults : entry[h] = t => h = g
      BY <2>1, <2>2 DEF Owned
    <3>2. f \in Present => toggles'[entry'[f]] = toggles[entry[f]]
      <4>1. entry' = entry /\ \A i \in 1..Len(toggles) : i # t => toggles'[i] = toggles[i]
        BY <2>1, <2>3
      <4>2. \A h \in Faults \ {g} : h \in Present => toggles'[entry'[h]] = toggles[entry[h]]
        BY <1>0, <3>1, <4>1, OthersUntouched
      <4> QED BY <2>8, <4>2
    <3>3. entry[f] # 0 => f \in Present
      BY DEF Present
    <3>4. asked'[f] = asked[f] /\ c.kind # "reset" /\ call[o].kind # "reset" /\ ~Serves(o, f)
      BY <2>2, <2>3, <2>5, <2>8, FreshTypes DEF Serves
    <3>5. c.kind \in {"activate", "deactivate"} => c.fault # f
      BY <2>5, <2>8, FreshTypes
    <3>6. AsAsked(f)'
      BY <2>1, <2>6, <3>2, <3>3, <3>4, <3>5, AsAskedKept
    <3> QED BY <2>7, <3>6
  <2>9. CASE f = g
    <3>1. Serves(o, f) /\ Exclusive(f) /\ AsAsked(f)
      BY <2>1, <2>2, <2>9 DEF Serves
    <3>2. entry[f] = t
      BY <2>1, <2>2, <3>1 DEF AsAsked
    <3>3. t # 0
      BY <2>2
    <3>4. toggles'[entry'[f]].delay = asked'[f].delay
      BY <2>1, <2>3, <2>5, <2>9, <3>1, <3>2, <3>3 DEF AsAsked
    <3>5. /\ toggles'[entry'[f]].active = active
          /\ \/ toggles'[entry'[f]].active = asked'[f].active
             \/ c.kind = "activate" /\ c.fault = f /\ c.step = "parameters"
      BY <2>1, <2>3, <2>5, <2>9, <3>2
    <3>6. c.step = "parameters" => IsActive(f)'
      <4>1. f \in Present'
        BY <2>1, <3>2, <3>3 DEF Present
      <4> QED BY <2>5, <3>5, <4>1, FreshTypes DEF IsActive
    <3>7. /\ c.kind # "reset" /\ c.step # "insert"
          /\ c.kind \in {"activate", "deactivate"} => c.toggle = entry'[f]
      BY <2>1, <2>5, <3>2, FreshTypes
    <3>8. AsAsked(f)'
      BY <2>1, <2>6, <3>1, <3>2, <3>3, <3>4, <3>5, <3>6, <3>7, AsAskedServed
    <3> QED BY <2>7, <3>8
  <2> QED BY <2>8, <2>9
<1>6. ASSUME NEW o \in Operators, SetParameters(o) PROVE Exclusive(f)' /\ AsAsked(f)'
  <2>1. entry' = entry /\ spoiled' = spoiled /\ call[o].step = "parameters" /\ Holds(o)
    BY <1>6 DEF SetParameters, Holds
  <2>2. PICK g \in Faults, t \in 1..Len(toggles), d \in {call[o].delay} :
          g = call[o].fault /\ t = call[o].toggle /\ call[o].kind = "activate"
    BY <1>6, SetParametersOf
  <2>3. /\ toggles'[t].active = toggles[t].active /\ toggles'[t].delay = d
        /\ \A i \in 1..Len(toggles) : i # t => toggles'[i] = toggles[i]
        /\ \A h \in Faults \ {g} : asked'[h] = asked[h]
        /\ asked'[g].active = TRUE /\ asked'[g].delay = d
        /\ call' = [call EXCEPT ![o] = NoCall]
    BY <1>6, <2>2, SetParametersOf
  <2>4. call'[o] = NoCall /\ \A p \in Operators \ {o} : call'[p] = call[p]
    BY <2>3, CallIs
  <2>5. Exclusive(f)'
    BY <2>1, <2>4, ExclusiveKept, FreshTypes
  <2>6. CASE f # g
    <3>1. \A h \in Faults : entry[h] = t => h = g
      BY <2>1, <2>2 DEF Owned
    <3>2. f \in Present => toggles'[entry'[f]] = toggles[entry[f]]
      <4>1. entry' = entry /\ \A i \in 1..Len(toggles) : i # t => toggles'[i] = toggles[i]
        BY <2>1, <2>3
      <4>2. \A h \in Faults \ {g} : h \in Present => toggles'[entry'[h]] = toggles[entry[h]]
        BY <1>0, <3>1, <4>1, OthersUntouched
      <4> QED BY <2>6, <4>2
    <3>3. entry[f] # 0 => f \in Present
      BY DEF Present
    <3>4. asked'[f] = asked[f] /\ call[o].kind # "reset" /\ ~Serves(o, f)
      BY <2>2, <2>3, <2>6 DEF Serves
    <3>5. AsAsked(f)'
      BY <2>1, <2>4, <3>2, <3>3, <3>4, AsAskedKept, FreshTypes
    <3> QED BY <2>5, <3>5
  <2>7. CASE f = g
    <3>1. Serves(o, f) /\ Exclusive(f) /\ AsAsked(f)
      BY <2>1, <2>2, <2>7 DEF Serves
    <3>2. entry[f] = t /\ IsActive(f)
      BY <2>1, <2>2, <3>1 DEF AsAsked
    <3>3. t # 0
      BY <2>2
    <3>4. toggles[t].active = TRUE
      <4>1. entry[f] \in 1..Len(toggles)
        BY <3>2, EntryOf DEF IsActive
      <4>2. toggles[t] \in Toggle
        BY <3>2, EntryOf DEF IsActive
      <4>3. toggles[t].active
        BY <3>2 DEF IsActive
      <4> QED BY <4>2, <4>3 DEF Toggle
    <3>5. /\ toggles'[entry'[f]].active = asked'[f].active
          /\ toggles'[entry'[f]].delay = asked'[f].delay
      BY <2>1, <2>3, <2>7, <3>2, <3>4
    <3>6. AsAsked(f)'
      BY <2>1, <2>4, <3>1, <3>2, <3>3, <3>5, AsAskedServed, FreshTypes
    <3> QED BY <2>5, <3>6
  <2> QED BY <2>6, <2>7
<1>7. ASSUME NEW o \in Operators, VisitToggle(o) PROVE Exclusive(f)' /\ AsAsked(f)'
  <2>1. UNCHANGED <<entry, asked, spoiled>>
    BY <1>7 DEF VisitToggle
  <2>2. PICK g \in Present, t \in 1..Len(toggles) :
          /\ t = entry[g] /\ call[o].kind = "reset"
          /\ toggles'[t].active = FALSE /\ toggles'[t].delay = toggles[t].delay
          /\ \A i \in 1..Len(toggles) : i # t => toggles'[i] = toggles[i]
          /\ \E c \in Call :
                /\ call' = [call EXCEPT ![o] = c]
                /\ c.kind = "reset" /\ c.fault = call[o].fault
                /\ c.known = (call[o].known \cap Present) \ {g}
    BY <1>7, VisitOf
  <2>3. PICK c \in Call :
          /\ call' = [call EXCEPT ![o] = c]
          /\ c.kind = "reset" /\ c.fault = call[o].fault
          /\ c.known = (call[o].known \cap Present) \ {g}
    BY <2>2
  <2>4. call'[o] = c /\ \A p \in Operators \ {o} : call'[p] = call[p]
    BY <2>3, CallIs
  <2>5. Exclusive(f) /\ AsAsked(f) /\ g \in Faults
    BY <2>1 DEF Present
  <2>6. Exclusive(f)'
    BY <2>2, <2>3, <2>4, <2>5, ExclusiveKept
  <2>7. CASE f # g
    <3>1. \A h \in Faults : entry[h] = t => h = g
      BY <2>2, <2>5 DEF Owned, Present
    <3>2. f \in Present => toggles'[entry'[f]] = toggles[entry[f]]
      <4>1. entry' = entry /\ \A i \in 1..Len(toggles) : i # t => toggles'[i] = toggles[i]
        BY <2>1, <2>2
      <4>2. \A h \in Faults \ {g} : h \in Present => toggles'[entry'[h]] = toggles[entry[h]]
        BY <1>0, <2>5, <3>1, <4>1, OthersUntouched
      <4> QED BY <2>7, <4>2
    <3>3. entry[f] # 0 => f \in Present
      BY DEF Present
    <3>4. IsActive(f) => f \in c.known
      BY <2>2, <2>3, <2>5, <2>7 DEF AsAsked, IsActive
    <3>5. AsAsked(f)'
      BY <2>1, <2>3, <2>4, <2>5, <3>2, <3>3, <3>4, AsAskedKept
    <3> QED BY <2>6, <3>5
  <2>8. CASE f = g
    <3>1. entry[f] = t /\ t # 0
      BY <2>2, <2>8
    <3>2. ~IsActive(f)'
      BY <2>1, <2>2, <3>1 DEF IsActive
    <3>3. \A p \in Operators : ~Serves(p, f)'
      <4>1. \A p \in Operators \ {o} : ~Serves(p, f)
        BY <2>2, <2>5 DEF Exclusive
      <4> QED BY <2>3, <2>4, <4>1 DEF Serves
    <3>4. toggles'[entry'[f]].delay = asked'[f].delay
      BY <2>1, <2>2, <2>5, <3>1 DEF AsAsked
    <3>5. entry'[f] # 0 /\ call'[o].kind = "reset"
      BY <2>1, <2>3, <2>4, <3>1
    <3>6. AsAsked(f)'
      BY <3>2, <3>3, <3>4, <3>5 DEF AsAsked
    <3> QED BY <2>6, <3>6
  <2> QED BY <2>7, <2>8
<1>8. ASSUME NEW o \in Operators, ResetDone(o) PROVE Exclusive(f)' /\ AsAsked(f)'
  <2>1. UNCHANGED <<toggles, entry, spoiled>>
    BY <1>8 DEF ResetDone
  <2>2. /\ call[o].kind = "reset" /\ call[o].known \cap Present = {}
        /\ call' = [call EXCEPT ![o] = NoCall]
        /\ asked'[f] \in Toggle /\ asked'[f].active = FALSE /\ asked'[f].delay = asked[f].delay
    BY <1>8, ResetDoneOf
  <2>3. call'[o] = NoCall /\ \A p \in Operators \ {o} : call'[p] = call[p]
    BY <2>2, CallIs
  <2>4. Exclusive(f) /\ AsAsked(f)
    BY <2>1
  <2>5. Exclusive(f)'
    BY <2>3, <2>4, ExclusiveKept, FreshTypes
  <2>6. ~IsActive(f) /\ ~IsActive(f)'
    BY <2>1, <2>2, <2>4 DEF AsAsked, IsActive, Present
  <2>7. entry[f] = 0 => asked'[f] = FreshToggle
    <3>1. entry[f] = 0 => asked'[f].delay = Default
      BY <2>2, <2>4 DEF AsAsked, FreshToggle
    <3> QED BY <2>2, <3>1 DEF Toggle, FreshToggle
  <2>8. entry[f] # 0 => toggles[entry[f]].active = FALSE /\ toggles[entry[f]].delay = asked[f].delay
    <3> SUFFICES ASSUME entry[f] # 0
                 PROVE  /\ toggles[entry[f]].active = FALSE
                        /\ toggles[entry[f]].delay = asked[f].delay
      OBVIOUS
    <3>1. f \in Present /\ toggles[entry[f]] \in Toggle
      BY EntryOf DEF Present
    <3>2. ~toggles[entry[f]].active
      BY <2>6, <3>1 DEF IsActive
    <3>3. toggles[entry[f]].delay = asked[f].delay
      BY <2>4 DEF AsAsked
    <3> QED BY <3>1, <3>2, <3>3 DEF Toggle
  <2>9. ASSUME NEW p \in Operators, Serves(p, f)'
        PROVE  FALSE
    <3>1. p # o /\ Serves(p, f)
      BY <2>3, <2>9, FreshTypes DEF Serves
    <3> QED BY <2>2, <2>4, <3>1 DEF Exclusive
  <2>10. AsAsked(f)'
    BY <2>1, <2>2, <2>6, <2>7, <2>8, <2>9 DEF AsAsked
  <2> QED BY <2>5, <2>10
<1>9. ASSUME NEW r \in Requests,
             (\E g \in Faults : Enter(r, g)) \/ GetParameters(r) \/ Leave(r)
      PROVE  Exclusive(f)' /\ AsAsked(f)'
  <2>1. UNCHANGED <<toggles, entry, call, asked, spoiled>>
    BY <1>9 DEF Enter, GetParameters, Leave
  <2> QED BY <2>1 DEF Exclusive, AsAsked, Serves, Holds, IsActive, Present
<1>10. CASE UNCHANGED vars
  <2>1. UNCHANGED <<toggles, entry, call, asked, spoiled>>
    BY <1>10 DEF vars
  <2> QED BY <2>1 DEF Exclusive, AsAsked, Serves, Holds, IsActive, Present
<1> QED
  BY <1>1, <1>2, <1>3, <1>4, <1>5, <1>6, <1>7, <1>8, <1>9, <1>10 DEF Next

\* A step of a call leaves the quiet requests as they are, for it concerns
\* other faults.
LEMMA ServedKept ==
    ASSUME NEW r \in Requests, Served(r), request' = request, spoiled \subseteq spoiled',
           NEW o \in Operators, NEW c,
           call'[o] = c, \A p \in Operators \ {o} : call'[p] = call[p],
           call[o].kind # "none",
           c.kind = "none" \/ (c.kind = call[o].kind /\ c.fault = call[o].fault),
           \A g \in Faults : call[o].kind # "reset" /\ call[o].fault # g => asked'[g] = asked[g]
    PROVE  Served(r)'
<1> SUFFICES ASSUME request[r].quiet PROVE Served(r)'
  BY DEF Served
<1>1. PICK f \in Faults : f = request[r].fault
  BY DEF Served
<1>2. ~Busy(f) /\ (f \notin spoiled =>
        /\ request[r].step = "parameters" => asked[f].active /\ f \in SlowFaults
        /\ request[r].step = "done" => request[r].effect = Expected(f))
  BY <1>1 DEF Served
<1>3. call[o].kind # "reset" /\ call[o].fault # f
  BY <1>2 DEF Busy, Concerns
<1>4. ~Busy(f)'
  BY <1>2, <1>3 DEF Busy, Concerns
<1>5. asked'[f] = asked[f]
  BY <1>3
<1>6. Expected(f)' = Expected(f)
  BY <1>5 DEF Expected
<1>7. f \notin spoiled' =>
        /\ request'[r].step = "parameters" => asked'[f].active /\ f \in SlowFaults
        /\ request'[r].step = "done" => request'[r].effect = Expected(f)'
  BY <1>2, <1>5, <1>6
<1>8. f = request'[r].fault
  BY <1>1
<1> QED BY <1>4, <1>7, <1>8 DEF Served, Expected

\* The beginning of a call ends the quiet of the requests it concerns.
LEMMA ServedBegin ==
    ASSUME FaultTypes, CallsOK, NEW r \in Requests, Served(r),
           NEW o \in Operators, NEW c \in Call, NEW on \in SUBSET Faults, Begin(o, c, on),
           \/ c.kind = "reset" /\ on = Faults
           \/ c.kind \in {"activate", "deactivate"} /\ on = {c.fault},
           asked' = asked
    PROVE  Served(r)'
<1>1. /\ call'[o] = c /\ \A p \in Operators \ {o} : call'[p] = call[p]
      /\ call[o].kind = "none" /\ spoiled \subseteq spoiled'
  BY BegunOf, FreshTypes
<1>2. /\ request'[r].step = request[r].step /\ request'[r].fault = request[r].fault
      /\ request'[r].effect = request[r].effect
      /\ request'[r].quiet => request[r].quiet /\ request[r].fault \notin on
  <2> DEFINE b == request[r].quiet /\ request[r].fault \notin on
  <2>1. request'[r] = [request[r] EXCEPT !.quiet = b]
    BY DEF Begin
  <2>2. request[r] \in Request
    BY DEF FaultTypes
  <2> HIDE DEF b
  <2>3. /\ request'[r].step = request[r].step /\ request'[r].fault = request[r].fault
        /\ request'[r].effect = request[r].effect /\ request'[r].quiet = b
    BY <2>1, <2>2 DEF Request
  <2> QED BY <2>3 DEF b
<1> SUFFICES ASSUME request'[r].quiet PROVE Served(r)'
  BY DEF Served
<1>3. PICK f \in Faults : f = request[r].fault
  BY <1>2 DEF Served
<1>4. ~Busy(f) /\ (f \notin spoiled =>
        /\ request[r].step = "parameters" => asked[f].active /\ f \in SlowFaults
        /\ request[r].step = "done" => request[r].effect = Expected(f))
  BY <1>2, <1>3 DEF Served
<1>5. c.kind # "reset" /\ c.fault # f
  BY <1>2, <1>3
<1>6. ~Busy(f)'
  BY <1>1, <1>4, <1>5 DEF Busy, Concerns
<1>7. Expected(f)' = Expected(f)
  BY DEF Expected
<1>8. f \notin spoiled' =>
        /\ request'[r].step = "parameters" => asked'[f].active /\ f \in SlowFaults
        /\ request'[r].step = "done" => request'[r].effect = Expected(f)'
  BY <1>1, <1>2, <1>4, <1>7
<1>9. f = request'[r].fault
  BY <1>2, <1>3
<1> QED BY <1>6, <1>8, <1>9 DEF Served, Expected

\* A quiet fault that is not spoiled is as asked.
LEMMA QuietFault ==
    ASSUME FaultTypes, NEW f \in Faults, AsAsked(f), ~Busy(f)
    PROVE  /\ IsActive(f) <=> asked[f].active
           /\ entry[f] # 0 => toggles[entry[f]].delay = asked[f].delay
           /\ f \in Present <=> entry[f] # 0
<1>1. f \in Present <=> entry[f] # 0
  BY DEF Present
<1>2. \A p \in Operators : call[p].kind # "reset" /\ ~Serves(p, f)
  BY DEF Busy, Concerns, Serves
<1>3. entry[f] = 0 => asked[f].active = FALSE
  BY DEF AsAsked, FreshToggle
<1>4. entry[f] # 0 => toggles[entry[f]].active = asked[f].active
  BY <1>2 DEF AsAsked
<1>5. entry[f] # 0 => toggles[entry[f]].delay = asked[f].delay
  BY DEF AsAsked
<1> QED BY <1>1, <1>3, <1>4, <1>5 DEF IsActive

\* What a request meets when it comes in.
LEMMA EnterServed ==
    ASSUME FaultTypes, NEW r \in Requests, NEW f \in Faults, Enter(r, f),
           f \notin spoiled => AsAsked(f)
    PROVE  Served(r)'
<1> DEFINE x == [fault |-> f, quiet |-> ~Busy(f),
                 step |-> IF IsActive(f) /\ f \in SlowFaults THEN "parameters" ELSE "done",
                 effect |-> IF IsActive(f) /\ f \notin SlowFaults THEN "raised" ELSE "none"]
<1>1. request'[r] = x /\ UNCHANGED <<call, asked, spoiled>>
  BY DEF Enter, FaultTypes
<1>2. /\ x.fault = f /\ x.quiet = ~Busy(f)
      /\ x.step = IF IsActive(f) /\ f \in SlowFaults THEN "parameters" ELSE "done"
      /\ x.effect = IF IsActive(f) /\ f \notin SlowFaults THEN "raised" ELSE "none"
  OBVIOUS
<1> HIDE DEF x
<1> SUFFICES ASSUME request'[r].quiet PROVE Served(r)'
  BY DEF Served
<1>3. ~Busy(f) /\ ~Busy(f)'
  BY <1>1, <1>2 DEF Busy, Concerns
<1>4. Expected(f)' = Expected(f)
  BY <1>1 DEF Expected
<1>5. ASSUME f \notin spoiled
      PROVE  /\ x.step = "parameters" => asked[f].active /\ f \in SlowFaults
             /\ x.step = "done" => x.effect = Expected(f)
  <2>1. IsActive(f) <=> asked[f].active
    BY <1>3, <1>5, QuietFault
  <2>2. CASE IsActive(f) /\ f \in SlowFaults
    BY <1>2, <2>1, <2>2
  <2>3. CASE IsActive(f) /\ f \notin SlowFaults
    BY <1>2, <2>1, <2>3 DEF Expected
  <2>4. CASE ~IsActive(f)
    BY <1>2, <2>1, <2>4 DEF Expected
  <2> QED BY <2>2, <2>3, <2>4
<1>6. f \notin spoiled' =>
        /\ request'[r].step = "parameters" => asked'[f].active /\ f \in SlowFaults
        /\ request'[r].step = "done" => request'[r].effect = Expected(f)'
  BY <1>1, <1>4, <1>5
<1>7. f = request'[r].fault
  BY <1>1, <1>2
<1> QED BY <1>3, <1>6, <1>7 DEF Served, Expected

\* What a request reads that was let in as active.
LEMMA ParametersServed ==
    ASSUME FaultTypes, NEW r \in Requests, GetParameters(r), Served(r),
           \A f \in Faults \ spoiled : AsAsked(f)
    PROVE  Served(r)'
<1> DEFINE e == IF request[r].fault \in Present THEN toggles[entry[request[r].fault]].delay
                ELSE Default
           x == [request[r] EXCEPT !.step = "done", !.effect = e]
<1>1. request'[r] = x /\ UNCHANGED <<call, asked, spoiled>> /\ request[r].step = "parameters"
  <2>1. request' = [request EXCEPT ![r] = x]
    BY DEF GetParameters
  <2> HIDE DEF x
  <2> QED BY <2>1 DEF GetParameters, FaultTypes
<1>2. /\ x.fault = request[r].fault /\ x.quiet = request[r].quiet
      /\ x.step = "done" /\ x.effect = e
  <2>1. request[r] \in Request
    BY DEF FaultTypes
  <2> HIDE DEF e
  <2> QED BY <2>1 DEF Request
<1> HIDE DEF x
<1> SUFFICES ASSUME request'[r].quiet PROVE Served(r)'
  BY DEF Served
<1>3. PICK f \in Faults : f = request[r].fault
  BY <1>1, <1>2 DEF Served
<1>4. ~Busy(f) /\ (f \notin spoiled => asked[f].active /\ f \in SlowFaults)
  BY <1>1, <1>2, <1>3 DEF Served
<1>5. ~Busy(f)'
  BY <1>1, <1>4 DEF Busy, Concerns
<1>6. f \notin spoiled => e = Expected(f)
  <2> SUFFICES ASSUME f \notin spoiled PROVE e = Expected(f)
    OBVIOUS
  <2>1. /\ IsActive(f) <=> asked[f].active
        /\ entry[f] # 0 => toggles[entry[f]].delay = asked[f].delay
        /\ f \in Present <=> entry[f] # 0
    BY <1>4, QuietFault
  <2>2. f \in Present
    BY <1>4, <2>1 DEF IsActive
  <2> QED BY <1>3, <1>4, <2>1, <2>2 DEF Expected
<1>7. Expected(f)' = Expected(f)
  BY <1>1 DEF Expected
<1>8. f \notin spoiled' => request'[r].effect = Expected(f)'
  BY <1>1, <1>2, <1>6, <1>7
<1>9. f = request'[r].fault /\ request'[r].step = "done"
  BY <1>1, <1>2, <1>3
<1> QED BY <1>5, <1>8, <1>9 DEF Served, Expected

\* Every step leaves the quiet requests served.
LEMMA ServedNext ==
    ASSUME ServedInv, [Next]_vars, NEW r \in Requests
    PROVE  Served(r)'
<1>1. FaultTypes /\ CallsOK /\ Owned /\ Served(r) /\ \A f \in Faults \ spoiled : AsAsked(f)
  BY DEF ServedInv
<1>2. ASSUME NEW o \in Operators,
             \/ \E g \in Faults : Deactivate(o, g) \/ \E d \in Bodies(g) : Activate(o, g, d)
             \/ Reset(o)
      PROVE  Served(r)'
  <2>1. PICK c \in Call, on \in SUBSET Faults :
          /\ Begin(o, c, on)
          /\ \/ c.kind = "reset" /\ on = Faults
             \/ c.kind \in {"activate", "deactivate"} /\ on = {c.fault}
          /\ UNCHANGED <<toggles, entry, asked>>
    BY <1>1, <1>2, BeginCases
  <2> QED BY <1>1, <2>1, ServedBegin
<1>3. ASSUME NEW o \in Operators, NEW c, call' = [call EXCEPT ![o] = c],
             request' = request, spoiled \subseteq spoiled', call[o].kind # "none",
             c = NoCall \/ (c.kind = call[o].kind /\ c.fault = call[o].fault),
             \A g \in Faults : call[o].kind # "reset" /\ call[o].fault # g => asked'[g] = asked[g]
      PROVE  Served(r)'
  <2>1. call'[o] = c /\ \A p \in Operators \ {o} : call'[p] = call[p]
    BY <1>1, <1>3, CallIs
  <2>2. c.kind = "none" \/ (c.kind = call[o].kind /\ c.fault = call[o].fault)
    BY <1>3, FreshTypes
  <2> QED BY <1>1, <1>3, <2>1, <2>2, ServedKept
<1>4. ASSUME NEW o \in Operators, Lookup(o) PROVE Served(r)'
  <2>1. UNCHANGED <<request, asked, spoiled>> /\ call[o].kind # "none"
    BY <1>4 DEF Lookup
  <2>2. PICK c \in Call : /\ call' = [call EXCEPT ![o] = c]
                          /\ c.kind = call[o].kind /\ c.fault = call[o].fault
    BY <1>1, <1>4, LookupOf
  <2> QED BY <1>3, <2>1, <2>2
<1>5. ASSUME NEW o \in Operators, Insert(o) PROVE Served(r)'
  <2>1. UNCHANGED <<request, asked>>
    BY <1>5 DEF Insert
  <2>2. call[o].kind # "none" /\ spoiled \subseteq spoiled'
    BY <1>1, <1>5, InsertOf
  <2>3. PICK c \in Call : /\ call' = [call EXCEPT ![o] = c]
                          /\ c.kind = call[o].kind /\ c.fault = call[o].fault
    BY <1>1, <1>5, InsertOf
  <2> QED BY <1>3, <2>1, <2>2, <2>3
<1>6. ASSUME NEW o \in Operators, InsertRaises(o) PROVE Served(r)'
  <2>1. /\ UNCHANGED <<request, asked, spoiled>> /\ call' = [call EXCEPT ![o] = NoCall]
        /\ call[o].step = "insert"
    BY <1>6 DEF InsertRaises
  <2>2. call[o].kind # "none"
    BY <1>1, <2>1, FreshTypes DEF CallsOK, CallOK
  <2> QED BY <1>3, <2>1, <2>2
<1>7. ASSUME NEW o \in Operators, SetActive(o) PROVE Served(r)'
  <2>1. UNCHANGED <<request, spoiled>>
    BY <1>7 DEF SetActive
  <2>2. /\ call[o].kind # "none"
        /\ \A g \in Faults \ {call[o].fault} : asked'[g] = asked[g]
    BY <1>1, <1>7, SetActiveOf
  <2>3. PICK c : /\ call' = [call EXCEPT ![o] = c]
                 /\ c = NoCall \/ (c.kind = call[o].kind /\ c.fault = call[o].fault)
    BY <1>1, <1>7, SetActiveOf
  <2> QED BY <1>3, <2>1, <2>2, <2>3
<1>8. ASSUME NEW o \in Operators, SetParameters(o) PROVE Served(r)'
  <2>1. UNCHANGED <<request, spoiled>>
    BY <1>8 DEF SetParameters
  <2>2. /\ call[o].kind # "none" /\ call' = [call EXCEPT ![o] = NoCall]
        /\ \A g \in Faults \ {call[o].fault} : asked'[g] = asked[g]
    BY <1>1, <1>8, SetParametersOf
  <2> QED BY <1>3, <2>1, <2>2
<1>9. ASSUME NEW o \in Operators, VisitToggle(o) PROVE Served(r)'
  <2>1. UNCHANGED <<request, asked, spoiled>>
    BY <1>9 DEF VisitToggle
  <2>2. call[o].kind = "reset"
    BY <1>1, <1>9, VisitOf
  <2>3. \E c \in Call : /\ call' = [call EXCEPT ![o] = c]
                        /\ c.kind = "reset" /\ c.fault = call[o].fault
    BY <1>1, <1>9, VisitOf
  <2>4. PICK c \in Call : /\ call' = [call EXCEPT ![o] = c]
                          /\ c.kind = "reset" /\ c.fault = call[o].fault
    BY <2>3
  <2> QED BY <1>3, <2>1, <2>2, <2>4
<1>10. ASSUME NEW o \in Operators, ResetDone(o) PROVE Served(r)'
  <2>1. UNCHANGED <<request, spoiled>>
    BY <1>10 DEF ResetDone
  <2>2. call[o].kind = "reset" /\ call' = [call EXCEPT ![o] = NoCall]
    BY <1>1, <1>10, ResetDoneOf
  <2> QED BY <1>3, <2>1, <2>2
<1>11. ASSUME NEW q \in Requests,
              (\E g \in Faults : Enter(q, g)) \/ GetParameters(q) \/ Leave(q)
       PROVE  Served(r)'
  <2>1. UNCHANGED <<toggles, entry, call, asked, armed, spoiled>>
    BY <1>11 DEF Enter, GetParameters, Leave
  <2>2. CASE q = r
    <3>1. ASSUME NEW g \in Faults, Enter(r, g) PROVE Served(r)'
      BY <1>1, <3>1, EnterServed
    <3>2. CASE GetParameters(r)
      BY <1>1, <3>2, ParametersServed
    <3>3. CASE Leave(r)
      <4>1. request'[r] = NoRequest
        BY <1>1, <3>3 DEF Leave, FaultTypes
      <4> QED BY <4>1, FreshTypes DEF Served
    <3> QED BY <1>11, <2>2, <3>1, <3>2, <3>3
  <2>3. CASE q # r
    <3>1. request'[r] = request[r]
      BY <1>1, <1>11, <2>3 DEF Enter, GetParameters, Leave, FaultTypes
    <3> QED BY <1>1, <2>1, <3>1 DEF Served, Busy, Concerns, Expected
  <2> QED BY <2>2, <2>3
<1>12. CASE UNCHANGED vars
  BY <1>1, <1>12 DEF vars, Served, Busy, Concerns, Expected
<1> QED
  BY <1>2, <1>4, <1>5, <1>6, <1>7, <1>8, <1>9, <1>10, <1>11, <1>12 DEF Next

\* The invariant of requests holds at the start.
LEMMA ServedInit == Init => ServedInv
<1> SUFFICES ASSUME Init PROVE ServedInv
  OBVIOUS
<1>1. FaultTypes /\ CallsOK
  BY TypesInit
<1>2. Owned
  BY FreshTypes DEF Init, Owned, Holds
<1>3. \A f \in Faults : Exclusive(f) /\ AsAsked(f)
  BY FreshTypes DEF Init, Exclusive, AsAsked, Serves, IsActive, Present
<1>4. \A r \in Requests : Served(r)
  BY FreshTypes DEF Init, Served
<1> QED BY <1>1, <1>2, <1>3, <1>4 DEF ServedInv

\* Every step keeps the invariant of requests.
LEMMA ServedStep == ServedInv /\ [Next]_vars => ServedInv'
<1> SUFFICES ASSUME ServedInv, [Next]_vars PROVE ServedInv'
  OBVIOUS
<1>1. FaultTypes /\ CallsOK /\ Owned
  BY DEF ServedInv
<1>2. FaultTypes' /\ CallsOK' /\ Owned'
  BY <1>1, TypesNext, OwnedNext
<1>3. ASSUME NEW f \in Faults, f \notin spoiled' PROVE Exclusive(f)' /\ AsAsked(f)'
  <2>1. f \notin spoiled => Exclusive(f) /\ AsAsked(f)
    BY DEF ServedInv
  <2> QED BY <1>1, <1>3, <2>1, AsAskedNext
<1>4. \A r \in Requests : Served(r)'
  BY ServedNext
<1> QED BY <1>2, <1>3, <1>4 DEF ServedInv

\* A request during which nobody calls for its fault gets what the last call
\* for that fault asked for, for any number of threads, faults and toggles,
\* unless the fault had two calls at a time or its entry was lost.
THEOREM ServedCorrect == Spec => []QuietRequestIsServed
<1>1. ServedInv => QuietRequestIsServed
  BY DEF ServedInv, Served, QuietRequestIsServed
<1> QED BY <1>1, ServedInit, ServedStep, PTL DEF Spec
=============================================================================
