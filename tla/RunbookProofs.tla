--------------------------- MODULE RunbookProofs ----------------------------
(***************************************************************************)
(* The runbook store and its search, for any runbooks, contents, versions  *)
(* and clock.  The inductive invariant of the store adds three facts to    *)
(* its properties: a superseded version is over, every object is a version *)
(* of some runbook (so that an upgrade misses none), and a valid one was   *)
(* checked since the upgrade.  That of the search follows what it holds    *)
(* through the instants at which it looks: the hits, those read again, the *)
(* results and the answer.  The two meet where a runbook that stays active *)
(* must stay so in the same version (TickActive).                          *)
(***************************************************************************)
EXTENDS RunbookSearch, OrderingProofs

SupersededIsOver ==
    \A r \in Runbooks : \A i \in 1..Len(versions[r]) - 1 :
        objects[versions[r][i]].until <= now

AllStored == \A o \in DOMAIN objects : \E r \in Runbooks : \E i \in DOMAIN versions[r] : versions[r][i] = o

ValidIsChecked == \A o \in DOMAIN objects : objects[o].status = "valid" => objects[o].checked

IInv == StoreTypeOK /\ SupersededIsOver /\ AllStored /\ ValidIsChecked

\* The versions that get() returns are objects of the store.
LEMMA ReachableIsStored ==
    ASSUME StoreTypeOK, NEW r \in Runbooks, Known(r)
    PROVE  Reachable(r) \subseteq DOMAIN objects /\ Latest(r) \in DOMAIN objects
<1>1. versions[r] \in Seq(DOMAIN objects) /\ Len(versions[r]) \in DOMAIN versions[r]
  BY DEF StoreTypeOK, Known
<1>2. \A i \in DOMAIN versions[r] : versions[r][i] \in DOMAIN objects
  BY <1>1
<1> QED
  BY <1>1, <1>2 DEF Reachable, Latest

\* Superseding the latest version ends it and touches nothing else.
LEMMA SupersededObjects ==
    ASSUME StoreTypeOK, NEW r \in Runbooks
    PROVE  /\ Superseded(r) \in Seq(Runbook)
           /\ Len(Superseded(r)) = Len(objects)
           /\ \A o \in DOMAIN objects :
                 /\ Superseded(r)[o].until \in {objects[o].until, now}
                 /\ Known(r) /\ o = Latest(r) => Superseded(r)[o].until = now
                 /\ Superseded(r)[o].status = "valid" => objects[o].status = "valid"
                 /\ Superseded(r)[o].checked = objects[o].checked
<1>1. CASE ~Known(r)
  BY <1>1 DEF Superseded, StoreTypeOK
<1>2. CASE Known(r)
  <2> DEFINE l == Latest(r)
             new == [objects[l] EXCEPT !.status = "deprecated", !.until = now]
  <2>1. l \in DOMAIN objects
    BY <1>2, ReachableIsStored
  <2>2. objects \in Seq(Runbook) /\ now \in Times
    BY DEF StoreTypeOK
  <2>3. objects[l] \in Runbook
    BY <2>1, <2>2
  <2>4. new \in Runbook /\ new.until = now /\ new.status = "deprecated" /\ new.checked = objects[l].checked
    BY <2>2, <2>3 DEF Runbook
  <2>5. Superseded(r) = [objects EXCEPT ![l] = new]
    BY <1>2, <2>1, <2>2, <2>3 DEF Superseded, Runbook
  <2> HIDE DEF l, new
  <2>6. \A o \in DOMAIN objects : Superseded(r)[o] = IF o = l THEN new ELSE objects[o]
    BY <2>2, <2>5
  <2>7. Superseded(r) \in Seq(Runbook) /\ Len(Superseded(r)) = Len(objects)
    BY <2>1, <2>2, <2>4, <2>5
  <2> QED
    BY <2>4, <2>6, <2>7 DEF l
<1> QED
  BY <1>1, <1>2

\* The history of the versions of r with o appended.
Appended(r, o) == [versions EXCEPT ![r] = Append(@, o)]

\* What add() does to the versions: those of r but the last stay superseded.
LEMMA AppendedVersions ==
    ASSUME StoreTypeOK, NEW r \in Runbooks, NEW o, NEW n \in Nat,
           o \in 1..n, Len(objects) <= n
    PROVE  /\ Appended(r, o) \in [Runbooks -> Seq(1..n)]
           /\ \A q \in Runbooks : \A i \in DOMAIN versions[q] :
                 i \in DOMAIN Appended(r, o)[q] /\ Appended(r, o)[q][i] = versions[q][i]
           /\ \A q \in Runbooks \ {r} : Appended(r, o)[q] = versions[q]
           /\ Len(Appended(r, o)[r]) = Len(versions[r]) + 1
           /\ Appended(r, o)[r][Len(versions[r]) + 1] = o
<1>1. objects \in Seq(Runbook) /\ versions \in [Runbooks -> Seq(DOMAIN objects)]
  BY DEF StoreTypeOK
<1>2. DOMAIN objects = 1..Len(objects) /\ DOMAIN objects \subseteq 1..n
  BY <1>1
<1>3. \A q \in Runbooks : versions[q] \in Seq(1..n)
  BY <1>1, <1>2
<1>4. Append(versions[r], o) \in Seq(1..n)
  BY <1>3
<1>5. \A q \in Runbooks : Appended(r, o)[q] = IF q = r THEN Append(versions[r], o) ELSE versions[q]
  BY <1>1 DEF Appended
<1>6. Appended(r, o) \in [Runbooks -> Seq(1..n)]
  BY <1>1, <1>3, <1>4, <1>5 DEF Appended
<1>7. /\ Len(Append(versions[r], o)) = Len(versions[r]) + 1
      /\ Append(versions[r], o)[Len(versions[r]) + 1] = o
      /\ \A i \in DOMAIN versions[r] : /\ i \in DOMAIN Append(versions[r], o)
                                       /\ Append(versions[r], o)[i] = versions[r][i]
  BY <1>3
<1> QED
  BY <1>5, <1>6, <1>7

\* Both forms of add() keep the invariant, given what they do to the objects.
LEMMA AddKeepsInvariant ==
    ASSUME IInv, NEW r \in Runbooks, NEW o,
           objects' \in Seq(Runbook), o \in DOMAIN objects',
           Len(objects) <= Len(objects'),
           \A p \in DOMAIN objects : objects'[p] = Superseded(r)[p],
           \A p \in DOMAIN objects' \ DOMAIN objects : p = o /\ objects'[p].checked,
           versions' = Appended(r, o), now' = now
    PROVE  IInv'
<1> USE DEF IInv
<1>1. StoreTypeOK /\ objects \in Seq(Runbook) /\ now \in Nat
  BY DEF StoreTypeOK, Times
<1>2. /\ DOMAIN objects = 1..Len(objects) /\ DOMAIN objects' = 1..Len(objects')
      /\ Len(objects) \in Nat /\ Len(objects') \in Nat
  BY <1>1
<1>3. /\ versions' \in [Runbooks -> Seq(1..Len(objects'))]
      /\ \A q \in Runbooks : \A i \in DOMAIN versions[q] :
            i \in DOMAIN versions'[q] /\ versions'[q][i] = versions[q][i]
      /\ \A q \in Runbooks \ {r} : versions'[q] = versions[q]
      /\ Len(versions'[r]) = Len(versions[r]) + 1
      /\ versions'[r][Len(versions[r]) + 1] = o
  BY <1>1, <1>2, AppendedVersions
<1>4. StoreTypeOK'
  BY <1>1, <1>2, <1>3 DEF StoreTypeOK
<1>5. SupersededIsOver'
  <2> SUFFICES ASSUME NEW q \in Runbooks, NEW i \in 1..Len(versions'[q]) - 1
               PROVE  objects'[versions'[q][i]].until <= now
    BY DEF SupersededIsOver
  <2>1. versions[q] \in Seq(DOMAIN objects) /\ Len(versions[q]) \in Nat
    BY <1>1 DEF StoreTypeOK
  <2>2. i \in DOMAIN versions[q] /\ versions'[q][i] = versions[q][i]
    <3>1. Len(versions'[q]) <= Len(versions[q]) + 1
      <4>1. CASE q = r
        BY <1>3, <2>1, <4>1
      <4>2. CASE q # r
        <5>1. versions'[q] = versions[q]
          BY <1>3, <4>2
        <5> QED
          BY <2>1, <5>1
      <4> QED
        BY <4>1, <4>2
    <3>2. Len(versions'[q]) \in Nat
      BY <1>3
    <3>3. i \in 1..Len(versions[q])
      BY <2>1, <3>1, <3>2
    <3>4. i \in DOMAIN versions[q]
      BY <2>1, <3>3
    <3> QED
      BY <1>3, <3>4, Zenon
  <2> DEFINE p == versions[q][i]
  <2>3. p \in DOMAIN objects /\ objects'[p] = Superseded(r)[p]
    BY <2>1, <2>2
  <2>4. CASE objects[p].until <= now
    BY <1>1, <2>2, <2>3, <2>4, SupersededObjects
  <2>5. CASE ~(objects[p].until <= now)
    <3>1. ~(i \in 1..Len(versions[q]) - 1)
      BY <2>5 DEF SupersededIsOver
    <3>2. i = Len(versions[q])
      BY <2>1, <2>2, <3>1
    <3>3. q = r
      BY <1>3, <3>1
    <3>4. Known(r) /\ p = Latest(r)
      BY <2>1, <2>2, <3>2, <3>3 DEF Known, Latest
    <3>5. Superseded(r)[p].until = now
      BY <1>1, <2>3, <3>4, SupersededObjects
    <3> QED
      BY <1>1, <2>2, <2>3, <3>5
  <2> QED
    BY <2>4, <2>5
<1>6. AllStored'
  <2> SUFFICES ASSUME NEW p \in DOMAIN objects'
               PROVE  \E q \in Runbooks : \E i \in DOMAIN versions'[q] : versions'[q][i] = p
    BY DEF AllStored
  <2>1. CASE p \in DOMAIN objects
    <3>1. PICK q \in Runbooks : \E i \in DOMAIN versions[q] : versions[q][i] = p
      BY <2>1 DEF AllStored
    <3> QED
      BY <1>3, <3>1
  <2>2. CASE p \notin DOMAIN objects
    <3>1. versions[r] \in Seq(DOMAIN objects) /\ versions'[r] \in Seq(1..Len(objects'))
      BY <1>1, <1>3 DEF StoreTypeOK
    <3>2. Len(versions[r]) + 1 \in DOMAIN versions'[r]
      BY <1>3, <3>1
    <3> QED
      BY <1>3, <2>2, <3>2
  <2> QED
    BY <2>1, <2>2
<1>7. ValidIsChecked'
  BY <1>1, <1>2, SupersededObjects DEF ValidIsChecked
<1> QED
  BY <1>4, <1>5, <1>6, <1>7

\* Objects that are only marked or verified keep the invariant, when those that
\* are valid afterwards were checked.
LEMMA MarkingKeepsInvariant ==
    ASSUME IInv, UNCHANGED <<versions, now>>,
           objects' \in Seq(Runbook), Len(objects') = Len(objects),
           \A o \in DOMAIN objects :
               /\ objects'[o].until = objects[o].until
               /\ objects'[o].status = "valid" => objects'[o].checked
    PROVE  IInv'
<1>1. objects \in Seq(Runbook) /\ DOMAIN objects' = DOMAIN objects
  BY DEF IInv, StoreTypeOK
<1>2. StoreTypeOK'
  BY <1>1 DEF IInv, StoreTypeOK
<1>3. \A r \in Runbooks : \A i \in DOMAIN versions[r] : versions[r][i] \in DOMAIN objects
  BY DEF IInv, StoreTypeOK
<1>4. SupersededIsOver'
  <2>1. \A r \in Runbooks : \A i \in 1..Len(versions[r]) - 1 : i \in DOMAIN versions[r]
    BY DEF IInv, StoreTypeOK
  <2> QED
    BY <1>3, <2>1 DEF IInv, SupersededIsOver
<1>5. AllStored' /\ ValidIsChecked'
  BY <1>1 DEF IInv, AllStored, ValidIsChecked
<1> QED
  BY <1>2, <1>4, <1>5 DEF IInv

\* Marking some objects pending changes no field but their status.
LEMMA PendingObjects ==
    ASSUME StoreTypeOK, NEW stale
    PROVE  /\ Pending(stale) \in Seq(Runbook)
           /\ Len(Pending(stale)) = Len(objects)
           /\ \A o \in DOMAIN objects :
                 /\ Pending(stale)[o] \in Runbook
                 /\ Pending(stale)[o].until = objects[o].until
                 /\ Pending(stale)[o].checked = objects[o].checked
                 /\ Pending(stale)[o].status = "valid" => objects[o].status = "valid" /\ o \notin stale
<1>1. objects \in Seq(Runbook) /\ DOMAIN objects = 1..Len(objects) /\ Len(objects) \in Nat
  BY DEF StoreTypeOK
<1>2. ASSUME NEW o \in DOMAIN objects
      PROVE  /\ objects[o] \in Runbook
             /\ [objects[o] EXCEPT !.status = "pending"] \in Runbook
             /\ [objects[o] EXCEPT !.status = "pending"].until = objects[o].until
             /\ [objects[o] EXCEPT !.status = "pending"].checked = objects[o].checked
             /\ [objects[o] EXCEPT !.status = "pending"].status = "pending"
  <2>1. objects[o] \in Runbook
    BY <1>1
  <2> QED
    BY <2>1 DEF Runbook
<1>3. \A o \in DOMAIN objects : Pending(stale)[o] \in Runbook
  BY <1>2 DEF Pending
<1>4. Pending(stale) \in Seq(Runbook) /\ Len(Pending(stale)) = Len(objects)
  BY <1>1, <1>3 DEF Pending
<1> QED
  BY <1>2, <1>3, <1>4 DEF Pending

-----------------------------------------------------------------------------
\* The invariant of the store holds at the start.
LEMMA InitInvariant == StoreInit => IInv
BY StoreAssumption DEF StoreInit, IInv, StoreTypeOK, SupersededIsOver, AllStored, ValidIsChecked, Times

\* Every step of the store keeps its invariant.
LEMMA NextInvariant == IInv /\ [StoreNext]_storeVars => IInv'
<1> SUFFICES ASSUME IInv, [StoreNext]_storeVars
             PROVE  IInv'
  OBVIOUS
<1>t. StoreTypeOK
  BY DEF IInv
<1>1. ASSUME NEW r \in Runbooks, Add(r)
      PROVE  IInv'
  <2>1. PICK s \in Services, text \in Texts, label \in Labels, until \in now..Never :
          /\ objects' = Append(Superseded(r),
                               [service |-> s, text |-> text, label |-> label, status |-> "valid",
                                until |-> until, checked |-> TRUE])
          /\ versions' = Appended(r, Len(objects) + 1)
          /\ now' = now
    BY <1>1 DEF Add, Appended
  <2> DEFINE rb == [service |-> s, text |-> text, label |-> label, status |-> "valid",
                    until |-> until, checked |-> TRUE]
  <2>2. until \in Times \cup {Never}
    BY <1>t, StoreAssumption DEF StoreTypeOK, Times, Never
  <2>3. rb \in Runbook /\ rb.checked
    BY <2>2 DEF Runbook
  <2>4. Superseded(r) \in Seq(Runbook) /\ Len(Superseded(r)) = Len(objects)
    BY <1>t, SupersededObjects
  <2>5. /\ objects \in Seq(Runbook) /\ Len(objects) \in Nat /\ DOMAIN objects = 1..Len(objects)
    BY <1>t DEF StoreTypeOK
  <2>6. objects' = Append(Superseded(r), rb)
    BY <2>1
  <2> HIDE DEF rb
  <2>7. /\ objects' \in Seq(Runbook) /\ Len(objects') = Len(objects) + 1
        /\ objects'[Len(objects) + 1] = rb
        /\ DOMAIN objects' = 1..Len(objects) + 1
        /\ \A p \in DOMAIN objects : objects'[p] = Superseded(r)[p]
    BY <2>3, <2>4, <2>5, <2>6
  <2>8. \A p \in DOMAIN objects' \ DOMAIN objects : p = Len(objects) + 1 /\ objects'[p].checked
    BY <2>3, <2>5, <2>7
  <2>9. Len(objects) + 1 \in DOMAIN objects' /\ Len(objects) <= Len(objects')
    BY <2>5, <2>7
  <2> QED
    BY <2>1, <2>7, <2>8, <2>9, AddKeepsInvariant
<1>2. ASSUME NEW r \in Runbooks, AddAgain(r)
      PROVE  IInv'
  <2>1. Known(r) /\ objects' = Superseded(r) /\ now' = now
    BY <1>2 DEF AddAgain
  <2>2. PICK o \in VersionsOf(r) : versions' = Appended(r, o)
    BY <1>2 DEF AddAgain, Appended
  <2>3. o \in DOMAIN objects
    BY <1>t, <2>2 DEF VersionsOf, StoreTypeOK
  <2>4. Superseded(r) \in Seq(Runbook) /\ Len(Superseded(r)) = Len(objects)
    BY <1>t, SupersededObjects
  <2>5. objects \in Seq(Runbook)
    BY <1>t DEF StoreTypeOK
  <2>6. DOMAIN objects' = DOMAIN objects /\ Len(objects) <= Len(objects')
    BY <2>1, <2>4, <2>5
  <2> QED
    BY <2>1, <2>2, <2>3, <2>4, <2>6, AddKeepsInvariant
<1>3. ASSUME NEW r \in Runbooks, MarkPending(r)
      PROVE  IInv'
  BY <1>t, <1>3, PendingObjects, MarkingKeepsInvariant DEF MarkPending, IInv, ValidIsChecked
<1>4. ASSUME NEW r \in Runbooks, Verify(r)
      PROVE  IInv'
  <2>1. PICK o \in Reachable(r) :
          objects' = [objects EXCEPT ![o].status = "valid", ![o].checked = TRUE]
    BY <1>4 DEF Verify
  <2>2. o \in DOMAIN objects /\ objects \in Seq(Runbook) /\ objects[o] \in Runbook
    <3>1. o \in DOMAIN objects
      BY <1>t, <1>4, <2>1, ReachableIsStored DEF Verify
    <3> QED
      BY <1>t, <3>1 DEF StoreTypeOK
  <2> DEFINE new == [objects[o] EXCEPT !.status = "valid", !.checked = TRUE]
  <2>3. new \in Runbook /\ new.until = objects[o].until /\ new.checked
    BY <2>2 DEF Runbook
  <2>4. objects' = [objects EXCEPT ![o] = new]
    BY <2>1, <2>2 DEF Runbook
  <2> HIDE DEF new
  <2>5. /\ objects' \in Seq(Runbook) /\ Len(objects') = Len(objects)
        /\ \A p \in DOMAIN objects : objects'[p] = IF p = o THEN new ELSE objects[p]
    BY <2>2, <2>3, <2>4
  <2>6. UNCHANGED <<versions, now>>
    BY <1>4 DEF Verify
  <2> QED
    BY <2>3, <2>5, <2>6, MarkingKeepsInvariant DEF IInv, ValidIsChecked
<1>5. ASSUME NEW s \in Services, MarkServicePending(s)
      PROVE  IInv'
  <2> DEFINE stale == {o \in Stored : objects[o].service = s}
             p == Pending(stale)
  <2>1. /\ objects' = [o \in DOMAIN objects |-> [p[o] EXCEPT !.checked = @ /\ objects[o].service # s]]
        /\ UNCHANGED <<versions, now>>
    BY <1>5 DEF MarkServicePending, Upgraded
  <2>2. /\ p \in Seq(Runbook) /\ Len(p) = Len(objects)
        /\ \A o \in DOMAIN objects :
              /\ p[o] \in Runbook
              /\ p[o].until = objects[o].until
              /\ p[o].checked = objects[o].checked
              /\ p[o].status = "valid" => objects[o].status = "valid" /\ o \notin stale
    BY <1>t, PendingObjects
  <2>3. \A o \in DOMAIN objects : o \in Stored
    BY DEF IInv, AllStored, Stored, VersionsOf
  <2>4. objects \in Seq(Runbook) /\ DOMAIN objects = 1..Len(objects) /\ Len(objects) \in Nat
    BY <1>t DEF StoreTypeOK
  <2>5. objects' = [o \in DOMAIN objects |-> objects'[o]]
    BY <2>1, Zenon
  <2>6. ASSUME NEW o \in DOMAIN objects
        PROVE  /\ objects'[o] \in Runbook
               /\ objects'[o].until = objects[o].until
               /\ objects'[o].status = "valid" => objects'[o].checked
    <3> DEFINE c == objects[o].service # s
    <3>1. objects'[o] = [p[o] EXCEPT !.checked = @ /\ c]
      BY <2>1
    <3>2. p[o] \in Runbook
      BY <2>2
    <3>3. p[o].checked \in BOOLEAN /\ c \in BOOLEAN
      BY <3>2 DEF Runbook
    <3>4. (p[o].checked /\ c) \in BOOLEAN
      BY <3>3
    <3> DEFINE b == p[o].checked /\ c
    <3>5. objects'[o] = [p[o] EXCEPT !.checked = b]
      BY <3>1, <3>2 DEF Runbook
    <3>6. /\ objects'[o].until = p[o].until
          /\ objects'[o].status = p[o].status
          /\ objects'[o].checked = b
      BY <3>2, <3>5 DEF Runbook
    <3>7. objects'[o] \in Runbook
      <4> HIDE DEF b
      <4> QED
        BY <3>2, <3>4, <3>5 DEF Runbook, b
    <3>8. ASSUME p[o].status = "valid"
          PROVE  b
      <4>1. objects[o].status = "valid" /\ o \notin stale
        BY <2>2, <3>8
      <4>2. c
        BY <2>3, <4>1
      <4>3. objects[o].checked
        BY <4>1 DEF IInv, ValidIsChecked
      <4> QED
        BY <2>2, <4>2, <4>3
    <3> QED
      BY <2>2, <3>6, <3>7, <3>8
  <2>7. objects' \in Seq(Runbook) /\ Len(objects') = Len(objects)
    BY <2>4, <2>5, <2>6
  <2> QED
    BY <2>1, <2>6, <2>7, MarkingKeepsInvariant
<1>6. CASE Tick
  <2>1. now \in Times /\ now' = now + 1 /\ now' \in Times /\ UNCHANGED <<objects, versions>>
    BY <1>t, <1>6, StoreAssumption DEF Tick, StoreTypeOK, Times
  <2>2. StoreTypeOK'
    BY <1>t, <2>1 DEF StoreTypeOK
  <2>3. SupersededIsOver'
    <3> SUFFICES ASSUME NEW r \in Runbooks, NEW i \in 1..Len(versions[r]) - 1
                 PROVE  objects[versions[r][i]].until <= now + 1
      BY <2>1 DEF SupersededIsOver
    <3>1. versions[r] \in Seq(DOMAIN objects) /\ i \in DOMAIN versions[r]
      BY <1>t DEF StoreTypeOK
    <3>2. versions[r][i] \in DOMAIN objects /\ objects \in Seq(Runbook)
      BY <1>t, <3>1 DEF StoreTypeOK
    <3>3. objects[versions[r][i]] \in Runbook
      BY <3>2
    <3>4. objects[versions[r][i]].until \in Nat /\ now \in Nat
      BY <2>1, <3>3, StoreAssumption DEF Runbook, Times, Never
    <3>5. objects[versions[r][i]].until <= now
      BY DEF IInv, SupersededIsOver
    <3> QED
      BY <3>4, <3>5
  <2>4. AllStored' /\ ValidIsChecked'
    BY <2>1 DEF IInv, AllStored, ValidIsChecked
  <2> QED
    BY <2>2, <2>3, <2>4 DEF IInv
<1>7. CASE UNCHANGED storeVars
  BY <1>7 DEF storeVars, IInv, StoreTypeOK, SupersededIsOver, AllStored, ValidIsChecked
<1> QED
  BY <1>1, <1>2, <1>3, <1>4, <1>5, <1>6, <1>7 DEF StoreNext

\* The invariant of the store holds always.
LEMMA StoreInvariant == StoreSpec => []IInv
BY InitInvariant, NextInvariant, PTL DEF StoreSpec

\* The store is well formed: every version in a history is an object of it.
THEOREM StoreTypeCorrect == StoreSpec => []StoreTypeOK
BY StoreInvariant, PTL DEF IInv

\* No sequence of adds, put-backs, marks and verifications makes a superseded
\* version usable again.
THEOREM SupersededCorrect == StoreSpec => []SupersededStaysOut
<1>1. IInv => SupersededStaysOut
  <2> SUFFICES ASSUME IInv, NEW r \in Runbooks, NEW i \in 1..Len(versions[r]) - 1,
                      Usable(versions[r][i])
               PROVE  objects[versions[r][i]].until = now
    BY DEF SupersededStaysOut
  <2>1. versions[r] \in Seq(DOMAIN objects) /\ i \in DOMAIN versions[r]
    BY DEF IInv, StoreTypeOK
  <2>2. versions[r][i] \in DOMAIN objects /\ objects \in Seq(Runbook) /\ now \in Nat
    BY <2>1 DEF IInv, StoreTypeOK, Times
  <2>3. objects[versions[r][i]] \in Runbook
    BY <2>2
  <2>4. objects[versions[r][i]].until \in Nat
    BY <2>3, StoreAssumption DEF Runbook, Times, Never
  <2> QED
    BY <2>2, <2>4 DEF IInv, SupersededIsOver, Usable
<1> QED
  BY <1>1, StoreInvariant, PTL

\* After mark_service_pending, every usable runbook of the service was added or
\* verified since.
THEOREM UpgradeCorrect == StoreSpec => []UpgradeIsHonoured
<1>1. IInv => UpgradeIsHonoured
  BY DEF IInv, ValidIsChecked, UpgradeIsHonoured, Usable
<1> QED
  BY <1>1, StoreInvariant, PTL

-----------------------------------------------------------------------------
(* The search.                                                             *)

SearchTypeOK ==
    /\ search \in [query : SUBSET Texts, hits : Seq(Runbooks), k : Nat,
                   service : Services \cup {AnyService}, read : Nat, results : Seq(Nat),
                   told : Nat, answer : Seq([object : Nat, valid : BOOLEAN])]
    /\ search.read <= Len(Best)
    /\ search.told <= Len(search.results)
    /\ ~built => search = NoSearch
    /\ Idle => search = NoSearch

\* Only finitely many runbooks are in the store, so that all of them can be hits.
FewKnown == IsFiniteSet({r \in Runbooks : Known(r)})

\* No active runbook that matches is missed.
HitsAreComplete ==
    ~Idle => \A r \in Runbooks :
        Active(r) # 0 /\ index[r] \in search.query => \E i \in DOMAIN search.hits : search.hits[i] = r

\* What was found is still the newest, and a hit that was read again and is
\* still active was found.
ResultsAreCurrent == \A j \in DOMAIN search.results : Newest(search.results[j])
ReadIsKept ==
    \A m \in 1..search.read : \A r \in Runbooks :
        Best[m] = r /\ Active(r) # 0 => \E j \in DOMAIN search.results : search.results[j] = Active(r)

\* What was found, can still be used and was reported is in the answer.
ToldIsKept ==
    \A j \in 1..search.told :
        Usable(search.results[j]) /\ InService(search.results[j])
        => \E m \in DOMAIN search.answer :
              search.answer[m] = [object |-> search.results[j], valid |-> TRUE]

SearchInv ==
    /\ SearchTypeOK /\ FewKnown /\ HitsAreComplete
    /\ ResultsAreCurrent /\ ReadIsKept /\ ToldIsKept /\ ServedAreCurrent

\* The active version is the newest of the history that can be used.
LEMMA ActiveOf ==
    ASSUME StoreTypeOK, NEW r \in Runbooks
    PROVE  /\ Active(r) # 0 <=> \E i \in DOMAIN versions[r] : Usable(versions[r][i])
           /\ Active(r) \in Nat
           /\ Active(r) # 0 => /\ Active(r) \in DOMAIN objects
                               /\ Usable(Active(r))
                               /\ \E i \in DOMAIN versions[r] :
                                     /\ versions[r][i] = Active(r)
                                     /\ \A j \in DOMAIN versions[r] :
                                           Usable(versions[r][j]) => j <= i
<1> DEFINE usable == {i \in DOMAIN versions[r] : Usable(versions[r][i])}
           n == Len(versions[r])
           back == {n - i : i \in usable}
<1>1. /\ DOMAIN versions[r] = 1..n /\ n \in Nat
      /\ \A i \in 1..n : versions[r][i] \in DOMAIN objects
  BY DEF StoreTypeOK
<1>2. \A o \in DOMAIN objects : o # 0 /\ o \in Nat
  BY DEF StoreTypeOK
<1>3. usable \in SUBSET (1..n)
  BY <1>1
<1>4. ASSUME usable # {}
      PROVE  \E i \in usable : \A j \in usable : j <= i
  <2> HIDE DEF usable
  <2>1. back \in SUBSET Nat /\ back # {}
    <3>1. \A i \in usable : n - i \in Nat
      BY <1>1, <1>3
    <3> QED BY <1>4, <3>1
  <2>2. PICK m \in back : \A k \in back : m <= k
    <3> HIDE DEF back
    <3> QED BY <2>1, LeastNumber
  <2>3. PICK i \in usable : m = n - i
    BY <2>2
  <2>4. \A j \in usable : n - i <= n - j
    BY <2>2, <2>3
  <2>5. \A j \in usable : j <= i
    BY <1>1, <1>3, <2>3, <2>4
  <2> QED BY <2>3, <2>5
<1>5. Active(r) = IF usable = {} THEN 0
                  ELSE versions[r][CHOOSE i \in usable : \A j \in usable : j <= i]
  BY DEF Active
<1>6. CASE usable = {}
  <2>1. Active(r) = 0
    BY <1>5, <1>6
  <2>2. ~\E i \in DOMAIN versions[r] : Usable(versions[r][i])
    BY <1>6
  <2> QED BY <2>1, <2>2
<1>7. CASE usable # {}
  <2>1. PICK i : /\ i \in usable /\ Active(r) = versions[r][i]
                 /\ \A j \in usable : j <= i
    <3> HIDE DEF usable
    <3> QED BY <1>4, <1>5, <1>7
  <2>2. Active(r) \in DOMAIN objects /\ Usable(Active(r)) /\ i \in DOMAIN versions[r]
    BY <1>1, <1>3, <2>1
  <2>3. \A j \in DOMAIN versions[r] : Usable(versions[r][j]) => j <= i
    BY <2>1
  <2> QED BY <1>2, <2>1, <2>2, <2>3
<1> QED BY <1>6, <1>7

\* What time leaves usable was usable before.
LEMMA TickUsable ==
    ASSUME StoreTypeOK, Tick, NEW o \in DOMAIN objects,
           objects'[o].status = "valid", now' <= objects'[o].until
    PROVE  Usable(o)
<1>1. now \in Nat /\ now' = now + 1 /\ objects' = objects
  BY DEF Tick, StoreTypeOK, Times
<1>2. objects[o] \in Runbook
  BY DEF StoreTypeOK
<1>3. objects[o].until \in Nat
  BY <1>2, StoreAssumption DEF Runbook, Times, Never
<1> QED BY <1>1, <1>3 DEF Usable

\* A runbook that time leaves active keeps its active version: that can only be
\* the latest, as the others are over.
LEMMA TickActive ==
    ASSUME IInv, Tick, NEW r \in Runbooks, Active(r)' # 0
    PROVE  Active(r)' = Active(r) /\ Active(r) # 0
<1> DEFINE n == Len(versions[r])
           later == {i \in DOMAIN versions[r] : /\ objects[versions[r][i]].status = "valid"
                                                /\ now + 1 <= objects[versions[r][i]].until}
<1>t. StoreTypeOK
  BY DEF IInv
<1>1. now \in Nat /\ now' = now + 1 /\ objects' = objects /\ versions' = versions
  BY <1>t DEF Tick, StoreTypeOK, Times
<1>2. /\ n \in Nat /\ DOMAIN versions[r] = 1..n
      /\ \A i \in 1..n : versions[r][i] \in DOMAIN objects /\ objects[versions[r][i]].until \in Nat
  <2>1. n \in Nat /\ DOMAIN versions[r] = 1..n /\ \A i \in 1..n : versions[r][i] \in DOMAIN objects
    BY <1>t DEF StoreTypeOK
  <2>2. \A o \in DOMAIN objects : objects[o] \in Runbook
    BY <1>t DEF StoreTypeOK
  <2>3. \A o \in DOMAIN objects : objects[o].until \in Nat
    BY <2>2, StoreAssumption DEF Runbook, Times, Never
  <2> QED BY <2>1, <2>3
<1>3. Active(r)' = IF later = {} THEN 0
                   ELSE versions[r][CHOOSE i \in later : \A j \in later : j <= i]
  BY <1>1 DEF Active, Usable
<1>4. later # {}
  BY <1>3
<1>5. later \subseteq {n}
  <2> SUFFICES ASSUME NEW i \in later, i # n PROVE FALSE
    OBVIOUS
  <2>1. i \in 1..n - 1
    BY <1>2
  <2>2. objects[versions[r][i]].until <= now
    BY <2>1 DEF IInv, SupersededIsOver
  <2>3. now + 1 <= objects[versions[r][i]].until /\ objects[versions[r][i]].until \in Nat
    BY <1>2
  <2> QED BY <1>1, <2>2, <2>3
<1>6. later = {n} /\ n \in 1..n
  BY <1>2, <1>4, <1>5
<1>7. Active(r)' = versions[r][n]
  <2>1. \A i : i = n => (i \in {n} /\ \A j \in {n} : j <= i)
    BY <1>2
  <2>2. (CHOOSE i \in {n} : \A j \in {n} : j <= i) = n
    BY <2>1
  <2> HIDE DEF later, n
  <2> QED BY <1>3, <1>6, <2>2
<1>8. Usable(versions[r][n])
  <2>1. n \in later
    BY <1>6
  <2> QED BY <1>1, <1>2, <2>1 DEF Usable
<1>9. Active(r) # 0
  BY <1>t, <1>2, <1>6, <1>8, ActiveOf
<1>10. PICK m \in DOMAIN versions[r] : /\ versions[r][m] = Active(r)
                                       /\ \A j \in DOMAIN versions[r] :
                                             Usable(versions[r][j]) => j <= m
  BY <1>t, <1>9, ActiveOf
<1>11. m = n
  BY <1>2, <1>6, <1>8, <1>10
<1> QED BY <1>7, <1>9, <1>10, <1>11

\* A step of the store makes at most one more runbook known.
LEMMA FewKnownKept ==
    ASSUME StoreTypeOK, FewKnown, [StoreNext]_storeVars
    PROVE  FewKnown'
<1> DEFINE K == {r \in Runbooks : Known(r)}
<1>1. \E r : \A q \in Runbooks : versions'[q] # versions[q] => q = r
  <2>1. CASE \E r \in Runbooks : Add(r)
    BY <2>1 DEF Add, StoreTypeOK
  <2>2. CASE \E r \in Runbooks : AddAgain(r)
    BY <2>2 DEF AddAgain, StoreTypeOK
  <2>3. CASE versions' = versions
    BY <2>3
  <2> QED BY <2>1, <2>2, <2>3
      DEF StoreNext, storeVars, MarkPending, Verify, MarkServicePending, Tick
<1>2. PICK r : \A q \in Runbooks : versions'[q] # versions[q] => q = r
  BY <1>1
<1>3. {q \in Runbooks : Known(q)}' \subseteq K \cup {r}
  BY <1>2 DEF Known
<1>4. IsFiniteSet(K \cup {r})
  BY FS_AddElement DEF FewKnown
<1> QED BY <1>3, <1>4, FS_Subset DEF FewKnown

\* A search finds every runbook that it may find, each once.
LEMMA HitsOf ==
    ASSUME StoreTypeOK, FewKnown, NEW query, NEW hits \in Orders(Found(query))
    PROVE  /\ hits \in Seq(Runbooks)
           /\ \A r \in Found(query) : \E i \in DOMAIN hits : hits[i] = r
<1> DEFINE S == Found(query)
           n == Cardinality(S)
<1>1. S \subseteq {r \in Runbooks : Known(r)}
  <2> SUFFICES ASSUME NEW r \in Runbooks, Active(r) # 0 PROVE Known(r)
    BY DEF Found
  <2>1. DOMAIN versions[r] # {}
    BY ActiveOf
  <2> QED BY <2>1 DEF Known
<1>2. IsFiniteSet(S) /\ n \in Nat
  BY <1>1, FS_Subset, FS_CardinalityType DEF FewKnown
<1>3. S \subseteq Runbooks
  BY DEF Found
<1>4. hits \in [1..n -> S] /\ \A i, j \in 1..n : hits[i] = hits[j] => i = j
  BY DEF Orders
<1> HIDE DEF S
<1>5. IsFiniteSet(1..n) /\ Cardinality(1..n) = n
  BY <1>2, PlacesFinite
<1> HIDE DEF n
<1>6. hits \in Injection(1..n, S)
  BY <1>4 DEF Injection, IsInjective
<1>7. hits \in Surjection(1..n, S)
  BY <1>2, <1>5, <1>6, FS_Injection DEF n
<1>8. \A r \in S : \E i \in 1..n : hits[i] = r
  BY <1>7 DEF Surjection
<1>9. hits \in Seq(Runbooks) /\ DOMAIN hits = 1..n
  BY <1>2, <1>3, <1>4
<1> QED BY <1>8, <1>9 DEF S

-----------------------------------------------------------------------------
(* What the steps of a search keep.                                        *)

\* Nothing runs: there is nothing to keep.
LEMMA NothingRuns ==
    search = NoSearch /\ FewKnown => SearchInv
<1> SUFFICES ASSUME search = NoSearch, FewKnown PROVE SearchInv
  OBVIOUS
<1>1. /\ search.query = {} /\ search.hits = <<>> /\ search.k = 0 /\ search.service = AnyService
      /\ search.read = 0 /\ search.results = <<>> /\ search.told = 0 /\ search.answer = <<>>
  BY DEF NoSearch, Started
<1>2. SearchTypeOK
  <2>1. Best = SubSeq(<<>>, 1, 0) /\ Len(Best) = 0
    BY <1>1 DEF Best
  <2> QED BY <1>1, <2>1 DEF SearchTypeOK, NoSearch, Started
<1>3. HitsAreComplete
  BY <1>1 DEF HitsAreComplete, Idle
<1>4. ResultsAreCurrent /\ ServedAreCurrent /\ ReadIsKept /\ ToldIsKept
  BY <1>1 DEF ResultsAreCurrent, ServedAreCurrent, ReadIsKept, ToldIsKept
<1> QED BY <1>2, <1>3, <1>4 DEF SearchInv

\* The hits that are kept are the first ones, at most as many as asked for.
LEMMA BestOf ==
    ASSUME SearchTypeOK
    PROVE  /\ Best \in Seq(Runbooks) /\ Len(Best) <= search.k
           /\ Len(search.hits) <= search.k => Len(Best) = Len(search.hits)
           /\ \A i \in 1..Len(Best) : i \in DOMAIN search.hits /\ Best[i] = search.hits[i]
<1> DEFINE hits == search.hits
           m == IF Len(hits) < search.k THEN Len(hits) ELSE search.k
<1>1. hits \in Seq(Runbooks) /\ Len(hits) \in Nat /\ search.k \in Nat
  BY DEF SearchTypeOK
<1>2. m \in Nat /\ m <= Len(hits) /\ m <= search.k /\ (Len(hits) <= search.k => m = Len(hits))
  BY <1>1
<1>3. Best = SubSeq(hits, 1, m)
  BY DEF Best
<1> HIDE DEF m
<1>4. /\ Best \in Seq(Runbooks) /\ Len(Best) = m
      /\ \A i \in 1..m : i \in DOMAIN hits /\ Best[i] = hits[i]
  BY <1>1, <1>2, <1>3
<1> QED BY <1>2, <1>4

\* The active version is the newest one that can be used.
LEMMA ActiveIsNewest ==
    ASSUME StoreTypeOK, NEW r \in Runbooks, Active(r) # 0
    PROVE  Newest(Active(r))
<1>1. PICK i \in DOMAIN versions[r] : /\ versions[r][i] = Active(r)
                                      /\ \A j \in DOMAIN versions[r] :
                                            Usable(versions[r][j]) => j <= i
  BY ActiveOf
<1>2. DOMAIN versions[r] = 1..Len(versions[r]) /\ Len(versions[r]) \in Nat
  BY DEF StoreTypeOK
<1>3. \A j \in i + 1..Len(versions[r]) : j \in DOMAIN versions[r] /\ ~(j <= i)
  BY <1>2
<1> QED BY <1>1, <1>3 DEF Newest

\* The newest version that can be used is an object.
LEMMA NewestIsStored ==
    ASSUME StoreTypeOK, NEW o, Newest(o)
    PROVE  o \in DOMAIN objects
BY DEF Newest, StoreTypeOK

\* It stays the newest while time passes.
LEMMA TickNewest ==
    ASSUME StoreTypeOK, Tick, NEW o, Newest(o)
    PROVE  Newest(o)'
<1>1. PICK r \in Runbooks : \E i \in DOMAIN versions[r] :
          versions[r][i] = o /\ \A j \in i + 1..Len(versions[r]) : ~Usable(versions[r][j])
  BY DEF Newest
<1>2. PICK i \in DOMAIN versions[r] :
          versions[r][i] = o /\ \A j \in i + 1..Len(versions[r]) : ~Usable(versions[r][j])
  BY <1>1
<1>3. /\ DOMAIN versions[r] = 1..Len(versions[r]) /\ Len(versions[r]) \in Nat
      /\ \A j \in DOMAIN versions[r] : versions[r][j] \in DOMAIN objects
  BY DEF StoreTypeOK
<1>4. versions' = versions /\ objects' = objects /\ now' = now + 1
  BY DEF Tick
<1>5. ASSUME NEW j \in i + 1..Len(versions[r]),
             objects'[versions'[r][j]].status = "valid", now' <= objects'[versions'[r][j]].until
      PROVE  FALSE
  <2>1. versions[r][j] \in DOMAIN objects
    BY <1>3
  <2>2. Usable(versions[r][j])
    BY <1>4, <1>5, <2>1, TickUsable
  <2> QED BY <1>2, <2>2
<1> QED BY <1>2, <1>4, <1>5 DEF Newest, Usable

\* Time takes nothing away from a search but what expires.
LEMMA TickKeeps ==
    ASSUME IInv, SearchInv, Tick, UNCHANGED searchVars
    PROVE  /\ HitsAreComplete' /\ ResultsAreCurrent' /\ ReadIsKept' /\ ToldIsKept'
           /\ ServedAreCurrent'
<1>t. StoreTypeOK /\ SearchTypeOK
  BY DEF IInv, SearchInv
<1>1. /\ index' = index /\ search' = search /\ versions' = versions /\ objects' = objects
      /\ Best' = Best
  BY DEF searchVars, Tick, Best
<1>2. HitsAreComplete'
  BY <1>1, TickActive DEF SearchInv, HitsAreComplete, Idle
<1>3. ResultsAreCurrent'
  BY <1>t, <1>1, TickNewest DEF SearchInv, ResultsAreCurrent
<1>4. ReadIsKept'
  BY <1>1, TickActive DEF SearchInv, ReadIsKept
<1>5. ToldIsKept'
  <2> SUFFICES ASSUME NEW j \in 1..search.told, InService(search.results[j]),
                      objects'[search.results[j]].status = "valid",
                      now' <= objects'[search.results[j]].until
               PROVE  \E m \in DOMAIN search.answer :
                         search.answer[m] = [object |-> search.results[j], valid |-> TRUE]
    BY <1>1 DEF ToldIsKept, InService, Usable
  <2>1. search.results[j] \in DOMAIN objects
    <3>1. j \in DOMAIN search.results
      BY <1>t DEF SearchTypeOK
    <3> QED BY <1>t, <3>1, NewestIsStored DEF SearchInv, ResultsAreCurrent
  <2>2. Usable(search.results[j])
    BY <1>t, <2>1, TickUsable
  <2> QED BY <2>2 DEF SearchInv, ToldIsKept
<1>6. ServedAreCurrent'
  BY <1>t, <1>1, TickNewest DEF SearchInv, ServedAreCurrent
<1> QED BY <1>2, <1>3, <1>4, <1>5, <1>6

\* Appending changes nothing but the end.
LEMMA AppendedAtEnd ==
    ASSUME NEW S, NEW t \in Seq(S), NEW e \in S
    PROVE  /\ Append(t, e) \in Seq(S)
           /\ Len(t) \in Nat /\ Len(Append(t, e)) = Len(t) + 1
           /\ Len(t) + 1 \in DOMAIN Append(t, e) /\ Append(t, e)[Len(t) + 1] = e
           /\ \A j \in DOMAIN t : j \in DOMAIN Append(t, e) /\ Append(t, e)[j] = t[j]
           /\ \A j \in DOMAIN Append(t, e) : j \in DOMAIN t \/ Append(t, e)[j] = e
OBVIOUS

\* A search starts with all its hits and nothing read.
LEMMA ScoreKeeps ==
    ASSUME IInv, SearchInv, NEW query \in SUBSET Texts \ {{}}, NEW k \in MaxResults,
           NEW s \in Services \cup {AnyService}, Score(query, k, s), FewKnown'
    PROVE  SearchInv'
<1>t. StoreTypeOK /\ FewKnown
  BY DEF IInv, SearchInv
<1>1. PICK hits \in Orders(Found(query)) : search' = Started(query, hits, k, s)
  BY DEF Score
<1>2. /\ search'.query = query /\ search'.hits = hits /\ search'.k = k /\ search'.service = s
      /\ search'.read = 0 /\ search'.results = <<>> /\ search'.told = 0 /\ search'.answer = <<>>
  BY <1>1 DEF Started
<1>3. /\ index' = index /\ built' /\ objects' = objects /\ versions' = versions /\ now' = now
      /\ k \in Nat \ {0} /\ hits \in Seq(Runbooks)
  BY <1>t, SearchAssumption, HitsOf DEF Score, storeVars
<1>4. SearchTypeOK'
  <2>1. search' \in [query : SUBSET Texts, hits : Seq(Runbooks), k : Nat,
                     service : Services \cup {AnyService}, read : Nat, results : Seq(Nat),
                     told : Nat, answer : Seq([object : Nat, valid : BOOLEAN])]
    BY <1>1, <1>3 DEF Started
  <2>2. 0 <= Len(Best')
    <3> DEFINE m == IF Len(hits) < k THEN Len(hits) ELSE k
    <3>1. m \in Nat /\ m <= Len(hits)
      BY <1>3
    <3>2. Best' = SubSeq(hits, 1, m)
      BY <1>2 DEF Best
    <3> HIDE DEF m
    <3>3. Len(SubSeq(hits, 1, m)) = m
      BY <1>3, <3>1
    <3> QED BY <3>1, <3>2, <3>3
  <2> QED BY <1>2, <1>3, <2>1, <2>2 DEF SearchTypeOK, Idle
<1>5. HitsAreComplete'
  <2>1. \A r \in Runbooks : Active(r)' = Active(r)
    BY <1>3 DEF Active, Usable
  <2>2. \A r \in Runbooks :
           Active(r) # 0 /\ index[r] \in query => \E i \in DOMAIN hits : hits[i] = r
    <3>1. \A r \in Found(query) : \E i \in DOMAIN hits : hits[i] = r
      BY <1>t, HitsOf
    <3> QED BY <3>1 DEF Found
  <2> SUFFICES ASSUME NEW r \in Runbooks, Active(r)' # 0, index[r] \in query
               PROVE  \E i \in DOMAIN hits : hits[i] = r
    BY <1>2, <1>3 DEF HitsAreComplete
  <2>3. Active(r) # 0
    BY <2>1
  <2> QED BY <2>2, <2>3
<1>6. ResultsAreCurrent' /\ ServedAreCurrent' /\ ReadIsKept' /\ ToldIsKept'
  BY <1>2 DEF ResultsAreCurrent, ServedAreCurrent, ReadIsKept, ToldIsKept
<1> QED BY <1>4, <1>5, <1>6 DEF SearchInv

\* Reading a hit again adds its newest version, or drops it when it expired.
LEMMA ReadKeeps ==
    ASSUME IInv, SearchInv, Read, FewKnown'
    PROVE  SearchInv'
<1> DEFINE o == Active(Best[search.read + 1])
<1>t. StoreTypeOK /\ SearchTypeOK /\ search.read \in Nat
  BY DEF IInv, SearchInv, SearchTypeOK
<1>b. Best \in Seq(Runbooks) /\ Len(Best) <= search.k /\ search.read < Len(Best)
  BY <1>t, BestOf DEF Read
<1>r. Best[search.read + 1] \in Runbooks
  BY <1>t, <1>b
<1>o. o \in Nat /\ (o # 0 => Newest(o))
  BY <1>t, <1>r, ActiveOf, ActiveIsNewest
<1> HIDE DEF o
<1>1. search' = [search EXCEPT !.read = @ + 1, !.results = IF o = 0 THEN @ ELSE Append(@, o)]
  BY DEF Read, o
<1>2. /\ search'.query = search.query /\ search'.hits = search.hits /\ search'.k = search.k
      /\ search'.service = search.service /\ search'.read = search.read + 1
      /\ search'.results = IF o = 0 THEN search.results ELSE Append(search.results, o)
      /\ search'.told = search.told /\ search'.answer = search.answer
  BY <1>t, <1>1 DEF SearchTypeOK
<1>3. /\ index' = index /\ built' = built /\ objects' = objects /\ versions' = versions /\ now' = now
      /\ Best' = Best
  <2>1. Best' = Best
    BY <1>2 DEF Best
  <2> QED BY <2>1 DEF Read, storeVars
<1>4. /\ search.results \in Seq(Nat) /\ search'.results \in Seq(Nat)
      /\ Len(search.results) <= Len(search'.results)
      /\ \A j \in DOMAIN search.results : /\ j \in DOMAIN search'.results
                                          /\ search'.results[j] = search.results[j]
      /\ \A j \in DOMAIN search'.results : j \in DOMAIN search.results \/ search'.results[j] = o
      /\ o # 0 => \E j \in DOMAIN search'.results : search'.results[j] = o
      /\ o = 0 => search'.results = search.results
  <2>1. search.results \in Seq(Nat)
    BY <1>t DEF SearchTypeOK
  <2>2. CASE o = 0
    BY <1>2, <2>1, <2>2
  <2>3. CASE o # 0
    <3> DEFINE t == search.results
    <3>1. search'.results = Append(t, o)
      BY <1>2, <2>3
    <3>2. t \in Seq(Nat)
      BY <2>1
    <3> HIDE DEF t
    <3>3. /\ Append(t, o) \in Seq(Nat) /\ Len(t) <= Len(Append(t, o))
          /\ Len(t) + 1 \in DOMAIN Append(t, o) /\ Append(t, o)[Len(t) + 1] = o
          /\ \A j \in DOMAIN t : j \in DOMAIN Append(t, o) /\ Append(t, o)[j] = t[j]
          /\ \A j \in DOMAIN Append(t, o) : j \in DOMAIN t \/ Append(t, o)[j] = o
      BY <1>o, <3>2, AppendedAtEnd
    <3> QED BY <2>1, <2>3, <3>1, <3>3 DEF t
  <2> QED BY <2>2, <2>3
<1>5. SearchTypeOK'
  <2>1. search' \in [query : SUBSET Texts, hits : Seq(Runbooks), k : Nat,
                     service : Services \cup {AnyService}, read : Nat, results : Seq(Nat),
                     told : Nat, answer : Seq([object : Nat, valid : BOOLEAN])]
    <3> DEFINE results == IF o = 0 THEN search.results ELSE Append(search.results, o)
    <3>1. results \in Seq(Nat)
      BY <1>2, <1>4
    <3>2. search' = [search EXCEPT !.read = search.read + 1, !.results = results]
      BY <1>1
    <3> HIDE DEF results
    <3> DEFINE X == [query : SUBSET Texts, hits : Seq(Runbooks), k : Nat,
                     service : Services \cup {AnyService}, read : Nat, results : Seq(Nat),
                     told : Nat, answer : Seq([object : Nat, valid : BOOLEAN])]
    <3>3. search \in X /\ search.read + 1 \in Nat
      BY <1>t DEF SearchTypeOK
    <3> QED BY <3>1, <3>2, <3>3
  <2>2. ~Idle /\ built
    <3>1. search # NoSearch
      <4> SUFFICES ASSUME search = NoSearch PROVE FALSE
        OBVIOUS
      <4>1. search.k = 0
        BY DEF NoSearch, Started
      <4> QED BY <1>t, <1>b, <4>1
    <3> QED BY <1>t, <3>1 DEF SearchTypeOK
  <2>3. search.told <= Len(search'.results)
    BY <1>t, <1>4 DEF SearchTypeOK
  <2>4. search.read + 1 <= Len(Best)
    BY <1>t, <1>b
  <2> QED BY <1>2, <1>3, <2>1, <2>2, <2>3, <2>4 DEF SearchTypeOK, Idle
<1>6. HitsAreComplete'
  <2>1. \A r \in Runbooks : Active(r)' = Active(r)
    BY <1>3 DEF Active, Usable
  <2> QED BY <1>2, <1>3, <2>1 DEF SearchInv, HitsAreComplete, Idle
<1>7. ResultsAreCurrent'
  <2> SUFFICES ASSUME NEW j \in DOMAIN search'.results
               PROVE  Newest(search'.results[j])
    BY <1>3 DEF ResultsAreCurrent, Newest, Usable
  <2>1. CASE j \in DOMAIN search.results
    <3>1. Newest(search.results[j])
      BY <2>1 DEF SearchInv, ResultsAreCurrent
    <3> QED BY <1>4, <2>1, <3>1
  <2>2. CASE j \notin DOMAIN search.results
    <3>1. search'.results[j] = o /\ o # 0
      BY <1>4, <2>2
    <3> QED BY <1>o, <3>1
  <2> QED BY <2>1, <2>2
<1>8. ReadIsKept'
  <2>1. \A r \in Runbooks : Active(r)' = Active(r)
    BY <1>3 DEF Active, Usable
  <2> SUFFICES ASSUME NEW m \in 1..search.read + 1, NEW r \in Runbooks, Best[m] = r, Active(r) # 0
               PROVE  \E j \in DOMAIN search'.results : search'.results[j] = Active(r)
    BY <1>2, <1>3, <2>1 DEF ReadIsKept
  <2>2. CASE m = search.read + 1
    BY <1>4, <2>2 DEF o
  <2>3. CASE m # search.read + 1
    <3>1. m \in 1..search.read
      BY <1>t, <2>3
    <3>2. PICK j \in DOMAIN search.results : search.results[j] = Active(r)
      BY <3>1 DEF SearchInv, ReadIsKept
    <3> QED BY <1>4, <3>2
  <2> QED BY <2>2, <2>3
<1>9. ToldIsKept'
  <2> SUFFICES ASSUME NEW j \in 1..search.told, Usable(search.results[j]), InService(search.results[j])
               PROVE  \E m \in DOMAIN search.answer :
                         search.answer[m] = [object |-> search.results[j], valid |-> TRUE]
    <3>1. \A j \in 1..search.told : j \in DOMAIN search.results
      BY <1>t DEF SearchTypeOK
    <3>2. \A j \in 1..search.told : search'.results[j] = search.results[j]
      BY <1>4, <3>1
    <3>3. \A x : Usable(x)' = Usable(x) /\ InService(x)' = InService(x)
      BY <1>2, <1>3 DEF Usable, InService
    <3> QED BY <1>2, <3>2, <3>3 DEF ToldIsKept
  <2>1. ToldIsKept
    BY DEF SearchInv
  <2> QED BY <2>1 DEF ToldIsKept
<1>10. ServedAreCurrent'
  BY <1>2, <1>3 DEF SearchInv, ServedAreCurrent, Newest, Usable
<1> QED BY <1>5, <1>6, <1>7, <1>8, <1>9, <1>10 DEF SearchInv

\* Reporting a result adds it with its flag, or drops it for another service.
LEMMA ReportKeeps ==
    ASSUME IInv, SearchInv, Report, FewKnown'
    PROVE  SearchInv'
<1> DEFINE o == search.results[search.told + 1]
           v == Usable(o)
           entry == [object |-> o, valid |-> v]
<1>t. StoreTypeOK /\ SearchTypeOK
  BY DEF IInv, SearchInv
<1>r. /\ search.results \in Seq(Nat) /\ search.told \in Nat /\ search.told < Len(search.results)
      /\ search.answer \in Seq([object : Nat, valid : BOOLEAN])
  BY <1>t DEF SearchTypeOK, Report
<1>o. search.told + 1 \in DOMAIN search.results /\ o \in Nat /\ Newest(o) /\ o \in DOMAIN objects
  <2>1. search.told + 1 \in DOMAIN search.results /\ o \in Nat
    BY <1>r
  <2>2. Newest(o)
    BY <2>1 DEF SearchInv, ResultsAreCurrent
  <2> QED BY <1>t, <2>1, <2>2, NewestIsStored
<1>1. search' = [search EXCEPT !.told = @ + 1,
                    !.answer = IF InService(o) THEN Append(@, entry) ELSE @]
  BY DEF Report
<1>v. v \in BOOLEAN /\ (v <=> Usable(o)) /\ (v => objects[o].checked)
  <2>1. v => objects[o].checked
    BY <1>o DEF IInv, ValidIsChecked, Usable
  <2>2. v \in BOOLEAN
    BY DEF Usable
  <2> QED BY <2>1, <2>2
<1> HIDE DEF v
<1>e. /\ entry \in [object : Nat, valid : BOOLEAN] /\ entry.object = o /\ entry.valid = v
      /\ Usable(o) => entry = [object |-> o, valid |-> TRUE]
  <2>1. entry \in [object : Nat, valid : BOOLEAN] /\ entry.object = o /\ entry.valid = v
    BY <1>o, <1>v
  <2>2. Usable(o) => v = TRUE
    BY <1>v
  <2> QED BY <2>1, <2>2
<1> HIDE DEF entry, o
<1>2. /\ search'.query = search.query /\ search'.hits = search.hits /\ search'.k = search.k
      /\ search'.service = search.service /\ search'.read = search.read
      /\ search'.results = search.results /\ search'.told = search.told + 1
      /\ search'.answer = IF InService(o) THEN Append(search.answer, entry) ELSE search.answer
  BY <1>t, <1>1 DEF SearchTypeOK
<1>3. /\ index' = index /\ built' = built /\ objects' = objects /\ versions' = versions /\ now' = now
      /\ Best' = Best
  <2>1. Best' = Best
    BY <1>2 DEF Best
  <2> QED BY <2>1 DEF Report, storeVars
<1>4. /\ search'.answer \in Seq([object : Nat, valid : BOOLEAN])
      /\ \A j \in DOMAIN search.answer : /\ j \in DOMAIN search'.answer
                                         /\ search'.answer[j] = search.answer[j]
      /\ \A j \in DOMAIN search'.answer : j \in DOMAIN search.answer \/ search'.answer[j] = entry
      /\ InService(o) => \E j \in DOMAIN search'.answer : search'.answer[j] = entry
  <2> DEFINE t == search.answer
             X == [object : Nat, valid : BOOLEAN]
  <2>1. t \in Seq(X) /\ entry \in X
    BY <1>r, <1>e
  <2>2. search'.answer = IF InService(o) THEN Append(t, entry) ELSE t
    BY <1>2
  <2> HIDE DEF t, X
  <2>3. /\ Append(t, entry) \in Seq(X)
        /\ Len(t) + 1 \in DOMAIN Append(t, entry) /\ Append(t, entry)[Len(t) + 1] = entry
        /\ \A j \in DOMAIN t : j \in DOMAIN Append(t, entry) /\ Append(t, entry)[j] = t[j]
        /\ \A j \in DOMAIN Append(t, entry) : j \in DOMAIN t \/ Append(t, entry)[j] = entry
    BY <2>1, AppendedAtEnd
  <2>4. CASE InService(o)
    <3>1. search'.answer = Append(t, entry)
      BY <2>2, <2>4
    <3> QED BY <2>3, <3>1 DEF t, X
  <2>5. CASE ~InService(o)
    <3>1. search'.answer = t
      BY <2>2, <2>5
    <3> QED BY <2>1, <2>5, <3>1 DEF t, X
  <2> QED BY <2>4, <2>5
<1>5. SearchTypeOK'
  <2>1. search' \in [query : SUBSET Texts, hits : Seq(Runbooks), k : Nat,
                     service : Services \cup {AnyService}, read : Nat, results : Seq(Nat),
                     told : Nat, answer : Seq([object : Nat, valid : BOOLEAN])]
    <3> DEFINE answer == IF InService(o) THEN Append(search.answer, entry) ELSE search.answer
    <3>1. answer \in Seq([object : Nat, valid : BOOLEAN])
      BY <1>2, <1>4
    <3>2. search' = [search EXCEPT !.told = search.told + 1, !.answer = answer]
      BY <1>1
    <3> HIDE DEF answer
    <3> DEFINE X == [query : SUBSET Texts, hits : Seq(Runbooks), k : Nat,
                     service : Services \cup {AnyService}, read : Nat, results : Seq(Nat),
                     told : Nat, answer : Seq([object : Nat, valid : BOOLEAN])]
    <3>3. search \in X /\ search.told + 1 \in Nat
      BY <1>t DEF SearchTypeOK
    <3> QED BY <3>1, <3>2, <3>3
  <2>2. ~Idle /\ built
    <3>1. ~Idle
      BY DEF Report
    <3>2. search # NoSearch
      BY <3>1 DEF Idle, NoSearch, Started
    <3> QED BY <1>t, <3>1, <3>2 DEF SearchTypeOK
  <2>3. search.told + 1 <= Len(search.results)
    BY <1>r
  <2>4. search.read <= Len(Best)
    BY <1>t DEF SearchTypeOK
  <2> QED BY <1>2, <1>3, <2>1, <2>2, <2>3, <2>4 DEF SearchTypeOK, Idle
<1>a. \A r \in Runbooks : Active(r)' = Active(r)
  BY <1>3 DEF Active, Usable
<1>6. HitsAreComplete'
  BY <1>2, <1>3, <1>a DEF SearchInv, HitsAreComplete, Idle
<1>7. ResultsAreCurrent'
  BY <1>2, <1>3 DEF SearchInv, ResultsAreCurrent, Newest, Usable
<1>8. ReadIsKept'
  BY <1>2, <1>3, <1>a DEF SearchInv, ReadIsKept
<1>9. ToldIsKept'
  <2> SUFFICES ASSUME NEW j \in 1..search.told + 1,
                      Usable(search.results[j]), InService(search.results[j])
               PROVE  \E m \in DOMAIN search'.answer :
                         search'.answer[m] = [object |-> search.results[j], valid |-> TRUE]
    BY <1>2, <1>3 DEF ToldIsKept, Usable, InService
  <2>1. CASE j = search.told + 1
    <3>1. search.results[j] = o
      BY <2>1 DEF o
    <3> QED BY <1>4, <1>e, <3>1
  <2>2. CASE j # search.told + 1
    <3>1. j \in 1..search.told
      BY <1>r, <2>2
    <3>2. PICK m \in DOMAIN search.answer :
             search.answer[m] = [object |-> search.results[j], valid |-> TRUE]
      BY <3>1 DEF SearchInv, ToldIsKept
    <3> QED BY <1>4, <3>2
  <2> QED BY <2>1, <2>2
<1>10. ServedAreCurrent'
  <2> SUFFICES ASSUME NEW j \in DOMAIN search'.answer
               PROVE  /\ Newest(search'.answer[j].object)
                      /\ search'.answer[j].valid => objects[search'.answer[j].object].checked
    BY <1>3 DEF ServedAreCurrent, Newest, Usable
  <2>1. CASE j \in DOMAIN search.answer
    BY <1>4, <2>1 DEF SearchInv, ServedAreCurrent
  <2>2. CASE j \notin DOMAIN search.answer
    <3>1. search'.answer[j] = entry
      BY <1>4, <2>2
    <3> QED BY <1>o, <1>v, <1>e, <3>1 DEF o
  <2> QED BY <2>1, <2>2
<1> QED BY <1>5, <1>6, <1>7, <1>8, <1>9, <1>10 DEF SearchInv

-----------------------------------------------------------------------------
\* A search changes nothing in the store, so what holds of the store alone
\* holds while it is searched.
LEMMA SearchUsesStore == SearchSpec => StoreSpec
<1>1. SearchInit => StoreInit
  BY DEF SearchInit
<1>2. [SearchNext]_allVars => [StoreNext]_storeVars
  BY DEF SearchNext, allVars, BuildIndex, Score, Read, Report, Respond, StoreNext
<1> QED BY <1>1, <1>2, PTL DEF SearchSpec, StoreSpec

\* The invariant of the search holds at the start.
LEMMA SearchStarts == SearchInit => SearchInv
<1> SUFFICES ASSUME SearchInit PROVE SearchInv
  OBVIOUS
<1>1. \A r \in Runbooks : ~Known(r)
  BY DEF SearchInit, StoreInit, Known
<1>2. {r \in Runbooks : Known(r)} = {}
  BY <1>1
<1> QED BY <1>2, FS_EmptySet, NothingRuns DEF FewKnown, SearchInit

\* Every step keeps the invariant of the search: only time passes while it runs.
LEMMA SearchKept == IInv /\ SearchInv /\ [SearchNext]_allVars => SearchInv'
<1> SUFFICES ASSUME IInv, SearchInv, [SearchNext]_allVars
             PROVE  SearchInv'
  OBVIOUS
<1>1. FewKnown'
  <2>1. [StoreNext]_storeVars
    BY DEF SearchNext, allVars, BuildIndex, Score, Read, Report, Respond, StoreNext
  <2> QED BY <2>1, FewKnownKept DEF IInv, SearchInv
<1>2. search' = NoSearch => SearchInv'
  <2>1. (search = NoSearch)' => SearchInv'
    BY <1>1, NothingRuns, PTL
  <2> QED BY <2>1
<1>3. CASE Idle /\ UNCHANGED searchVars
  BY <1>2, <1>3 DEF searchVars, SearchInv, SearchTypeOK
<1>4. CASE Tick /\ UNCHANGED searchVars
  <2>1. SearchTypeOK'
    BY <1>4 DEF searchVars, SearchInv, SearchTypeOK, Idle, Best
  <2> QED BY <1>1, <1>4, <2>1, TickKeeps DEF SearchInv
<1>5. CASE BuildIndex
  BY <1>2, <1>5 DEF BuildIndex, SearchInv, SearchTypeOK
<1>6. ASSUME NEW query \in SUBSET Texts \ {{}}, NEW k \in MaxResults,
             NEW s \in Services \cup {AnyService}, Score(query, k, s)
      PROVE  SearchInv'
  BY <1>1, <1>6, ScoreKeeps
<1>7. CASE Read
  BY <1>1, <1>7, ReadKeeps
<1>8. CASE Report
  BY <1>1, <1>8, ReportKeeps
<1>9. CASE Respond
  BY <1>2, <1>9 DEF Respond
<1>10. CASE UNCHANGED allVars
  <2>1. /\ index' = index /\ search' = search /\ built' = built
        /\ objects' = objects /\ versions' = versions /\ now' = now
    BY <1>10 DEF allVars, searchVars, storeVars
  <2>2. \A r \in Runbooks : Active(r)' = Active(r)
    BY <2>1 DEF Active, Usable
  <2>3. SearchTypeOK'
    BY <2>1 DEF SearchInv, SearchTypeOK, Idle, Best
  <2>4. HitsAreComplete' /\ ReadIsKept'
    BY <2>1, <2>2 DEF SearchInv, HitsAreComplete, ReadIsKept, Idle, Best
  <2>5. ResultsAreCurrent' /\ ServedAreCurrent'
    BY <2>1 DEF SearchInv, ResultsAreCurrent, ServedAreCurrent, Newest, Usable
  <2>6. ToldIsKept'
    BY <2>1 DEF SearchInv, ToldIsKept, Usable, InService
  <2> QED BY <1>1, <2>3, <2>4, <2>5, <2>6 DEF SearchInv
<1> QED BY <1>3, <1>4, <1>5, <1>6, <1>7, <1>8, <1>9, <1>10 DEF SearchNext

\* The invariant of the search holds always.
LEMMA SearchInvariant == SearchSpec => [](IInv /\ SearchInv)
<1>1. SearchSpec => []IInv
  BY SearchUsesStore, StoreInvariant, PTL
<1> QED BY <1>1, SearchStarts, SearchKept, PTL DEF SearchSpec

-----------------------------------------------------------------------------
(* The answer.                                                             *)

\* However old the index is and whatever expires during the search, nothing
\* newer than what is served is usable, and what is called valid evidence was
\* checked since its service was last marked.
THEOREM ServedCorrect == SearchSpec => []ServedAreCurrent
BY SearchInvariant, PTL DEF SearchInv

\* A search that nothing crowds out returns, as valid evidence, every runbook of
\* the service that still says what was indexed and is active to the end.
THEOREM FoundCorrect == SearchSpec => []IndexedAreFound
<1>1. ASSUME IInv, SearchInv
      PROVE  IndexedAreFound
  <2>t. StoreTypeOK /\ SearchTypeOK
    BY <1>1 DEF IInv, SearchInv
  <2> SUFFICES ASSUME Answered, NEW r \in Runbooks, Active(r) # 0, index[r] \in search.query,
                      InService(Active(r)), Len(search.hits) <= search.k
               PROVE  \E m \in DOMAIN search.answer :
                         search.answer[m] = [object |-> Active(r), valid |-> TRUE]
    BY DEF IndexedAreFound
  <2>1. PICK i \in DOMAIN search.hits : search.hits[i] = r
    BY <1>1 DEF SearchInv, HitsAreComplete, Answered
  <2>2. i \in 1..search.read /\ Best[i] = r
    <3>1. Len(Best) = Len(search.hits) /\ search.read = Len(Best)
      BY <2>t, BestOf DEF Answered
    <3>2. i \in 1..Len(search.hits)
      BY <2>t DEF SearchTypeOK
    <3> QED BY <2>t, <2>1, <3>1, <3>2, BestOf
  <2>3. PICK j \in DOMAIN search.results : search.results[j] = Active(r)
    BY <1>1, <2>2 DEF SearchInv, ReadIsKept
  <2>4. j \in 1..search.told
    BY <2>t DEF SearchTypeOK, Answered
  <2>5. Usable(search.results[j]) /\ InService(search.results[j])
    BY <2>t, <2>3, ActiveOf
  <2> QED BY <1>1, <2>3, <2>4, <2>5 DEF SearchInv, ToldIsKept
<1> QED BY <1>1, SearchInvariant, PTL
=============================================================================
