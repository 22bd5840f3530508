---------------------------- MODULE RunbookStore ----------------------------
(***************************************************************************)
(* The versioned store of runbooks (runbook_store.py).  Its versions are   *)
(* references to mutable Runbook objects, which its queries hand out: a    *)
(* version is a position in `objects', and a caller may add an old one     *)
(* again.                                                                  *)
(*                                                                         *)
(* `text' stands for the fields that the content hash covers.  A call that *)
(* changes nothing (add() of the latest content, verify() of an unknown    *)
(* version) is no step.                                                    *)
(***************************************************************************)
EXTENDS Naturals, Sequences

CONSTANTS Runbooks,    \* runbook ids
          Services,    \* service names
          Texts,       \* contents
          Labels,      \* version strings; callers may repeat them
          MaxObjects,  \* bound on the runbooks that callers create
          MaxVersions, \* bound on the versions of one runbook
          MaxTime      \* bound on the clock

ASSUME StoreAssumption ==
    /\ MaxObjects \in Nat
    /\ MaxVersions \in Nat
    /\ MaxTime \in Nat \ {0}

VARIABLES objects,   \* the Runbook objects
          versions,  \* _runbooks: for each id, its versions, oldest first
          now        \* datetime.now(UTC)

storeVars == <<objects, versions, now>>

Times == 1..MaxTime
Never == MaxTime + 1   \* effective_to is None

\* checked is history: whether the runbook was added or verified since its
\* service was last marked.
Runbook ==
    [service : Services, text : Texts, label : Labels,
     status : {"valid", "deprecated", "pending"},
     until : Times \cup {Never}, checked : BOOLEAN]

StoreInit ==
    /\ objects = <<>>
    /\ versions = [r \in Runbooks |-> <<>>]
    /\ now = 1

-----------------------------------------------------------------------------
(* Queries.                                                                *)

Known(r) == versions[r] # <<>>
Latest(r) == versions[r][Len(versions[r])]

VersionsOf(r) == {versions[r][i] : i \in DOMAIN versions[r]}

\* A version is usable up to the instant of its effective_to.
Usable(o) == objects[o].status = "valid" /\ now <= objects[o].until

\* The versions that get() can return: the latest, and for each label the
\* first version that has it.
Reachable(r) ==
    {Latest(r)} \cup {versions[r][i] : i \in {j \in DOMAIN versions[r] :
        \A k \in 1..j - 1 : objects[versions[r][k]].label # objects[versions[r][j]].label}}

\* Seeded fault: the versions are walked from the oldest on.
OldestActive(r) ==
    LET usable == {i \in DOMAIN versions[r] : Usable(versions[r][i])}
    IN  IF usable = {} THEN 0
        ELSE versions[r][CHOOSE i \in usable : \A j \in usable : i <= j]

\* The newest usable version, 0 when there is none (get_active).
Active(r) ==
    LET usable == {i \in DOMAIN versions[r] : Usable(versions[r][i])}
    IN  IF usable = {} THEN 0
        ELSE versions[r][CHOOSE i \in usable : \A j \in usable : j <= i]

-----------------------------------------------------------------------------
(* Operations.                                                             *)

\* Seeded fault: the superseded version keeps its effective_to.
DeprecatedForNow(r) ==
    IF Known(r) THEN [objects EXCEPT ![Latest(r)].status = "deprecated"] ELSE objects

\* Seeded fault: the superseded version ends just before the new one begins.
SupersededBefore(r) ==
    IF Known(r) THEN [objects EXCEPT ![Latest(r)].status = "deprecated",
                                     ![Latest(r)].until = now - 1]
    ELSE objects

\* The objects once the latest version of r is superseded.
Superseded(r) ==
    IF Known(r) THEN [objects EXCEPT ![Latest(r)].status = "deprecated",
                                     ![Latest(r)].until = now]
    ELSE objects

Changes(r, text) == Known(r) => objects[Latest(r)].text # text

\* add() of a new Runbook.
Add(r) ==
    \E s \in Services, text \in Texts, label \in Labels,
       until \in now..Never :
        /\ Changes(r, text)
        /\ Len(objects) < MaxObjects
        /\ Len(versions[r]) < MaxVersions
        /\ objects' = Append(Superseded(r),
                             [service |-> s, text |-> text, label |-> label, status |-> "valid",
                              until |-> until, checked |-> TRUE])
        /\ versions' = [versions EXCEPT ![r] = Append(@, Len(objects) + 1)]
        /\ UNCHANGED now

\* add() of a Runbook that get_all_versions() returned: an old version is put
\* back.
AddAgain(r) ==
    /\ Known(r)
    /\ Len(versions[r]) < MaxVersions
    /\ \E o \in VersionsOf(r) :
        /\ Changes(r, objects[o].text)
        /\ versions' = [versions EXCEPT ![r] = Append(@, o)]
    /\ objects' = Superseded(r)
    /\ UNCHANGED now

\* The objects with those of `stale' that are valid pending verification.
Pending(stale) ==
    [o \in DOMAIN objects |->
        IF o \in stale /\ objects[o].status = "valid"
        THEN [objects[o] EXCEPT !.status = "pending"] ELSE objects[o]]

MarkPending(r) ==
    /\ objects' = Pending(VersionsOf(r))
    /\ UNCHANGED <<versions, now>>

Stored == UNION {VersionsOf(r) : r \in Runbooks}

\* The objects once `stale' are marked for an upgrade of service s.
Upgraded(s, stale) ==
    [o \in DOMAIN objects |-> [Pending(stale)[o] EXCEPT !.checked = @ /\ objects[o].service # s]]

\* Seeded fault: only the latest versions are marked.
MarkLatestPending(s) ==
    /\ objects' = Upgraded(s, {o \in Stored : /\ objects[o].service = s
                                            /\ \E r \in Runbooks : Known(r) /\ o = Latest(r)})
    /\ UNCHANGED <<versions, now>>

MarkServicePending(s) ==
    /\ objects' = Upgraded(s, {o \in Stored : objects[o].service = s})
    /\ UNCHANGED <<versions, now>>

Verify(r) ==
    /\ Known(r)
    /\ \E o \in Reachable(r) :
          objects' = [objects EXCEPT ![o].status = "valid", ![o].checked = TRUE]
    /\ UNCHANGED <<versions, now>>

Tick ==
    /\ now < MaxTime
    /\ now' = now + 1
    /\ UNCHANGED <<objects, versions>>

StoreNext ==
    \/ \E r \in Runbooks : Add(r) \/ AddAgain(r) \/ MarkPending(r) \/ Verify(r)
    \/ \E s \in Services : MarkServicePending(s)
    \/ Tick

StoreSpec == StoreInit /\ [][StoreNext]_storeVars

-----------------------------------------------------------------------------
(* Properties.                                                             *)

\* The variables hold what the code can store, and every version is an object.
StoreTypeOK ==
    /\ objects \in Seq(Runbook)
    /\ versions \in [Runbooks -> Seq(DOMAIN objects)]
    /\ now \in Times

\* A superseded version is out for good: verifying it, marking it or putting
\* it back never makes it usable after the instant of its replacement.
SupersededStaysOut ==
    \A r \in Runbooks : \A i \in 1..Len(versions[r]) - 1 :
        Usable(versions[r][i]) => objects[versions[r][i]].until = now

\* After a service upgrade, every usable runbook of the service was added or
\* verified since.
UpgradeIsHonoured ==
    \A o \in DOMAIN objects : Usable(o) => objects[o].checked
=============================================================================
