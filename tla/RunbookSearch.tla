--------------------------- MODULE RunbookSearch ----------------------------
(***************************************************************************)
(* The search tool over the store (runbook_search.py, runbook_provider.py).*)
(* The index is built when the provider is created and never again; the    *)
(* store is read anew in every search, and the clock at every look at it:  *)
(* once to score, once for each hit that is kept, and once more for each   *)
(* result when the provider says whether it is valid evidence.             *)
(*                                                                         *)
(* A query is the set of texts that share a word with it; the scores of    *)
(* these texts are positive and otherwise arbitrary, so the hits stand in  *)
(* any order.                                                              *)
(***************************************************************************)
EXTENDS RunbookStore, FiniteSets

CONSTANTS MaxResults,  \* the values of max_results
          AnyService,  \* no service is asked for
          NotIndexed

\* k = 0 stands for no search; a caller that asks for no results gets none.
ASSUME SearchAssumption == MaxResults \subseteq Nat \ {0}

VARIABLES index,   \* the indexed text of each runbook
          built,   \* the provider exists
          search   \* the search that is running: how many hits it has read
                   \* again, the versions found, how many of these it has
                   \* reported, and the answer

searchVars == <<index, built, search>>
allVars == <<storeVars, searchVars>>

Started(query, hits, k, s) ==
    [query |-> query, hits |-> hits, k |-> k, service |-> s,
     read |-> 0, results |-> <<>>, told |-> 0, answer |-> <<>>]

NoSearch == Started({}, <<>>, 0, AnyService)

SearchInit ==
    /\ StoreInit
    /\ index = [r \in Runbooks |-> NotIndexed]
    /\ built = FALSE
    /\ search = NoSearch

\* _rebuild_index, over list_active().
BuildIndex ==
    /\ ~built
    /\ index' = [r \in Runbooks |-> IF Active(r) = 0 THEN NotIndexed ELSE objects[Active(r)].text]
    /\ built' = TRUE
    /\ UNCHANGED <<storeVars, search>>

Idle == search.k = 0

Found(query) == {r \in Runbooks : index[r] \in query /\ Active(r) # 0}
Orders(S) == {f \in [1..Cardinality(S) -> S] : \A i, j \in DOMAIN f : f[i] = f[j] => i = j}

\* search(): the runbooks whose indexed text matches and that are active.
Score(query, k, s) ==
    /\ built /\ Idle
    /\ \E hits \in Orders(Found(query)) : search' = Started(query, hits, k, s)
    /\ UNCHANGED <<storeVars, index, built>>

\* Seeded fault: one result less than asked for.
BestButOne == SubSeq(search.hits, 1, IF Len(search.hits) < search.k THEN Len(search.hits)
                                     ELSE search.k - 1)

Best == SubSeq(search.hits, 1, IF Len(search.hits) < search.k THEN Len(search.hits) ELSE search.k)

\* search(): the next hit is looked up again; one that has expired is dropped.
Read ==
    /\ search.read < Len(Best)
    /\ LET o == Active(Best[search.read + 1])
       IN  search' = [search EXCEPT !.read = @ + 1, !.results = IF o = 0 THEN @ ELSE Append(@, o)]
    /\ UNCHANGED <<storeVars, index, built>>

InService(o) == search.service \in {AnyService, objects[o].service}

\* execute(): the next result, if it is of the service, with is_valid_evidence.
Report ==
    /\ ~Idle /\ search.read = Len(Best)
    /\ search.told < Len(search.results)
    /\ LET o == search.results[search.told + 1]
       IN  search' = [search EXCEPT !.told = @ + 1,
                         !.answer = IF InService(o) THEN Append(@, [object |-> o, valid |-> Usable(o)])
                                    ELSE @]
    /\ UNCHANGED <<storeVars, index, built>>

\* The answer is complete.
Answered == ~Idle /\ search.read = Len(Best) /\ search.told = Len(search.results)

Respond ==
    /\ Answered
    /\ search' = NoSearch
    /\ UNCHANGED <<storeVars, index, built>>

\* A search is not interrupted by other calls, only by time.
SearchNext ==
    \/ Idle /\ StoreNext /\ UNCHANGED searchVars
    \/ Tick /\ ~Idle /\ UNCHANGED searchVars
    \/ BuildIndex
    \/ \E query \in SUBSET Texts \ {{}}, k \in MaxResults, s \in Services \cup {AnyService} :
          Score(query, k, s)
    \/ Read
    \/ Report
    \/ Respond

SearchSpec == SearchInit /\ [][SearchNext]_allVars

-----------------------------------------------------------------------------
(* Properties.                                                             *)

\* Version o is the newest one of its runbook that can be used.
Newest(o) ==
    \E r \in Runbooks : \E i \in DOMAIN versions[r] :
        versions[r][i] = o /\ \A j \in i + 1..Len(versions[r]) : ~Usable(versions[r][j])

\* A version is looked up at one instant and reported at a later one, of which
\* only the flag knows.  Still nothing newer is usable when an answer holds it,
\* and what the answer calls valid evidence was checked since its service was
\* last marked.
ServedAreCurrent ==
    \A j \in DOMAIN search.answer :
        LET served == search.answer[j]
        IN  Newest(served.object) /\ (served.valid => objects[served.object].checked)

\* A query that nothing crowds out finds every runbook that still says what was
\* indexed and is active to the end, and calls it valid evidence.
IndexedAreFound ==
    Answered => \A r \in Runbooks :
        /\ Active(r) # 0
        /\ index[r] = objects[Active(r)].text
        /\ index[r] \in search.query
        /\ InService(Active(r))
        /\ Len(search.hits) <= search.k
        => \E j \in DOMAIN search.answer : search.answer[j] = [object |-> Active(r), valid |-> TRUE]
=============================================================================
