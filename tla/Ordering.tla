------------------------------ MODULE Ordering ------------------------------
(***************************************************************************)
(* What the agents do with lists: filter, sort, concatenate.  The          *)
(* operators say where each element stands instead of how it gets there,   *)
(* without recursion, so that proofs can expand them.                      *)
(***************************************************************************)
EXTENDS Naturals, Sequences, FiniteSets

\* The elements of a finite set in the strict total order `before', a set of
\* pairs.
InOrder(S, before) ==
    LET Place(x) == Cardinality({y \in S : <<y, x>> \in before}) + 1
    IN  [k \in 1..Cardinality(S) |-> CHOOSE x \in S : Place(x) = k]

Ascending(P) == InOrder(P, {p \in P \X P : p[1] < p[2]})

\* The elements of s at the places P.
At(s, P) ==
    LET order == Ascending(P)
    IN  [k \in DOMAIN order |-> s[order[k]]]

\* A stable sort of s by the key of each place.
SortedBy(s, key) ==
    LET order == InOrder(DOMAIN s, {p \in (DOMAIN s) \X (DOMAIN s) :
                     \/ key[p[1]] < key[p[2]]
                     \/ key[p[1]] = key[p[2]] /\ p[1] < p[2]})
    IN  [k \in DOMAIN order |-> s[order[k]]]

\* The lists in ss, one after the other.
Flattened(ss) ==
    LET places == UNION {{i} \X (DOMAIN ss[i]) : i \in DOMAIN ss}
        order == InOrder(places, {p \in places \X places :
                     \/ p[1][1] < p[2][1]
                     \/ p[1][1] = p[2][1] /\ p[1][2] < p[2][2]})
    IN  [k \in DOMAIN order |-> ss[order[k][1]][order[k][2]]]
=============================================================================
