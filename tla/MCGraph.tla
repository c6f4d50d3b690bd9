------------------------------ MODULE MCGraph ------------------------------
(* GraphAnalysis for TLC: every graph of three vertices and five edges, with *)
(* loops and repeated edges, and of four vertices and five edges without.    *)
(* Edges are numbered in the order of their ends: the algorithms take them   *)
(* in any order.                                                             *)
EXTENDS GraphAnalysis

\* The number of v and the order of a pair among those of n vertices.
Code(n, pair) == pair[1] * n + pair[2]

Ordered(n, s) ==
    \A i \in 2..Len(s) : Code(n, s[i - 1]) <= Code(n, s[i])

MultiGraphs(n, m) ==
    {FromAdjacencyList(s, 1..n) :
        s \in {s \in [1..m -> (1..n) \X (1..n)] : Ordered(n, s)}}

SimpleGraphs(n, m) ==
    {FromAdjacencyList(SetToSortSeq(S, LAMBDA p, q : Code(n, p) < Code(n, q)), 1..n) :
        S \in kSubset(m, {p \in (1..n) \X (1..n) : p[1] # p[2]})}

MCInputs == MultiGraphs(3, 5) \cup SimpleGraphs(4, 5)
=============================================================================
