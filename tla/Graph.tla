------------------------------- MODULE Graph -------------------------------
(***************************************************************************)
(* race2.graph.abstract.Graph: a directed multigraph whose vertices and    *)
(* edges are numbered.  An edge is a triple <<number, from, into>>.        *)
(***************************************************************************)
EXTENDS Integers, FiniteSets

Number(e) == e[1]
From(e) == e[2]
Into(e) == e[3]

\* __post_init__: an edge's ends are vertices.
WellFormed(g) == \A e \in g.e : From(e) \in g.v /\ Into(e) \in g.v

\* Edges given as pairs are numbered in their order; their ends are vertices,
\* and vertices adds some without an edge.  (The code's list holds a vertex twice
\* if it is given and the end of an edge; its users look vertices up or pass over
\* those seen.)
FromAdjacencyList(edges, vertices) ==
    [v |-> UNION {{edges[i][1], edges[i][2]} : i \in DOMAIN edges} \cup vertices,
     e |-> {<<i, edges[i][1], edges[i][2]>> : i \in DOMAIN edges}]

\* adjacency_dict()[v], and the same of reverse(): the edges out of v and into v.
Out(g, v) == {e \in g.e : From(e) = v}
In(g, v) == {e \in g.e : Into(e) = v}

NextVertexId(g) == 1 + CHOOSE v \in g.v : \A w \in g.v : w <= v

\* map with e |-> mapped[e], or None for an edge that goes; the vertices that
\* stay are kept.
Map(g, kept, mapped, None) ==
    [v |-> kept, e |-> {mapped[e] : e \in g.e} \ {None}]

\* Vertices without an edge out of them.
Leaves(g) == {v \in g.v : Out(g, v) = {}}

\* Of several edges between the same two vertices, the one with the least number
\* stays: the code keeps the first in its list, and only numbers tell them apart.
IsKept(e, edges) ==
    \A f \in edges : From(f) = From(e) /\ Into(f) = Into(e) => Number(e) <= Number(f)

CleanKeepsLoops(g) ==                     \* mutant
    [v |-> g.v, e |-> {e \in g.e : IsKept(e, g.e)}]

\* clean_graph: no loops, then no repeated edges.
CleanGraph(g) ==
    LET edges == {e \in g.e : From(e) # Into(e)}
    IN  [v |-> g.v, e |-> {e \in edges : IsKept(e, edges)}]

-----------------------------------------------------------------------------
(* What the algorithms are meant to compute.                               *)

ClosedBackwards(g, S) == \A e \in g.e : Into(e) \in S => From(e) \in S

\* The vertices from which there is a path to v, v among them.
Ancestors(g, v) ==
    {u \in g.v : \A S \in SUBSET g.v : v \in S /\ ClosedBackwards(g, S) => u \in S}

\* The strongly connected components.
Components(g) ==
    {{u \in g.v : u \in Ancestors(g, v) /\ v \in Ancestors(g, u)} : v \in g.v}

\* Those no path leaves.
Bottoms(g) == {C \in Components(g) : \A e \in g.e : From(e) \in C => Into(e) \in C}
=============================================================================
