------------------------------- MODULE Paint -------------------------------
(***************************************************************************)
(* paint: walks a graph back from a vertex, breadth first, and collects    *)
(* the vertices it meets.                                                  *)
(***************************************************************************)
EXTENDS Graph, Sequences

VARIABLES
    graph,
    start,      \* the vertex to paint from
    visited, queue,
    edges       \* of the vertex just visited, still to be followed

paintVars == <<start, visited, queue, edges>>

PaintInit ==
    /\ WellFormed(graph)
    /\ start \in graph.v
    /\ visited = {}
    /\ queue = <<start>>
    /\ edges = {}

\* The call, for a module that has other things to do before.
Call(v) ==
    /\ start' = v
    /\ visited' = {}
    /\ queue' = <<v>>
    /\ edges' = {}
    /\ UNCHANGED graph

\* The head of the queue is dropped if it was visited before.
Visit ==
    /\ edges = {} /\ queue # <<>>
    /\ queue' = Tail(queue)
    /\ visited' = visited \cup {Head(queue)}
    /\ edges' = IF Head(queue) \in visited THEN {} ELSE In(graph, Head(queue))
    /\ UNCHANGED <<graph, start>>

Follow ==
    /\ \E e \in edges :
        /\ queue' = Append(queue, From(e))
        /\ edges' = edges \ {e}
    /\ UNCHANGED <<graph, start, visited>>

PaintNext == Visit \/ Follow

PaintSpec == PaintInit /\ [][PaintNext]_<<graph, paintVars>>

Painted == edges = {} /\ queue = <<>>

\* What is painted is every vertex from which start can be reached, and nothing
\* else.
PaintsAncestors == Painted => visited = Ancestors(graph, start)
=============================================================================
