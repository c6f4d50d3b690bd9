--------------------------- MODULE GraphAnalysis ---------------------------
(***************************************************************************)
(* What the tests do with the graph of a Visitor:                          *)
(* clean_graph(collapse_cycles(graph)), then leaves, then paint from a     *)
(* vertex.                                                                 *)
(***************************************************************************)
EXTENDS Cycles

VARIABLES
    cleaned,    \* graph is what clean_graph returned
    start, visited, queue, edges    \* of paint, once it is called

Paint == INSTANCE Paint

paintVars == <<start, visited, queue, edges>>
vars == <<cycleVars, paintVars, cleaned>>

Init ==
    /\ CyclesInit
    /\ start = None /\ visited = {} /\ queue = <<>> /\ edges = {}
    /\ cleaned = FALSE

Clean ==
    /\ collapsed /\ ~cleaned
    /\ graph' = CleanGraph(graph)
    /\ cleaned' = TRUE
    /\ UNCHANGED <<input, cycle_of, tarjanVars, collapsed, paintVars>>

StartPaint ==
    /\ cleaned /\ start = None
    /\ \E v \in graph.v : Paint!Call(v)
    /\ UNCHANGED <<input, cycle_of, tarjanVars, collapsed, cleaned>>

Next ==
    \/ CyclesNext /\ UNCHANGED <<paintVars, cleaned>>
    \/ Clean \/ StartPaint
    \/ /\ start # None /\ Paint!PaintNext
       /\ UNCHANGED <<input, cycle_of, tarjanVars, collapsed, cleaned>>

Spec == Init /\ [][Next]_vars /\ WF_vars(Next)

-----------------------------------------------------------------------------
(* Properties.                                                             *)

\* The vertices of the input that v stands for.
Members(v) == IF v \in DOMAIN cycle_of THEN cycle_of[v].cycle ELSE {v}

\* tarjan's components are the strongly connected components of the graph it
\* was called with, found from the last to the first: no edge leads from one to
\* a component found later.
TarjanFindsComponents ==
    Connected /\ ~collapsed =>
        /\ ToSet(sccs) = Components(graph)
        /\ \A i, j \in DOMAIN sccs : i < j =>
                sccs[i] # sccs[j]
                /\ \A e \in graph.e : ~(From(e) \in sccs[i] /\ Into(e) \in sccs[j])

\* Collapsing never meets a cycle of a cycle: the vertices of the result stand
\* for the components of the input, and paths lead between them where they led
\* in the input.
CollapseKeepsPaths ==
    collapsed =>
        /\ {Members(v) : v \in graph.v} = Components(input)
        /\ \A v, w \in graph.v : \A x \in Members(v), y \in Members(w) :
                v \in Ancestors(graph, w) <=> x \in Ancestors(input, y)

\* Every edge of the input is found again, in the result between the vertices
\* that stand for its ends or in the sub-graph of the cycle that has swallowed
\* it, and no graph is built with an edge whose end is missing.
EdgesAccountedFor ==
    /\ WellFormed(graph)
    /\ \A c \in DOMAIN cycle_of : WellFormed(cycle_of[c].sub_graph)
    /\ ~cleaned =>
        \A e \in input.e :
            \/ \E f \in graph.e : /\ Number(f) = Number(e)
                                  /\ From(e) \in Members(From(f))
                                  /\ Into(e) \in Members(Into(f))
            \/ \E c \in DOMAIN cycle_of :
                    /\ {From(e), Into(e)} \subseteq Members(c)
                    /\ e \in cycle_of[c].sub_graph.e

\* The leaves of the cleaned graph are the ends of the program: the components
\* of the input that cannot be left.
LeavesAreEnds ==
    cleaned => {Members(v) : v \in Leaves(graph)} = Bottoms(input)

\* paint collects every vertex from which start can be reached, and nothing else.
PaintsAncestors == start # None => Paint!PaintsAncestors

\* Collapsing, cleaning and painting come to an end.
AnalysisEnds == <>(start # None /\ Paint!Painted)
=============================================================================
