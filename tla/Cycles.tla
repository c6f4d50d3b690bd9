------------------------------- MODULE Cycles -------------------------------
(***************************************************************************)
(* tarjan and collapse_cycles.  Tarjan's algorithm is followed call by     *)
(* call: calls holds the calls of strong_connect that have not returned,   *)
(* each with the edges it has not looked at.  collapse_cycles replaces the *)
(* first component of more than one vertex by a new vertex and starts over.*)
(***************************************************************************)
EXTENDS Graph, Sequences, SequencesExt

CONSTANTS
    Inputs,     \* the graphs to collapse
    None

\* Graphs are finite, and their vertices and edges are numbered; the ends of the
\* edges are vertices, which __post_init__ asserts.
ASSUME InputsAssumption ==
    \A g \in Inputs :
        /\ IsFiniteSet(g.v) /\ g.v \subseteq Int
        /\ IsFiniteSet(g.e) /\ g.e \subseteq Int \X Int \X Int
        /\ WellFormed(g)
ASSUME NoneAssumption == None \notin Int \cup (Int \X Int \X Int)

VARIABLES
    input,      \* what collapse_cycles was called with
    graph,      \* rtn of collapse_cycles
    cycle_of,   \* v_labels of the new vertices: [cycle, sub_graph]
    calls, stack, index_dict, lowlink_dict, on_stack,
    sccs,       \* rtn of tarjan
    collapsed   \* collapse_cycles has returned

tarjanVars == <<calls, stack, index_dict, lowlink_dict, on_stack, sccs>>
cycleVars == <<input, graph, cycle_of, tarjanVars, collapsed>>

Indexed == DOMAIN index_dict
Lesser(m, n) == IF m < n THEN m ELSE n

\* dict[key] = value, for a key that is new.
With(dict, key, value) ==
    [x \in DOMAIN dict \cup {key} |-> IF x = key THEN value ELSE dict[x]]

\* A new call of tarjan.
Afresh ==
    /\ calls' = <<>> /\ stack' = <<>>
    /\ index_dict' = <<>> /\ lowlink_dict' = <<>>
    /\ on_stack' = {}
    /\ sccs' = <<>>

CyclesInit ==
    /\ input \in Inputs
    /\ graph = input
    /\ cycle_of = <<>>
    /\ calls = <<>> /\ stack = <<>>
    /\ index_dict = <<>> /\ lowlink_dict = <<>>
    /\ on_stack = {}
    /\ sccs = <<>>
    /\ collapsed = FALSE

-----------------------------------------------------------------------------
(* tarjan(graph)                                                           *)

Enter(v, frames) ==
    /\ calls' = Append(frames, [v |-> v, edges |-> Out(graph, v)])
    /\ index_dict' = With(index_dict, v, Cardinality(Indexed))
    /\ lowlink_dict' = With(lowlink_dict, v, Cardinality(Indexed))
    /\ stack' = Append(stack, v)
    /\ on_stack' = on_stack \cup {v}
    /\ UNCHANGED sccs

\* The loop over graph.v.
StrongConnect(v) ==
    /\ ~collapsed
    /\ calls = <<>> /\ v \in graph.v \ Indexed
    /\ Enter(v, calls)
    /\ UNCHANGED <<input, graph, cycle_of, collapsed>>

Anyone(w) == TRUE                         \* mutant: also in earlier components

\* w is in the component that is being collected.
Current(w) == w \in on_stack

LookAgain(e) ==                           \* mutant: starts over with the neighbours
    calls # <<>> /\ e \in Last(calls).edges /\ Into(e) \in Indexed /\ UNCHANGED cycleVars

\* The last call looks at its next neighbour.
Look(e) ==
    /\ calls # <<>> /\ e \in Last(calls).edges
    /\ LET rest == [calls EXCEPT ![Len(calls)].edges = @ \ {e}]
           v == From(e)
           w == Into(e)
       IN  IF w \notin Indexed
           THEN Enter(w, rest)
           ELSE /\ calls' = rest
                /\ lowlink_dict' =
                        IF Current(w)
                        THEN [lowlink_dict EXCEPT ![v] = Lesser(@, index_dict[w])]
                        ELSE lowlink_dict
                /\ UNCHANGED <<stack, index_dict, on_stack, sccs>>
    /\ UNCHANGED <<input, graph, cycle_of, collapsed>>

LowlinkForgotten(v, frames) == lowlink_dict    \* mutant

\* The caller's low link, after the call for v.
LowlinkReturned(v, frames) ==
    IF frames = <<>> THEN lowlink_dict
    ELSE [lowlink_dict EXCEPT ![Last(frames).v] = Lesser(@, lowlink_dict[v])]

\* The last call returns, with its component if v is the root of one.
Return ==
    /\ calls # <<>> /\ Last(calls).edges = {}
    /\ LET v == Last(calls).v
           from == CHOOSE i \in DOMAIN stack : stack[i] = v
           scc == SubSeq(stack, from, Len(stack))
       IN  /\ calls' = Front(calls)
           /\ lowlink_dict' = LowlinkReturned(v, Front(calls))
           /\ IF lowlink_dict[v] = index_dict[v]
              THEN /\ stack' = SubSeq(stack, 1, from - 1)
                   /\ on_stack' = on_stack \ ToSet(scc)
                   /\ sccs' = Append(sccs, ToSet(scc))
              ELSE UNCHANGED <<stack, on_stack, sccs>>
    /\ UNCHANGED <<input, graph, cycle_of, index_dict, collapsed>>

Connected == calls = <<>> /\ Indexed = graph.v

-----------------------------------------------------------------------------
(* collapse_cycles                                                         *)

\* collect_cycles(graph): where the cycles are among the components.
Collected == {i \in DOMAIN sccs : Cardinality(sccs[i]) > 1}
FirstCycle == sccs[CHOOSE i \in Collected : \A j \in Collected : i <= j]

\* edge_mapper: the ends in the cycle become the new vertex; edges within go.
MappedEdge(e, cycle, new) ==
    CASE From(e) \notin cycle /\ Into(e) \in cycle -> <<Number(e), From(e), new>>
      [] From(e) \in cycle /\ Into(e) \notin cycle -> <<Number(e), new, Into(e)>>
      [] From(e) \in cycle /\ Into(e) \in cycle    -> None
      [] OTHER                                     -> e

SubGraphAlone(cycle) ==                   \* mutant: leaves out the neighbours
    [v |-> cycle, e |-> {e \in graph.e : {From(e), Into(e)} \cap cycle # {}}]

\* The cycle, the vertices next to it and every edge that touches it.
SubGraph(cycle) ==
    LET touching == {e \in graph.e : {From(e), Into(e)} \cap cycle # {}}
    IN  [v |-> cycle \cup UNION {{From(e), Into(e)} : e \in touching}, e |-> touching]

Replaced(cycle, new) ==
    Map(graph, (graph.v \ cycle) \cup {new},
        [e \in graph.e |-> MappedEdge(e, cycle, new)], None)

Collapse ==
    /\ ~collapsed /\ Connected /\ Collected # {}
    /\ LET cycle == FirstCycle
           new == NextVertexId(graph)
       IN  /\ cycle_of' = With(cycle_of, new, [cycle |-> cycle, sub_graph |-> SubGraph(cycle)])
           /\ graph' = Replaced(cycle, new)
    /\ Afresh
    /\ UNCHANGED <<input, collapsed>>

Collapsed ==
    /\ ~collapsed /\ Connected /\ Collected = {}
    /\ collapsed' = TRUE
    /\ Afresh
    /\ UNCHANGED <<input, graph, cycle_of>>

CyclesNext ==
    \/ \E v \in graph.v : StrongConnect(v)
    \/ \E e \in graph.e : Look(e)
    \/ Return \/ Collapse \/ Collapsed
=============================================================================
