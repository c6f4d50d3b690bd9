---------------------------- MODULE GraphProofs ----------------------------
(***************************************************************************)
(* Of any finite graph: paint, called on what collapse_cycles and          *)
(* clean_graph return, collects the ancestors of its start; tarjan finds   *)
(* the strongly connected components; collapse_cycles puts one vertex in   *)
(* the place of each and keeps the paths, losing no edge; and the leaves   *)
(* of what clean_graph returns are the components that cannot be left.     *)
(***************************************************************************)
EXTENDS GraphAnalysis, FiniteSetTheorems, SequenceTheorems, WellFoundedInduction, TLAPS

-----------------------------------------------------------------------------
(* paint, in any graph, finite or not.                                     *)

Queued == {queue[i] : i \in DOMAIN queue}

\* Nothing is met that cannot reach start: whatever holds start and is closed
\* against the edges holds all there is.
Sound ==
    \A S \in SUBSET graph.v :
        start \in S /\ Paint!ClosedBackwards(graph, S) =>
            /\ visited \subseteq S /\ Queued \subseteq S
            /\ \A e \in edges : Paint!From(e) \in S

\* Nothing is forgotten: the predecessors of what was visited are visited, or
\* wait in the queue or among the edges to follow.
Complete ==
    /\ start \in visited \cup Queued
    /\ \A e \in graph.e : Paint!Into(e) \in visited =>
            Paint!From(e) \in visited \cup Queued \/ e \in edges

PaintTypeOK ==
    /\ Paint!WellFormed(graph)
    /\ start \in graph.v
    /\ visited \subseteq graph.v
    /\ queue \in Seq(graph.v)
    /\ edges \subseteq graph.e

PaintInv == PaintTypeOK /\ Sound /\ Complete

\* What Tail leaves in a queue, with the head it takes off.
LEMMA QueuedTail ==
    ASSUME NEW V, NEW q \in Seq(V), q # <<>>
    PROVE  /\ Tail(q) \in Seq(V) /\ Head(q) \in V
           /\ {q[i] : i \in DOMAIN q}
                = {Head(q)} \cup {Tail(q)[i] : i \in DOMAIN Tail(q)}
<1>1. /\ Tail(q) \in Seq(V) /\ Head(q) \in V /\ Len(q) \in Nat \ {0}
      /\ DOMAIN q = 1..Len(q) /\ DOMAIN Tail(q) = 1..(Len(q) - 1)
      /\ Head(q) = q[1]
      /\ \A i \in 1..(Len(q) - 1) : Tail(q)[i] = q[i + 1]
  OBVIOUS
<1>2. ASSUME NEW x \in {q[i] : i \in DOMAIN q}
      PROVE  x \in {Head(q)} \cup {Tail(q)[i] : i \in DOMAIN Tail(q)}
  <2>1. PICK i \in 1..Len(q) : x = q[i]
    BY <1>1
  <2>2. CASE i = 1
    BY <1>1, <2>1, <2>2
  <2>3. CASE i # 1
    <3>1. i - 1 \in DOMAIN Tail(q) /\ Tail(q)[i - 1] = q[i]
      BY <1>1, <2>3
    <3>2. QED
      BY <2>1, <3>1
  <2>4. QED
    BY <2>2, <2>3
<1>3. ASSUME NEW x \in {Head(q)} \cup {Tail(q)[i] : i \in DOMAIN Tail(q)}
      PROVE  x \in {q[i] : i \in DOMAIN q}
  <2>1. CASE x = Head(q)
    BY <1>1, <2>1
  <2>2. CASE x \in {Tail(q)[i] : i \in DOMAIN Tail(q)}
    <3>1. PICK i \in 1..(Len(q) - 1) : x = Tail(q)[i]
      BY <1>1, <2>2
    <3>2. i + 1 \in DOMAIN q /\ x = q[i + 1]
      BY <1>1, <3>1
    <3>3. QED
      BY <3>2
  <2>3. QED
    BY <2>1, <2>2
<1>4. QED
  BY <1>1, <1>2, <1>3

\* What Append adds to a queue.
LEMMA QueuedAppend ==
    ASSUME NEW V, NEW q \in Seq(V), NEW v \in V
    PROVE  /\ Append(q, v) \in Seq(V)
           /\ {Append(q, v)[i] : i \in DOMAIN Append(q, v)}
                = {q[i] : i \in DOMAIN q} \cup {v}
<1>1. /\ Append(q, v) \in Seq(V) /\ Len(q) \in Nat
      /\ DOMAIN q = 1..Len(q) /\ DOMAIN Append(q, v) = 1..(Len(q) + 1)
      /\ Append(q, v)[Len(q) + 1] = v
      /\ \A i \in 1..Len(q) : Append(q, v)[i] = q[i]
  OBVIOUS
<1>2. ASSUME NEW x \in {Append(q, v)[i] : i \in DOMAIN Append(q, v)}
      PROVE  x \in {q[i] : i \in DOMAIN q} \cup {v}
  <2>1. PICK i \in 1..(Len(q) + 1) : x = Append(q, v)[i]
    BY <1>1
  <2>2. CASE i = Len(q) + 1
    BY <1>1, <2>1, <2>2
  <2>3. CASE i # Len(q) + 1
    <3>1. i \in 1..Len(q)
      BY <1>1, <2>3
    <3>2. QED
      BY <1>1, <2>1, <3>1
  <2>4. QED
    BY <2>2, <2>3
<1>3. ASSUME NEW x \in {q[i] : i \in DOMAIN q} \cup {v}
      PROVE  x \in {Append(q, v)[i] : i \in DOMAIN Append(q, v)}
  <2>1. CASE x = v
    <3>1. Len(q) + 1 \in DOMAIN Append(q, v)
      BY <1>1
    <3>2. QED
      BY <1>1, <2>1, <3>1
  <2>2. CASE x \in {q[i] : i \in DOMAIN q}
    <3>1. PICK i \in 1..Len(q) : x = q[i]
      BY <1>1, <2>2
    <3>2. i \in DOMAIN Append(q, v) /\ x = Append(q, v)[i]
      BY <1>1, <3>1
    <3>3. QED
      BY <3>2
  <2>3. QED
    BY <2>1, <2>2
<1>4. QED
  BY <1>1, <1>2, <1>3

\* A queue of one vertex.
LEMMA QueuedOne ==
    ASSUME NEW V, NEW v \in V
    PROVE  <<v>> \in Seq(V)
OBVIOUS

\* Taking a vertex off the queue keeps the invariant.
LEMMA VisitInv ==
    ASSUME PaintInv, Paint!Visit
    PROVE  PaintInv'
<1> DEFINE v == Head(queue)
<1>1. /\ v \in graph.v /\ queue' \in Seq(graph.v)
      /\ Queued = {v} \cup Queued'
  <2>1. queue \in Seq(graph.v) /\ queue # <<>> /\ queue' = Tail(queue)
    BY DEF PaintInv, PaintTypeOK, Paint!Visit
  <2>2. Queued' = {Tail(queue)[i] : i \in DOMAIN Tail(queue)}
    BY <2>1 DEF Queued
  <2>3. Queued = {v} \cup {Tail(queue)[i] : i \in DOMAIN Tail(queue)}
    BY <2>1, QueuedTail DEF Queued
  <2>4. v \in graph.v /\ Tail(queue) \in Seq(graph.v)
    BY <2>1, QueuedTail
  <2>5. QED
    BY <2>1, <2>2, <2>3, <2>4
<1>2. /\ visited' = visited \cup {v} /\ edges = {}
      /\ graph' = graph /\ start' = start
      /\ v \in visited => edges' = {}
      /\ v \notin visited => edges' = Paint!In(graph, v)
  BY DEF Paint!Visit
<1>3. edges' \subseteq Paint!In(graph, v)
  BY <1>2
<1> HIDE DEF v
<1>4. PaintTypeOK'
  BY <1>1, <1>2, <1>3 DEF PaintInv, PaintTypeOK, Paint!In, Paint!WellFormed
<1>5. Sound'
  <2> SUFFICES ASSUME NEW S \in SUBSET graph.v, start \in S, Paint!ClosedBackwards(graph, S)
               PROVE  /\ visited' \subseteq S /\ Queued' \subseteq S
                      /\ \A e \in edges' : Paint!From(e) \in S
    BY <1>2 DEF Sound
  <2>1. visited \subseteq S /\ Queued \subseteq S
    BY DEF PaintInv, Sound
  <2>2. v \in S
    BY <1>1, <2>1
  <2>3. \A e \in edges' : Paint!From(e) \in S
    BY <1>3, <2>2 DEF Paint!In, Paint!ClosedBackwards
  <2>4. QED
    BY <1>1, <1>2, <2>1, <2>2, <2>3
<1>6. Complete'
  <2>1. visited' \cup Queued' = visited \cup Queued
    BY <1>1, <1>2
  <2>2. ASSUME NEW e \in graph.e, Paint!Into(e) \in visited'
        PROVE  Paint!From(e) \in visited \cup Queued \/ e \in edges'
    <3>1. CASE Paint!Into(e) \in visited
      BY <1>2, <3>1 DEF PaintInv, Complete
    <3>2. CASE Paint!Into(e) = v /\ v \notin visited
      BY <1>2, <3>2 DEF Paint!In
    <3>3. QED
      BY <1>2, <2>2, <3>1, <3>2
  <2>3. start \in visited \cup Queued
    BY DEF PaintInv, Complete
  <2>4. QED
    BY <1>2, <2>1, <2>2, <2>3 DEF Complete
<1>7. QED
  BY <1>4, <1>5, <1>6 DEF PaintInv

\* Following an edge keeps the invariant.
LEMMA FollowInv ==
    ASSUME PaintInv, Paint!Follow
    PROVE  PaintInv'
<1>1. PICK e \in edges : queue' = Append(queue, Paint!From(e)) /\ edges' = edges \ {e}
  BY DEF Paint!Follow
<1>2. graph' = graph /\ start' = start /\ visited' = visited
  BY DEF Paint!Follow
<1>3. e \in graph.e /\ Paint!From(e) \in graph.v
  BY DEF PaintInv, PaintTypeOK, Paint!WellFormed
<1>4. queue' \in Seq(graph.v) /\ Queued' = Queued \cup {Paint!From(e)}
  BY <1>1, <1>3, QueuedAppend DEF PaintInv, PaintTypeOK, Queued
<1>5. PaintTypeOK'
  BY <1>1, <1>2, <1>4 DEF PaintInv, PaintTypeOK, Paint!WellFormed
<1>6. Sound'
  BY <1>1, <1>2, <1>4 DEF PaintInv, Sound
<1>7. Complete'
  BY <1>1, <1>2, <1>4 DEF PaintInv, Complete
<1>8. QED
  BY <1>5, <1>6, <1>7 DEF PaintInv

\* When the queue is empty, what was visited is closed against the edges and
\* within every closed set: it is the ancestors.
LEMMA PaintInvSuffices == PaintInv => Paint!PaintsAncestors
<1> SUFFICES ASSUME PaintInv, Paint!Painted
             PROVE  visited = Paint!Ancestors(graph, start)
  BY DEF Paint!PaintsAncestors
<1>1. Queued = {} /\ edges = {}
  BY DEF Paint!Painted, Queued
<1>2. visited \in SUBSET graph.v /\ start \in visited /\ Paint!ClosedBackwards(graph, visited)
  BY <1>1 DEF PaintInv, PaintTypeOK, Complete, Paint!ClosedBackwards
<1>3. QED
  BY <1>2 DEF PaintInv, Sound, Paint!Ancestors

\* The invariant when paint is called, in a step of another module or at first.
LEMMA CallInv ==
    ASSUME NEW v \in graph.v, Paint!WellFormed(graph), Paint!Call(v)
    PROVE  PaintInv'
<1>1. /\ graph' = graph /\ start' = v /\ visited' = {} /\ edges' = {}
      /\ queue' = <<v>>
  BY DEF Paint!Call
<1>2. queue' \in Seq(graph.v) /\ Queued' = {v}
  <2>1. DOMAIN queue' = {1} /\ queue'[1] = v
    BY <1>1
  <2>2. Queued' = {v}
    BY <2>1 DEF Queued
  <2>3. QED
    BY <1>1, <2>2, QueuedOne
<1>3. PaintTypeOK'
  BY <1>1, <1>2 DEF PaintTypeOK, Paint!WellFormed
<1>4. QED
  BY <1>1, <1>2, <1>3 DEF PaintInv, Sound, Complete

LEMMA PaintInitInv == Paint!PaintInit => PaintInv
<1> SUFFICES ASSUME Paint!PaintInit PROVE PaintInv
  OBVIOUS
<1>1. queue \in Seq(graph.v) /\ Queued = {start}
  <2>1. start \in graph.v /\ queue = <<start>>
    BY DEF Paint!PaintInit
  <2>2. DOMAIN queue = {1} /\ queue[1] = start
    BY <2>1
  <2>3. Queued = {start}
    BY <2>2 DEF Queued
  <2>4. QED
    BY <2>1, <2>3, QueuedOne
<1>2. PaintTypeOK
  BY <1>1 DEF Paint!PaintInit, PaintTypeOK
<1>3. QED
  BY <1>1, <1>2 DEF Paint!PaintInit, PaintInv, Sound, Complete

\* Each step of paint keeps the invariant, and so does a step of somebody else.
LEMMA PaintStepInv == PaintInv /\ [Paint!PaintNext]_<<graph, Paint!paintVars>> => PaintInv'
<1>1. ASSUME PaintInv, UNCHANGED <<graph, Paint!paintVars>> PROVE PaintInv'
  BY <1>1 DEF Paint!paintVars, PaintInv, PaintTypeOK, Sound, Complete, Queued
<1>2. QED
  BY <1>1, VisitInv, FollowInv DEF Paint!PaintNext

\* paint returns the vertices from which its start can be reached, whatever the
\* graph and the order of its edges.
THEOREM PaintCorrect == Paint!PaintSpec => []Paint!PaintsAncestors
BY PaintInitInv, PaintStepInv, PaintInvSuffices, PTL DEF Paint!PaintSpec

-----------------------------------------------------------------------------
(* Collapsing, cleaning and painting.                                      *)

\* The graph stays a graph, and is left alone from the call of paint on.
AnalysisInv ==
    /\ WellFormed(graph)
    /\ cleaned => collapsed
    /\ start # None => cleaned /\ PaintInv

\* collapse_cycles moves edges to the new vertex only, and vertices that go take
\* their edges with them.
LEMMA CollapseWellFormed ==
    ASSUME WellFormed(graph), NEW cycle, NEW new
    PROVE  WellFormed(Replaced(cycle, new))
<1> DEFINE kept == (graph.v \ cycle) \cup {new}
           g == Replaced(cycle, new)
<1>1. g.v = kept /\ g.e = {MappedEdge(e, cycle, new) : e \in graph.e} \ {None}
  BY DEF Replaced, Map
<1>2. ASSUME NEW f \in g.e PROVE From(f) \in kept /\ Into(f) \in kept
  <2>1. PICK e \in graph.e : f = MappedEdge(e, cycle, new)
    BY <1>1, <1>2
  <2>2. From(e) \in graph.v /\ Into(e) \in graph.v
    BY DEF WellFormed
  <2>3. f # None
    BY <1>1, <1>2
  <2>4. QED
    BY <2>1, <2>2, <2>3 DEF MappedEdge, Number, From, Into
<1>3. QED
  BY <1>1, <1>2 DEF WellFormed

\* clean_graph drops edges and nothing else.
LEMMA CleanWellFormed ==
    ASSUME NEW g, WellFormed(g)
    PROVE  WellFormed(CleanGraph(g))
BY DEF WellFormed, CleanGraph

\* The steps of collapse_cycles: they end when it returns.
LEMMA CyclesInv ==
    ASSUME AnalysisInv, CyclesNext, UNCHANGED <<paintVars, cleaned>>
    PROVE  AnalysisInv'
<1>1. ASSUME graph' = graph, collapsed => collapsed' PROVE AnalysisInv'
  <2>1. start # None => PaintInv'
    BY <1>1, PaintStepInv DEF AnalysisInv, paintVars, Paint!paintVars
  <2>2. QED
    BY <1>1, <2>1 DEF AnalysisInv, paintVars
<1>2. ASSUME NEW v \in graph.v, StrongConnect(v) PROVE AnalysisInv'
  BY <1>1, <1>2 DEF StrongConnect
<1>3. ASSUME NEW e \in graph.e, Look(e) PROVE AnalysisInv'
  BY <1>1, <1>3 DEF Look
<1>4. CASE Return
  BY <1>1, <1>4 DEF Return
<1>5. CASE Collapse
  <2>1. ~collapsed /\ ~cleaned /\ start = None
    BY <1>5 DEF Collapse, AnalysisInv
  <2>2. WellFormed(graph)'
    <3>1. graph' = Replaced(FirstCycle, NextVertexId(graph))
      BY <1>5, Zenon DEF Collapse
    <3>2. WellFormed(Replaced(FirstCycle, NextVertexId(graph)))
      BY CollapseWellFormed DEF AnalysisInv
    <3>3. QED
      BY <3>1, <3>2 DEF WellFormed
  <2>3. QED
    BY <2>1, <2>2 DEF AnalysisInv, paintVars
<1>6. CASE Collapsed
  BY <1>1, <1>6 DEF Collapsed
<1>7. QED
  BY <1>2, <1>3, <1>4, <1>5, <1>6 DEF CyclesNext

\* Painted and cleaned graphs are not the business of anybody else.
LEMMA NextInv == AnalysisInv /\ [Next]_vars => AnalysisInv'
<1> SUFFICES ASSUME AnalysisInv, [Next]_vars PROVE AnalysisInv'
  OBVIOUS
<1>1. CASE CyclesNext /\ UNCHANGED <<paintVars, cleaned>>
  BY <1>1, CyclesInv
<1>2. CASE Clean
  <2>1. start = None /\ start' = start /\ collapsed' /\ WellFormed(graph)'
    BY <1>2, CleanWellFormed DEF Clean, AnalysisInv, paintVars
  <2>2. QED
    BY <2>1 DEF AnalysisInv
<1>3. CASE StartPaint
  <2>1. PICK v \in graph.v : Paint!Call(v)
    BY <1>3 DEF StartPaint
  <2>2. PaintInv' /\ graph' = graph
    BY <2>1, CallInv
       DEF AnalysisInv, Paint!Call, WellFormed, Paint!WellFormed, From, Into, Paint!From, Paint!Into
  <2>3. QED
    BY <1>3, <2>2 DEF StartPaint, AnalysisInv
<1>4. CASE /\ start # None /\ Paint!PaintNext
           /\ UNCHANGED <<input, cycle_of, tarjanVars, collapsed, cleaned>>
  <2>1. PaintInv' /\ graph' = graph
    BY <1>4, PaintStepInv DEF AnalysisInv, Paint!PaintNext, Paint!Visit, Paint!Follow
  <2>2. QED
    BY <1>4, <2>1 DEF AnalysisInv
<1>5. CASE UNCHANGED vars
  <2>1. start # None => PaintInv'
    BY <1>5, PaintStepInv DEF AnalysisInv, vars, cycleVars, paintVars, Paint!paintVars
  <2>2. QED
    BY <1>5, <2>1 DEF AnalysisInv, vars, cycleVars, paintVars
<1>6. QED
  BY <1>1, <1>2, <1>3, <1>4, <1>5 DEF Next

\* However a graph is collapsed and cleaned before, what paint collects is every
\* vertex from which its start can be reached, and nothing else.
THEOREM AnalysisPaintsAncestors == Spec => []PaintsAncestors
<1>1. Init => AnalysisInv
  BY InputsAssumption DEF Init, CyclesInit, AnalysisInv
<1>2. AnalysisInv => PaintsAncestors
  BY PaintInvSuffices DEF AnalysisInv, PaintsAncestors
<1>3. QED
  BY <1>1, <1>2, NextInv, PTL DEF Spec

-----------------------------------------------------------------------------
(* Reaching, by the sets that are closed against the edges.                *)

\* Every vertex reaches itself.
LEMMA ReachSelf ==
    ASSUME NEW g, NEW v \in g.v
    PROVE  v \in Ancestors(g, v)
BY DEF Ancestors

\* Who reaches a vertex that reaches another reaches that one, too.
LEMMA ReachThrough ==
    ASSUME NEW g, NEW u, NEW v, NEW w, u \in Ancestors(g, v), v \in Ancestors(g, w)
    PROVE  u \in Ancestors(g, w)
BY DEF Ancestors

\* An edge's end reaches what the other does.
LEMMA ReachByEdge ==
    ASSUME NEW g, WellFormed(g), NEW e \in g.e
    PROVE  From(e) \in Ancestors(g, Into(e))
BY DEF Ancestors, ClosedBackwards, WellFormed

\* A set that no edge leaves holds all that its members reach.
LEMMA ReachWithin ==
    ASSUME NEW g, WellFormed(g), NEW S, \A e \in g.e : From(e) \in S => Into(e) \in S,
           NEW v \in S, NEW w \in g.v, v \in Ancestors(g, w)
    PROVE  w \in S
<1> SUFFICES ASSUME w \notin S PROVE FALSE
  OBVIOUS
<1>1. ClosedBackwards(g, g.v \ S)
  BY DEF ClosedBackwards, WellFormed
<1>2. w \in g.v \ S /\ g.v \ S \in SUBSET g.v
  OBVIOUS
<1> QED
  BY <1>1, <1>2 DEF Ancestors

-----------------------------------------------------------------------------
(* Tarjan's algorithm.                                                     *)

Frame == [v : graph.v, edges : SUBSET graph.e]

\* The vertices whose calls have not returned, and the edges left to them.
GrayOf(frames) == {frames[k].v : k \in DOMAIN frames}
PendingOf(frames) == UNION {frames[k].edges : k \in DOMAIN frames}
Gray == GrayOf(calls)
Pending == PendingOf(calls)

\* The vertices whose component is known.
Done == Indexed \ on_stack

Reaches(u, w) == u \in Ancestors(graph, w)

TarjanTypeOK ==
    /\ index_dict \in [Indexed -> Nat] /\ Indexed \subseteq graph.v /\ IsFiniteSet(Indexed)
    /\ lowlink_dict \in [Indexed -> Nat]
    /\ stack \in Seq(graph.v)
    /\ calls \in Seq(Frame)
    /\ sccs \in Seq(SUBSET graph.v)

\* Vertices are numbered in the order in which they are met.
Numbered ==
    /\ \A x \in Indexed : index_dict[x] < Cardinality(Indexed)
    /\ \A x, y \in Indexed : index_dict[x] = index_dict[y] => x = y

\* So they are on the stack ...
Stacked ==
    /\ on_stack = {stack[i] : i \in DOMAIN stack}
    /\ on_stack \subseteq Indexed
    /\ \A i, j \in DOMAIN stack : i < j => index_dict[stack[i]] < index_dict[stack[j]]

\* ... and in the calls, which are for some of those on the stack.
Nested ==
    /\ Gray \subseteq on_stack
    /\ \A k \in DOMAIN calls : calls[k].edges \subseteq Out(graph, calls[k].v)
    /\ \A k, l \in DOMAIN calls : k < l => index_dict[calls[k].v] < index_dict[calls[l].v]

\* An edge that has been looked at leads to a vertex that has been met.
LookedAt == \A e \in graph.e : From(e) \in Indexed /\ e \notin Pending => Into(e) \in Indexed

\* What has been found are components, and no edge leads from one to another
\* found later, or to a vertex still on the stack.
Found ==
    /\ Done = UNION {sccs[i] : i \in DOMAIN sccs}
    /\ \A i \in DOMAIN sccs : sccs[i] \in Components(graph)
    /\ \A i, j \in DOMAIN sccs : i < j =>
            /\ sccs[i] # sccs[j]
            /\ \A e \in graph.e : ~(From(e) \in sccs[i] /\ Into(e) \in sccs[j])
    /\ \A e \in graph.e : From(e) \in Done => Into(e) \in Done

\* Every vertex on the stack reaches one below it, or itself, whose call has not
\* returned; and such a vertex reaches all that are above it.
Reaching ==
    /\ \A x \in on_stack : \E g \in Gray : index_dict[g] <= index_dict[x] /\ Reaches(x, g)
    /\ \A g \in Gray, x \in on_stack : index_dict[g] <= index_dict[x] => Reaches(g, x)

\* A low link is the number of a vertex that is reached ...
LowSound ==
    \A g \in Gray :
        /\ lowlink_dict[g] <= index_dict[g]
        /\ \E y \in on_stack : index_dict[y] = lowlink_dict[g] /\ Reaches(g, y)

\* The last of the calls that began before x was met.
Owns(g, x) ==
    /\ index_dict[g] <= index_dict[x]
    /\ \A h \in Gray : index_dict[h] <= index_dict[x] => index_dict[h] <= index_dict[g]

\* ... and no edge looked at leads further down.
LowComplete ==
    \A g \in Gray, x \in on_stack, e \in graph.e :
        Owns(g, x) /\ From(e) = x /\ e \notin Pending /\ Into(e) \in on_stack
            => lowlink_dict[g] <= index_dict[Into(e)]

Ordered == TarjanTypeOK /\ Numbered /\ Stacked /\ Nested

TarjanInv ==
    Ordered /\ LookedAt /\ Found /\ Reaching /\ LowSound /\ LowComplete

\* What Append does to a sequence.
LEMMA Appended ==
    ASSUME NEW S, NEW s \in Seq(S), NEW v \in S
    PROVE  /\ Append(s, v) \in Seq(S)
           /\ Len(s) \in Nat /\ DOMAIN s = 1..Len(s)
           /\ DOMAIN Append(s, v) = DOMAIN s \cup {Len(s) + 1}
           /\ \A i \in DOMAIN s : Append(s, v)[i] = s[i]
           /\ Append(s, v)[Len(s) + 1] = v
OBVIOUS

\* A vertex is met: it gets the next number, and is on top of the stack and last
\* of the calls.
LEMMA Entered ==
    ASSUME Ordered, NEW w \in graph.v \ Indexed, NEW frames \in Seq(Frame),
           DOMAIN frames = DOMAIN calls,
           \A k \in DOMAIN calls :
              frames[k].v = calls[k].v /\ frames[k].edges \subseteq calls[k].edges,
           Enter(w, frames), graph' = graph
    PROVE  /\ Ordered'
           /\ Gray' = Gray \cup {w}
           /\ Pending' = PendingOf(frames) \cup Out(graph, w)
           /\ Indexed' = Indexed \cup {w} /\ on_stack' = on_stack \cup {w}
           /\ \A x \in Indexed : /\ index_dict'[x] = index_dict[x]
                                 /\ lowlink_dict'[x] = lowlink_dict[x]
                                 /\ index_dict[x] < index_dict'[w]
           /\ lowlink_dict'[w] = index_dict'[w]
           /\ sccs' = sccs
<1> DEFINE n == Cardinality(Indexed)
           frame == [v |-> w, edges |-> Out(graph, w)]
<1> USE DEF Ordered
<1>1. n \in Nat /\ IsFiniteSet(Indexed \cup {w}) /\ Cardinality(Indexed \cup {w}) = n + 1
  BY FS_AddElement, FS_CardinalityType DEF TarjanTypeOK
<1>2. /\ index_dict' = With(index_dict, w, n) /\ lowlink_dict' = With(lowlink_dict, w, n)
      /\ calls' = Append(frames, frame) /\ stack' = Append(stack, w)
      /\ on_stack' = on_stack \cup {w} /\ sccs' = sccs
  BY DEF Enter
<1>3. index_dict \in [Indexed -> Nat] /\ lowlink_dict \in [Indexed -> Nat]
  BY DEF TarjanTypeOK
<1> HIDE DEF n
<1>4. /\ Indexed' = Indexed \cup {w}
      /\ index_dict' \in [Indexed' -> Nat] /\ index_dict'[w] = n
      /\ lowlink_dict' \in [Indexed' -> Nat] /\ lowlink_dict'[w] = n
      /\ \A x \in Indexed : index_dict'[x] = index_dict[x] /\ lowlink_dict'[x] = lowlink_dict[x]
  <2>1. /\ DOMAIN index_dict' = Indexed \cup {w} /\ index_dict' \in [Indexed \cup {w} -> Nat]
        /\ index_dict'[w] = n /\ \A x \in Indexed \ {w} : index_dict'[x] = index_dict[x]
    BY <1>1, <1>2, <1>3 DEF With
  <2>2. /\ lowlink_dict' \in [Indexed \cup {w} -> Nat] /\ lowlink_dict'[w] = n
        /\ \A x \in Indexed \ {w} : lowlink_dict'[x] = lowlink_dict[x]
    BY <1>1, <1>2, <1>3 DEF With
  <2>3. Indexed' = Indexed \cup {w}
    BY <2>1 DEF Indexed
  <2> QED
    BY <2>1, <2>2, <2>3
<1>5. \A x \in Indexed : index_dict[x] < n
  BY DEF Numbered, n
<1>6. frame \in Frame /\ frame.v = w /\ frame.edges = Out(graph, w)
  BY DEF Frame, Out
<1> HIDE DEF frame
<1>7. /\ calls' \in Seq(Frame) /\ Len(frames) \in Nat /\ DOMAIN calls = 1..Len(frames)
      /\ DOMAIN calls' = DOMAIN calls \cup {Len(frames) + 1}
      /\ calls'[Len(frames) + 1] = frame
      /\ \A k \in DOMAIN calls : calls'[k] = frames[k]
  BY <1>2, <1>6, Appended
<1>8. /\ stack' \in Seq(graph.v) /\ Len(stack) \in Nat /\ DOMAIN stack = 1..Len(stack)
      /\ DOMAIN stack' = DOMAIN stack \cup {Len(stack) + 1}
      /\ stack'[Len(stack) + 1] = w
      /\ \A k \in DOMAIN stack : stack'[k] = stack[k]
  BY <1>2, Appended DEF TarjanTypeOK
<1>9. Gray' = Gray \cup {w} /\ Pending' = PendingOf(frames) \cup Out(graph, w)
  <2>1. /\ Gray' = {calls'[k].v : k \in DOMAIN calls \cup {Len(frames) + 1}}
        /\ Pending' = UNION {calls'[k].edges : k \in DOMAIN calls \cup {Len(frames) + 1}}
    BY <1>7 DEF Gray, GrayOf, Pending, PendingOf
  <2>2. Gray' = Gray \cup {w}
    <3>1. \A k \in DOMAIN calls : calls'[k].v = calls[k].v
      BY <1>7
    <3>2. calls'[Len(frames) + 1].v = w
      BY <1>6, <1>7
    <3>3. Gray = {calls[k].v : k \in DOMAIN calls}
      BY DEF Gray, GrayOf
    <3> QED
      BY <2>1, <3>1, <3>2, <3>3
  <2>3. Pending' = PendingOf(frames) \cup Out(graph, w)
    <3>1. \A k \in DOMAIN calls : calls'[k].edges = frames[k].edges
      BY <1>7
    <3>2. calls'[Len(frames) + 1].edges = Out(graph, w)
      BY <1>6, <1>7
    <3>3. PendingOf(frames) = UNION {frames[k].edges : k \in DOMAIN calls}
      BY DEF PendingOf
    <3> QED
      BY <2>1, <3>1, <3>2, <3>3
  <2> QED
    BY <2>2, <2>3
<1>10. TarjanTypeOK'
  BY <1>1, <1>2, <1>4, <1>7, <1>8 DEF TarjanTypeOK, Frame
<1>11. Numbered'
  BY <1>1, <1>3, <1>4, <1>5 DEF Numbered, n
<1>12. Stacked'
  <2>1. on_stack' = {stack'[i] : i \in DOMAIN stack'}
    BY <1>2, <1>8 DEF Stacked
  <2>2. ASSUME NEW i \in DOMAIN stack', NEW j \in DOMAIN stack', i < j
        PROVE  index_dict'[stack'[i]] < index_dict'[stack'[j]]
    <3>1. i \in DOMAIN stack /\ stack[i] \in Indexed
      BY <1>8, <2>2 DEF Stacked
    <3>2. CASE j \in DOMAIN stack
      BY <1>4, <1>8, <2>2, <3>1, <3>2 DEF Stacked
    <3>3. CASE j = Len(stack) + 1
      BY <1>4, <1>5, <1>8, <3>1, <3>3
    <3> QED
      BY <1>8, <3>2, <3>3
  <2> QED
    BY <1>2, <1>4, <2>1, <2>2 DEF Stacked
<1>13. Nested'
  <2>0. \A k \in DOMAIN calls : calls[k].v \in Indexed
    BY DEF Nested, Stacked, Gray, GrayOf
  <2>1. ASSUME NEW k \in DOMAIN calls' PROVE calls'[k].edges \subseteq Out(graph, calls'[k].v)
    BY <1>6, <1>7 DEF Nested
  <2>2. ASSUME NEW i \in DOMAIN calls', NEW j \in DOMAIN calls', i < j
        PROVE  index_dict'[calls'[i].v] < index_dict'[calls'[j].v]
    <3>1. i \in DOMAIN calls /\ calls'[i].v = calls[i].v /\ calls[i].v \in Indexed
      <4>1. i \in DOMAIN calls
        BY <1>7, <2>2
      <4> QED
        BY <1>7, <2>0, <4>1
    <3>2. CASE j \in DOMAIN calls
      <4>1. calls'[j].v = calls[j].v /\ calls[j].v \in Indexed
        BY <1>7, <3>2, <2>0
      <4> QED
        BY <1>4, <2>2, <3>1, <3>2, <4>1 DEF Nested
    <3>3. CASE j = Len(frames) + 1
      BY <1>4, <1>5, <1>6, <1>7, <3>1, <3>3
    <3> QED
      BY <1>7, <3>2, <3>3
  <2> QED
    BY <1>2, <1>9, <2>1, <2>2 DEF Nested, Out
<1> QED
  BY <1>2, <1>4, <1>5, <1>9, <1>10, <1>11, <1>12, <1>13

\* The call that runs is the last of those that have not returned.
LEMMA LastCall ==
    ASSUME Ordered, calls # <<>>
    PROVE  /\ Len(calls) \in Nat \ {0} /\ DOMAIN calls = 1..Len(calls)
           /\ Last(calls) = calls[Len(calls)]
           /\ Last(calls).v \in Gray /\ Last(calls).v \in graph.v
           /\ Last(calls).edges \subseteq Out(graph, Last(calls).v)
           /\ \A g \in Gray : index_dict[g] <= index_dict[Last(calls).v]
           /\ \A k \in DOMAIN calls : k # Len(calls) => calls[k].v # Last(calls).v
<1> USE DEF Ordered
<1>1. Len(calls) \in Nat \ {0} /\ DOMAIN calls = 1..Len(calls) /\ Last(calls) = calls[Len(calls)]
  BY DEF TarjanTypeOK, Last
<1>2. \A k \in DOMAIN calls : calls[k].v \in Gray /\ calls[k].v \in Indexed
  BY DEF Gray, GrayOf, Nested, Stacked
<1>3. \A x \in Indexed : index_dict[x] \in Nat /\ x \in graph.v
  BY DEF TarjanTypeOK
<1>4. \A k \in DOMAIN calls : k # Len(calls) => index_dict[calls[k].v] < index_dict[Last(calls).v]
  BY <1>1 DEF Nested
<1>5. \A g \in Gray : index_dict[g] <= index_dict[Last(calls).v]
  <2> SUFFICES ASSUME NEW k \in DOMAIN calls
               PROVE  index_dict[calls[k].v] <= index_dict[Last(calls).v]
    BY DEF Gray, GrayOf
  <2> QED
    BY <1>1, <1>2, <1>3, <1>4
<1>6. \A k \in DOMAIN calls : k # Len(calls) => calls[k].v # Last(calls).v
  BY <1>1, <1>2, <1>3, <1>4
<1> QED
  BY <1>1, <1>2, <1>3, <1>5, <1>6 DEF Nested

\* What is left to the calls when the last has taken its next edge.
LEMMA RestOfCalls ==
    ASSUME Ordered, calls # <<>>, NEW e \in Last(calls).edges,
           NEW rest, rest = [calls EXCEPT ![Len(calls)].edges = @ \ {e}]
    PROVE  /\ rest \in Seq(Frame) /\ DOMAIN rest = DOMAIN calls
           /\ \A k \in DOMAIN calls :
                 rest[k].v = calls[k].v /\ rest[k].edges \subseteq calls[k].edges
           /\ GrayOf(rest) = Gray /\ PendingOf(rest) = Pending \ {e}
           /\ e \in graph.e /\ From(e) = Last(calls).v
<1> USE DEF Ordered
<1>1. e \in graph.e /\ From(e) = Last(calls).v
  BY LastCall DEF Out
<1>2. /\ calls \in Seq(Frame) /\ Len(calls) \in DOMAIN calls /\ DOMAIN calls = 1..Len(calls)
      /\ \A k \in DOMAIN calls : calls[k] \in Frame
  BY LastCall DEF TarjanTypeOK
<1>3. /\ DOMAIN rest = DOMAIN calls
      /\ \A k \in DOMAIN calls : k # Len(calls) => rest[k] = calls[k]
      /\ rest[Len(calls)] = [calls[Len(calls)] EXCEPT !.edges = @ \ {e}]
  BY <1>2
<1>4. /\ rest[Len(calls)].v = calls[Len(calls)].v
      /\ rest[Len(calls)].edges = calls[Len(calls)].edges \ {e}
      /\ rest[Len(calls)] \in Frame
  BY <1>2, <1>3 DEF Frame
<1>5. \A k \in DOMAIN calls : k # Len(calls) => e \notin calls[k].edges
  BY <1>1, LastCall DEF Nested, Out
<1>6. \A k \in DOMAIN calls :
         rest[k].v = calls[k].v /\ rest[k].edges = calls[k].edges \ {e} /\ rest[k] \in Frame
  <2> SUFFICES ASSUME NEW k \in DOMAIN calls
               PROVE  /\ rest[k].v = calls[k].v /\ rest[k].edges = calls[k].edges \ {e}
                      /\ rest[k] \in Frame
    OBVIOUS
  <2>1. CASE k = Len(calls)
    BY <1>4, <2>1
  <2>2. CASE k # Len(calls)
    <3>1. rest[k] = calls[k] /\ calls[k] \in Frame
      BY <1>2, <1>3, <2>2
    <3>2. calls[k].edges = calls[k].edges \ {e}
      BY <1>5, <2>2
    <3> QED
      BY <3>1, <3>2
  <2> QED
    BY <2>1, <2>2
<1>7. rest \in Seq(Frame)
  <2>1. Len(calls) \in 1..Len(calls) /\ rest = [calls EXCEPT ![Len(calls)] = rest[Len(calls)]]
    BY <1>2, <1>3
  <2> QED
    BY <1>2, <1>4, <2>1, ExceptSeq
<1>8. GrayOf(rest) = Gray
  BY <1>3, <1>6 DEF GrayOf, Gray
<1>9. PendingOf(rest) = Pending \ {e}
  BY <1>3, <1>6 DEF PendingOf, Pending
<1> QED
  BY <1>1, <1>3, <1>6, <1>7, <1>8, <1>9

\* The last call returns: its vertex is no longer among those to come back to.
LEMMA Popped ==
    ASSUME Ordered, calls # <<>>, Last(calls).edges = {}, calls' = Front(calls)
    PROVE  /\ calls' \in Seq(Frame)
           /\ Gray' = Gray \ {Last(calls).v} /\ Pending' = Pending
           /\ Pending \cap Out(graph, Last(calls).v) = {}
           /\ DOMAIN calls' \subseteq DOMAIN calls
           /\ \A k \in DOMAIN calls' : calls'[k] = calls[k]
           /\ calls' # <<>> => /\ Last(calls').v \in Gray'
                               /\ \A g \in Gray' : index_dict[g] <= index_dict[Last(calls').v]
<1> DEFINE n == Len(calls)
<1> USE DEF Ordered
<1>1. /\ n \in Nat \ {0} /\ DOMAIN calls = 1..n /\ Last(calls) = calls[n]
      /\ \A k \in DOMAIN calls : k # n => calls[k].v # calls[n].v
  BY LastCall
<1>2. calls \in Seq(Frame)
  BY DEF TarjanTypeOK
<1>3. /\ calls' \in Seq(Frame) /\ DOMAIN calls' = 1..(n - 1) /\ Len(calls') = n - 1
      /\ \A k \in 1..(n - 1) : calls'[k] = calls[k]
  BY <1>1, <1>2 DEF Front
<1>4. Gray' = {calls[k].v : k \in 1..(n - 1)}
  BY <1>3 DEF Gray, GrayOf
<1>5. Gray = {calls[k].v : k \in 1..n}
  BY <1>1 DEF Gray, GrayOf
<1> HIDE DEF n
<1>6. Gray' = Gray \ {calls[n].v}
  <2>1. ASSUME NEW x \in Gray' PROVE x \in Gray \ {calls[n].v}
    <3>1. PICK k \in 1..(n - 1) : x = calls[k].v
      BY <1>4, <2>1
    <3>2. k \in 1..n /\ k # n
      BY <1>1, <3>1
    <3> QED
      BY <1>1, <1>5, <3>1, <3>2
  <2>2. ASSUME NEW x \in Gray \ {calls[n].v} PROVE x \in Gray'
    <3>1. PICK k \in 1..n : x = calls[k].v
      BY <1>5, <2>2
    <3>2. k \in 1..(n - 1)
      BY <1>1, <3>1
    <3> QED
      BY <1>4, <3>1, <3>2
  <2> QED
    BY <2>1, <2>2
<1>7. Pending' = Pending
  <2>1. Pending' = UNION {calls[k].edges : k \in 1..(n - 1)}
    BY <1>3 DEF Pending, PendingOf
  <2>2. Pending = UNION {calls[k].edges : k \in 1..n}
    BY <1>1 DEF Pending, PendingOf
  <2>3. ASSUME NEW k \in 1..n, calls[k].edges # {} PROVE k \in 1..(n - 1)
    BY <1>1, <2>3
  <2>4. 1..(n - 1) \subseteq 1..n
    BY <1>1
  <2> QED
    BY <2>1, <2>2, <2>3, <2>4
<1>8. Pending \cap Out(graph, Last(calls).v) = {}
  <2> SUFFICES ASSUME NEW k \in DOMAIN calls, NEW e \in calls[k].edges, From(e) = calls[n].v
               PROVE  FALSE
    BY <1>1 DEF Pending, PendingOf, Out
  <2>1. From(e) = calls[k].v
    BY DEF Nested, Out
  <2> QED
    BY <1>1, <2>1
<1>9. ASSUME calls' # <<>>
      PROVE  /\ Last(calls').v \in Gray'
             /\ \A g \in Gray' : index_dict[g] <= index_dict[Last(calls').v]
  <2>1. n - 1 \in 1..(n - 1) /\ Last(calls') = calls[n - 1]
    BY <1>1, <1>3, <1>9 DEF Last
  <2>2. \A k \in DOMAIN calls : index_dict[calls[k].v] \in Nat
    BY DEF TarjanTypeOK, Nested, Stacked, Gray, GrayOf
  <2>3. ASSUME NEW k \in 1..(n - 1) PROVE index_dict[calls[k].v] <= index_dict[calls[n - 1].v]
    <3>1. k \in DOMAIN calls /\ n - 1 \in DOMAIN calls /\ (k # n - 1 => k < n - 1)
      BY <1>1, <2>1
    <3>2. k # n - 1 => index_dict[calls[k].v] < index_dict[calls[n - 1].v]
      BY <3>1 DEF Nested
    <3> QED
      BY <2>2, <3>1, <3>2
  <2> QED
    BY <1>4, <2>1, <2>3
<1>10. DOMAIN calls' \subseteq DOMAIN calls /\ \A k \in DOMAIN calls' : calls'[k] = calls[k]
  BY <1>1, <1>3
<1> QED
  BY <1>1, <1>3, <1>6, <1>7, <1>8, <1>9, <1>10

\* The first n items of a sequence.
LEMMA Prefix ==
    ASSUME NEW S, NEW s \in Seq(S), NEW n \in 0..Len(s)
    PROVE  /\ SubSeq(s, 1, n) \in Seq(S) /\ DOMAIN SubSeq(s, 1, n) = 1..n
           /\ \A i \in 1..n : SubSeq(s, 1, n)[i] = s[i]
OBVIOUS

\* The stack down to v, and what is below.
LEMMA StackParts ==
    ASSUME Ordered, NEW v \in on_stack,
           NEW from \in DOMAIN stack, stack[from] = v,
           NEW below, below = SubSeq(stack, 1, from - 1),
           NEW scc, scc = SubSeq(stack, from, Len(stack))
    PROVE  /\ below \in Seq(graph.v) /\ DOMAIN below \subseteq DOMAIN stack
           /\ \A i \in DOMAIN below : below[i] = stack[i]
           /\ {below[i] : i \in DOMAIN below} = {x \in on_stack : index_dict[x] < index_dict[v]}
           /\ ToSet(scc) = {x \in on_stack : index_dict[v] <= index_dict[x]}
<1> DEFINE n == Len(stack)
<1> USE DEF Ordered
<1>1. stack \in Seq(graph.v) /\ n \in Nat /\ DOMAIN stack = 1..n
  BY DEF TarjanTypeOK
<1>2. on_stack = {stack[i] : i \in 1..n}
  BY <1>1 DEF Stacked
<1>3. from \in 1..n /\ stack[from] = v
  BY <1>1, <1>2
<1>4. /\ below \in Seq(graph.v) /\ DOMAIN below = 1..(from - 1)
      /\ \A i \in 1..(from - 1) : below[i] = stack[i]
  <2>1. from - 1 \in 0..Len(stack)
    BY <1>1, <1>3
  <2> QED
    BY <1>1, <2>1, Prefix
<1>5. /\ DOMAIN scc = 1..(n - from + 1)
      /\ \A i \in 1..(n - from + 1) : scc[i] = stack[from + i - 1]
  BY <1>1, <1>3
<1>6. \A i \in 1..n : index_dict[stack[i]] \in Nat
  BY <1>1, <1>2 DEF TarjanTypeOK, Stacked
<1>7. /\ \A i \in 1..n : i < from => index_dict[stack[i]] < index_dict[v]
      /\ \A i \in 1..n : from < i => index_dict[v] < index_dict[stack[i]]
  BY <1>1, <1>3 DEF Stacked
<1> HIDE DEF n
<1>8. ToSet(scc) = {stack[i] : i \in from..n}
  <2>1. ToSet(scc) = {scc[i] : i \in 1..(n - from + 1)}
    BY <1>5 DEF ToSet
  <2>2. ASSUME NEW i \in 1..(n - from + 1) PROVE scc[i] \in {stack[j] : j \in from..n}
    <3>1. from + i - 1 \in from..n /\ scc[i] = stack[from + i - 1]
      BY <1>1, <1>3, <1>5
    <3> QED
      BY <3>1
  <2>3. ASSUME NEW j \in from..n PROVE stack[j] \in {scc[i] : i \in 1..(n - from + 1)}
    <3>1. j - from + 1 \in 1..(n - from + 1) /\ from + (j - from + 1) - 1 = j
      BY <1>1, <1>3
    <3>2. scc[j - from + 1] = stack[j]
      BY <1>5, <3>1
    <3> QED
      BY <3>1, <3>2
  <2>4. ASSUME NEW x \in ToSet(scc) PROVE x \in {stack[j] : j \in from..n}
    <3>1. PICK i \in 1..(n - from + 1) : x = scc[i]
      BY <2>1
    <3> QED
      BY <2>2, <3>1
  <2>5. ASSUME NEW x \in {stack[j] : j \in from..n} PROVE x \in ToSet(scc)
    <3>1. PICK j \in from..n : x = stack[j]
      OBVIOUS
    <3> QED
      BY <2>1, <2>3, <3>1
  <2> QED
    BY <2>4, <2>5
<1>9. {below[i] : i \in DOMAIN below} = {x \in on_stack : index_dict[x] < index_dict[v]}
  <2>1. ASSUME NEW i \in 1..(from - 1)
        PROVE  stack[i] \in {x \in on_stack : index_dict[x] < index_dict[v]}
    <3>1. i \in 1..n /\ i < from
      BY <1>1, <1>3
    <3> QED
      BY <1>2, <1>7, <3>1
  <2>2. ASSUME NEW x \in on_stack, index_dict[x] < index_dict[v]
        PROVE  x \in {stack[i] : i \in 1..(from - 1)}
    <3>1. PICK i \in 1..n : x = stack[i]
      BY <1>2
    <3>2. /\ index_dict[stack[i]] < index_dict[v]
          /\ index_dict[stack[i]] \in Nat /\ index_dict[v] \in Nat
      BY <1>3, <1>6, <2>2, <3>1
    <3>3. i # from
      BY <1>3, <3>2
    <3>4. ~(from < i)
      BY <1>7, <3>2
    <3>5. i \in 1..(from - 1)
      BY <1>1, <1>3, <3>3, <3>4
    <3> QED
      BY <3>1, <3>5
  <2>3. {below[i] : i \in DOMAIN below} = {stack[i] : i \in 1..(from - 1)}
    BY <1>4
  <2>4. ASSUME NEW x \in {stack[i] : i \in 1..(from - 1)}
        PROVE  x \in {y \in on_stack : index_dict[y] < index_dict[v]}
    BY <2>1
  <2> QED
    BY <2>2, <2>3, <2>4
<1>10. ToSet(scc) = {x \in on_stack : index_dict[v] <= index_dict[x]}
  <2>1. ASSUME NEW i \in from..n
        PROVE  stack[i] \in {x \in on_stack : index_dict[v] <= index_dict[x]}
    <3>1. i \in 1..n /\ (i = from \/ from < i)
      BY <1>1, <1>3
    <3>2. index_dict[stack[i]] \in Nat /\ index_dict[v] \in Nat
      BY <1>3, <1>6, <3>1
    <3>3. index_dict[v] <= index_dict[stack[i]]
      <4>1. CASE i = from
        BY <1>3, <3>2, <4>1
      <4>2. CASE from < i
        BY <1>7, <3>1, <3>2, <4>2
      <4> QED
        BY <3>1, <4>1, <4>2
    <3> QED
      BY <1>2, <3>1, <3>3
  <2>2. ASSUME NEW x \in on_stack, index_dict[v] <= index_dict[x]
        PROVE  x \in {stack[i] : i \in from..n}
    <3>1. PICK i \in 1..n : x = stack[i]
      BY <1>2
    <3>2. ~(i < from)
      BY <1>3, <1>6, <1>7, <2>2, <3>1
    <3>3. i \in from..n
      BY <1>1, <1>3, <3>2
    <3> QED
      BY <3>1, <3>3
  <2> QED
    BY <1>8, <2>1, <2>2
<1>11. DOMAIN below \subseteq DOMAIN stack
  BY <1>1, <1>3, <1>4
<1> QED
  BY <1>4, <1>9, <1>10, <1>11

\* The numbers of the vertices on the stack.
LEMMA OnStack ==
    ASSUME Ordered
    PROVE  /\ Gray \subseteq on_stack /\ on_stack \subseteq Indexed /\ Indexed \subseteq graph.v
           /\ \A x \in Indexed : index_dict[x] \in Nat /\ lowlink_dict[x] \in Nat
           /\ \A x, y \in Indexed : index_dict[x] = index_dict[y] => x = y
BY DEF Ordered, TarjanTypeOK, Numbered, Stacked, Nested

\* A call begins.
LEMMA EnterInv ==
    ASSUME TarjanInv, WellFormed(graph), NEW w \in graph.v \ Indexed, NEW frames \in Seq(Frame),
           DOMAIN frames = DOMAIN calls,
           \A k \in DOMAIN calls :
              frames[k].v = calls[k].v /\ frames[k].edges \subseteq calls[k].edges,
           NEW taken, PendingOf(frames) = Pending \ taken,
           \A e \in taken : Into(e) = w,
           \A g \in Gray : Reaches(g, w),
           Enter(w, frames), graph' = graph
    PROVE  TarjanInv'
<1> USE DEF TarjanInv
<1>1. /\ Ordered'
      /\ Gray' = Gray \cup {w}
      /\ Pending' = (Pending \ taken) \cup Out(graph, w)
      /\ Indexed' = Indexed \cup {w} /\ on_stack' = on_stack \cup {w}
      /\ \A x \in Indexed : /\ index_dict'[x] = index_dict[x]
                            /\ lowlink_dict'[x] = lowlink_dict[x]
                            /\ index_dict[x] < index_dict'[w]
      /\ lowlink_dict'[w] = index_dict'[w]
      /\ sccs' = sccs
  BY Entered
<1>2. /\ Gray \subseteq on_stack /\ on_stack \subseteq Indexed
      /\ \A x \in Indexed : index_dict[x] \in Nat /\ lowlink_dict[x] \in Nat
  BY OnStack
<1>3. index_dict'[w] \in Nat
  BY <1>1 DEF Ordered, TarjanTypeOK
<1>4. LookedAt'
  BY <1>1 DEF LookedAt, Out
<1>5. Found'
  <2>1. Done' = Done
    BY <1>1, <1>2 DEF Done
  <2> QED
    BY <1>1, <2>1 DEF Found
<1>6. Reaching'
  <2>1. ASSUME NEW x \in on_stack'
        PROVE  \E g \in Gray' : index_dict'[g] <= index_dict'[x] /\ Reaches(x, g)
    <3>1. CASE x = w
      BY <1>1, <1>3, <3>1, ReachSelf DEF Reaches
    <3>2. CASE x # w
      BY <1>1, <1>2, <3>2 DEF Reaching
    <3> QED
      BY <3>1, <3>2
  <2>2. ASSUME NEW g \in Gray', NEW x \in on_stack', index_dict'[g] <= index_dict'[x]
        PROVE  Reaches(g, x)
    <3>1. CASE x = w
      BY <1>1, <3>1, ReachSelf DEF Reaches
    <3>2. CASE x # w
      <4>1. g # w
        BY <1>1, <1>2, <1>3, <2>2, <3>2
      <4> QED
        BY <1>1, <1>2, <2>2, <3>2, <4>1 DEF Reaching
    <3> QED
      BY <3>1, <3>2
  <2> QED
    BY <2>1, <2>2 DEF Reaching, Reaches
<1>7. LowSound'
  <2> SUFFICES ASSUME NEW g \in Gray'
               PROVE  /\ lowlink_dict'[g] <= index_dict'[g]
                      /\ \E y \in on_stack' : index_dict'[y] = lowlink_dict'[g] /\ Reaches(g, y)
    BY <1>1 DEF LowSound, Reaches
  <2>1. CASE g = w
    BY <1>1, <1>3, <2>1, ReachSelf DEF Reaches
  <2>2. CASE g # w
    <3>1. g \in Gray /\ g \in Indexed
      BY <1>1, <1>2, <2>2
    <3>2. PICK y \in on_stack : index_dict[y] = lowlink_dict[g] /\ Reaches(g, y)
      BY <3>1 DEF LowSound
    <3> QED
      BY <1>1, <1>2, <3>1, <3>2 DEF LowSound
  <2> QED
    BY <2>1, <2>2
<1>8. LowComplete'
  <2> SUFFICES ASSUME NEW g \in Gray', NEW x \in on_stack', NEW e \in graph.e,
                      Owns(g, x)', From(e) = x, e \notin Pending', Into(e) \in on_stack'
               PROVE  lowlink_dict'[g] <= index_dict'[Into(e)]
    BY <1>1 DEF LowComplete
  <2>1. x # w /\ x \in Indexed
    BY <1>1, <1>2 DEF Out
  <2>2. g # w
    BY <1>1, <1>2, <1>3, <2>1 DEF Owns
  <2>3. g \in Gray /\ x \in on_stack /\ g \in Indexed
    BY <1>1, <1>2, <2>1, <2>2
  <2>4. Owns(g, x)
    BY <1>1, <1>2, <2>1, <2>3 DEF Owns
  <2>5. CASE e \in Pending
    <3>1. Into(e) = w
      BY <1>1, <2>5
    <3>2. lowlink_dict[g] <= index_dict[g] /\ index_dict[g] < index_dict'[w]
      BY <1>1, <2>3 DEF LowSound
    <3> QED
      BY <1>1, <1>2, <1>3, <2>3, <3>1, <3>2
  <2>6. CASE e \notin Pending
    <3>1. Into(e) \in on_stack
      BY <1>1, <2>1, <2>6 DEF LookedAt
    <3> QED
      BY <1>1, <1>2, <2>3, <2>4, <2>6, <3>1 DEF LowComplete
  <2> QED
    BY <2>5, <2>6
<1> QED
  BY <1>1, <1>4, <1>5, <1>6, <1>7, <1>8

\* Lowering a low link.
LEMMA Lowered ==
    ASSUME TarjanTypeOK, NEW v \in Indexed, NEW n \in Nat,
           lowlink_dict' = [lowlink_dict EXCEPT ![v] = Lesser(@, n)]
    PROVE  /\ lowlink_dict' \in [Indexed -> Nat]
           /\ \A x \in Indexed : x # v => lowlink_dict'[x] = lowlink_dict[x]
           /\ \A x \in Indexed : lowlink_dict'[x] <= lowlink_dict[x]
           /\ lowlink_dict'[v] \in {lowlink_dict[v], n}
           /\ lowlink_dict'[v] <= n
BY DEF TarjanTypeOK, Lesser

\* A call looks at an edge to a vertex that has been met.
LEMMA LookedInv ==
    ASSUME TarjanInv, WellFormed(graph), NEW e \in graph.e,
           From(e) \in Gray, \A g \in Gray : index_dict[g] <= index_dict[From(e)],
           Into(e) \in Indexed,
           Ordered', Gray' = Gray, Pending' = Pending \ {e},
           UNCHANGED <<graph, index_dict, on_stack, sccs>>,
           lowlink_dict' =
             IF Into(e) \in on_stack
             THEN [lowlink_dict EXCEPT ![From(e)] = Lesser(@, index_dict[Into(e)])]
             ELSE lowlink_dict
    PROVE  TarjanInv'
<1> DEFINE v == From(e)
           w == Into(e)
<1> USE DEF TarjanInv
<1>1. /\ Gray \subseteq on_stack /\ on_stack \subseteq Indexed
      /\ \A x \in Indexed : index_dict[x] \in Nat /\ lowlink_dict[x] \in Nat
      /\ \A x, y \in Indexed : index_dict[x] = index_dict[y] => x = y
  BY OnStack
<1>2. Indexed' = Indexed /\ Done' = Done
  BY DEF Indexed, Done
<1>3. LookedAt'
  BY <1>2 DEF LookedAt
<1>4. Found'
  BY <1>2 DEF Found
<1>5. Reaching'
  BY DEF Reaching, Reaches
<1>6. /\ \A g \in Gray : lowlink_dict'[g] \in Nat /\ lowlink_dict'[g] <= lowlink_dict[g]
      /\ \A g \in Gray : g # v => lowlink_dict'[g] = lowlink_dict[g]
      /\ w \notin on_stack => lowlink_dict'[v] = lowlink_dict[v]
      /\ w \in on_stack => lowlink_dict'[v] \in {lowlink_dict[v], index_dict[w]}
      /\ w \in on_stack => lowlink_dict'[v] <= index_dict[w]
  <2>1. CASE w \in on_stack
    <3>1. v \in Indexed /\ index_dict[w] \in Nat /\ TarjanTypeOK
      BY <1>1 DEF Ordered
    <3>2. lowlink_dict' = [lowlink_dict EXCEPT ![v] = Lesser(@, index_dict[w])]
      BY <2>1
    <3> HIDE DEF v, w
    <3> QED
      BY <1>1, <2>1, <3>1, <3>2, Lowered
  <2>2. CASE w \notin on_stack
    BY <1>1, <2>2
  <2> QED
    BY <2>1, <2>2
<1>7. LowSound'
  <2> SUFFICES ASSUME NEW g \in Gray
               PROVE  /\ lowlink_dict'[g] <= index_dict[g]
                      /\ \E y \in on_stack : index_dict[y] = lowlink_dict'[g] /\ Reaches(g, y)
    BY DEF LowSound, Reaches
  <2>1. lowlink_dict'[g] <= index_dict[g]
    BY <1>1, <1>6 DEF LowSound
  <2>2. CASE lowlink_dict'[g] = lowlink_dict[g]
    BY <2>1, <2>2 DEF LowSound
  <2>3. CASE lowlink_dict'[g] # lowlink_dict[g]
    <3>1. g = v /\ w \in on_stack /\ lowlink_dict'[g] = index_dict[w]
      BY <1>6, <2>3
    <3>2. Reaches(v, w)
      BY ReachByEdge DEF Reaches
    <3> QED
      BY <2>1, <3>1, <3>2
  <2> QED
    BY <2>2, <2>3
<1>8. LowComplete'
  <2> SUFFICES ASSUME NEW g \in Gray, NEW x \in on_stack, NEW f \in graph.e,
                      Owns(g, x), From(f) = x, f \notin Pending', Into(f) \in on_stack
               PROVE  lowlink_dict'[g] <= index_dict[Into(f)]
    BY DEF LowComplete, Owns
  <2>1. CASE f = e
    <3>1. index_dict[v] <= index_dict[g] /\ g \in Indexed /\ v \in Indexed
      BY <1>1, <2>1 DEF Owns
    <3>2. g = v
      BY <1>1, <3>1
    <3> QED
      BY <1>6, <2>1, <3>2
  <2>2. CASE f # e
    <3>1. lowlink_dict[g] <= index_dict[Into(f)]
      BY <2>2 DEF LowComplete
    <3> QED
      BY <1>1, <1>6, <3>1
  <2> QED
    BY <2>1, <2>2
<1> QED
  BY <1>3, <1>4, <1>5, <1>7, <1>8

LEMMA LookInv ==
    ASSUME TarjanInv, WellFormed(graph), NEW e \in graph.e, Look(e)
    PROVE  TarjanInv'
<1> DEFINE rest == [calls EXCEPT ![Len(calls)].edges = @ \ {e}]
           v == From(e)
           w == Into(e)
<1>1. /\ calls # <<>> /\ e \in Last(calls).edges
      /\ UNCHANGED <<graph, collapsed>>
  BY DEF Look
<1>2. Ordered
  BY DEF TarjanInv
<1>3. /\ rest \in Seq(Frame) /\ DOMAIN rest = DOMAIN calls
      /\ \A k \in DOMAIN calls :
            rest[k].v = calls[k].v /\ rest[k].edges \subseteq calls[k].edges
      /\ GrayOf(rest) = Gray /\ PendingOf(rest) = Pending \ {e}
      /\ v = Last(calls).v
  BY <1>1, <1>2, RestOfCalls
<1>4. v \in Gray /\ \A g \in Gray : index_dict[g] <= index_dict[v]
  BY <1>1, <1>2, <1>3, LastCall
<1>5. IF w \notin Indexed THEN Enter(w, rest)
      ELSE /\ calls' = rest
           /\ lowlink_dict' = IF w \in on_stack
                              THEN [lowlink_dict EXCEPT ![v] = Lesser(@, index_dict[w])]
                              ELSE lowlink_dict
           /\ UNCHANGED <<stack, index_dict, on_stack, sccs>>
  BY DEF Look, Current
<1>6. w \in graph.v /\ v \in graph.v
  BY DEF WellFormed
<1> HIDE DEF rest
<1>7. CASE w \notin Indexed
  <2>1. \A g \in Gray : Reaches(g, w)
    <3>1. Reaches(v, w)
      BY ReachByEdge DEF Reaches
    <3>2. \A g \in Gray : Reaches(g, v)
      BY <1>2, <1>4, OnStack DEF TarjanInv, Reaching
    <3> QED
      BY <3>1, <3>2, ReachThrough DEF Reaches
  <2>2. \A f \in {e} : Into(f) = w
    OBVIOUS
  <2>3. Enter(w, rest) /\ w \in graph.v \ Indexed /\ graph' = graph
    BY <1>1, <1>5, <1>6, <1>7
  <2> HIDE DEF w
  <2> QED
    BY <1>3, <2>1, <2>2, <2>3, EnterInv
<1>8. CASE w \in Indexed
  <2>1. /\ calls' = rest /\ UNCHANGED <<stack, index_dict, on_stack, sccs, graph>>
        /\ lowlink_dict' = IF w \in on_stack
                           THEN [lowlink_dict EXCEPT ![v] = Lesser(@, index_dict[w])]
                           ELSE lowlink_dict
    BY <1>1, <1>5, <1>8
  <2>2. Gray' = Gray /\ Pending' = Pending \ {e}
    BY <1>3, <2>1 DEF Gray, Pending
  <2>3. Ordered'
    <3>1. lowlink_dict' \in [Indexed -> Nat]
      <4>1. v \in Indexed /\ index_dict[w] \in Nat /\ TarjanTypeOK
        BY <1>2, <1>4, <1>8, OnStack DEF Ordered
      <4> HIDE DEF v, w
      <4>2. CASE w \in on_stack
        BY <2>1, <4>1, <4>2, Lowered
      <4>3. CASE w \notin on_stack
        BY <2>1, <4>1, <4>3 DEF TarjanTypeOK
      <4> QED
        BY <4>2, <4>3
    <3>2. Indexed' = Indexed
      BY <2>1 DEF Indexed
    <3>3. TarjanTypeOK'
      BY <1>2, <1>3, <2>1, <3>1, <3>2 DEF Ordered, TarjanTypeOK, Frame
    <3>4. Numbered' /\ Stacked'
      BY <1>2, <2>1, <3>2 DEF Ordered, Numbered, Stacked
    <3>5. Nested'
      BY <1>2, <1>3, <2>1, <2>2 DEF Ordered, Nested, Out
    <3> QED
      BY <3>3, <3>4, <3>5 DEF Ordered
  <2> QED
    BY <1>4, <1>8, <2>1, <2>2, <2>3, LookedInv
<1> QED
  BY <1>7, <1>8

\* While a low link is lower than the number, another call is below.
LEMMA LowerCall ==
    ASSUME TarjanInv, NEW v \in Gray, lowlink_dict[v] # index_dict[v]
    PROVE  \E y \in on_stack, g \in Gray :
              /\ index_dict[y] = lowlink_dict[v] /\ Reaches(v, y)
              /\ index_dict[y] < index_dict[v]
              /\ index_dict[g] <= index_dict[y] /\ Reaches(v, g)
<1> USE DEF TarjanInv
<1>1. /\ v \in Indexed /\ on_stack \subseteq Indexed /\ Gray \subseteq Indexed
      /\ \A x \in Indexed : index_dict[x] \in Nat /\ lowlink_dict[x] \in Nat
  BY OnStack
<1>2. PICK y \in on_stack : index_dict[y] = lowlink_dict[v] /\ Reaches(v, y)
  BY DEF LowSound
<1>3. index_dict[y] < index_dict[v]
  BY <1>1, <1>2 DEF LowSound
<1>4. PICK g \in Gray : index_dict[g] <= index_dict[y] /\ Reaches(y, g)
  BY DEF Reaching
<1>5. Reaches(v, g)
  BY <1>2, <1>4, ReachThrough DEF Reaches
<1> QED
  BY <1>2, <1>3, <1>4, <1>5

\* A call returns to the one that made it, whose low link it may lower.
LEMMA ReturnedInv ==
    ASSUME TarjanInv, NEW v \in Gray, \A g \in Gray : index_dict[g] <= index_dict[v],
           lowlink_dict[v] # index_dict[v],
           Gray' = Gray \ {v}, Pending' = Pending,
           NEW p \in Gray', \A g \in Gray' : index_dict[g] <= index_dict[p],
           lowlink_dict' = [lowlink_dict EXCEPT ![p] = Lesser(@, lowlink_dict[v])],
           Ordered', UNCHANGED <<graph, index_dict, on_stack, sccs>>
    PROVE  TarjanInv'
<1> USE DEF TarjanInv
<1>1. /\ Gray \subseteq on_stack /\ on_stack \subseteq Indexed /\ Gray \subseteq Indexed
      /\ \A x \in Indexed : index_dict[x] \in Nat /\ lowlink_dict[x] \in Nat
      /\ \A x, y \in Indexed : index_dict[x] = index_dict[y] => x = y
  BY OnStack
<1>2. Indexed' = Indexed /\ Done' = Done
  BY DEF Indexed, Done
<1>3. PICK y \in on_stack, b \in Gray :
         /\ index_dict[y] = lowlink_dict[v] /\ Reaches(v, y)
         /\ index_dict[y] < index_dict[v]
         /\ index_dict[b] <= index_dict[y] /\ Reaches(v, b)
  BY LowerCall
<1>4. /\ \A x \in Indexed : lowlink_dict'[x] \in Nat
      /\ \A x \in Indexed : x # p => lowlink_dict'[x] = lowlink_dict[x]
      /\ \A x \in Indexed : lowlink_dict'[x] <= lowlink_dict[x]
      /\ lowlink_dict'[p] \in {lowlink_dict[p], lowlink_dict[v]}
      /\ lowlink_dict'[p] <= lowlink_dict[v]
  <2>1. p \in Indexed /\ lowlink_dict[v] \in Nat /\ TarjanTypeOK
    BY <1>1 DEF Ordered
  <2> QED
    BY <2>1, Lowered
<1>5. p \in Gray /\ p # v /\ p \in Indexed /\ v \in Indexed /\ index_dict[p] < index_dict[v]
  BY <1>1
<1>6. LookedAt' /\ Found'
  BY <1>2 DEF LookedAt, Found
<1>7. Reaching'
  <2>1. ASSUME NEW x \in on_stack
        PROVE  \E g \in Gray' : index_dict[g] <= index_dict[x] /\ Reaches(x, g)
    <3>1. PICK g \in Gray : index_dict[g] <= index_dict[x] /\ Reaches(x, g)
      BY DEF Reaching
    <3>2. CASE g # v
      BY <3>1, <3>2
    <3>3. CASE g = v
      <4>1. index_dict[b] <= index_dict[x] /\ b # v
        BY <1>1, <1>3, <3>1, <3>3
      <4>2. Reaches(x, b)
        BY <1>3, <3>1, <3>3, ReachThrough DEF Reaches
      <4> QED
        BY <4>1, <4>2
    <3> QED
      BY <3>2, <3>3
  <2> QED
    BY <2>1 DEF Reaching, Reaches
<1>8. LowSound'
  <2> SUFFICES ASSUME NEW g \in Gray'
               PROVE  /\ lowlink_dict'[g] <= index_dict[g]
                      /\ \E z \in on_stack : index_dict[z] = lowlink_dict'[g] /\ Reaches(g, z)
    BY DEF LowSound, Reaches
  <2>1. g \in Gray /\ g \in Indexed
    BY <1>1
  <2>2. lowlink_dict'[g] <= index_dict[g]
    BY <1>1, <1>4, <2>1 DEF LowSound
  <2>3. CASE lowlink_dict'[g] = lowlink_dict[g]
    BY <2>1, <2>2, <2>3 DEF LowSound
  <2>4. CASE lowlink_dict'[g] # lowlink_dict[g]
    <3>1. g = p /\ lowlink_dict'[g] = index_dict[y]
      BY <1>3, <1>4, <2>1, <2>4
    <3>2. Reaches(p, v)
      BY <1>1, <1>5 DEF Reaching
    <3>3. Reaches(p, y)
      BY <1>3, <3>2, ReachThrough DEF Reaches
    <3> QED
      BY <2>2, <3>1, <3>3
  <2> QED
    BY <2>3, <2>4
<1>9. LowComplete'
  <2> SUFFICES ASSUME NEW g \in Gray', NEW x \in on_stack, NEW e \in graph.e,
                      Owns(g, x)', From(e) = x, e \notin Pending, Into(e) \in on_stack
               PROVE  lowlink_dict'[g] <= index_dict[Into(e)]
    BY DEF LowComplete
  <2>1. /\ g \in Gray /\ g \in Indexed /\ x \in Indexed /\ index_dict[Into(e)] \in Nat
        /\ index_dict[g] <= index_dict[x]
        /\ \A h \in Gray' : index_dict[h] <= index_dict[x] => index_dict[h] <= index_dict[g]
    BY <1>1 DEF Owns
  <2>2. CASE Owns(g, x)
    <3>1. lowlink_dict[g] <= index_dict[Into(e)]
      BY <2>1, <2>2 DEF LowComplete
    <3> QED
      BY <1>1, <1>4, <2>1, <3>1
  <2>3. CASE ~Owns(g, x)
    <3>1. index_dict[v] <= index_dict[x] /\ ~(index_dict[v] <= index_dict[g])
      BY <2>1, <2>3 DEF Owns
    <3>2. Owns(v, x)
      BY <3>1 DEF Owns
    <3>3. lowlink_dict[v] <= index_dict[Into(e)]
      BY <3>2 DEF LowComplete
    <3>4. index_dict[p] <= index_dict[x]
      BY <1>1, <1>5, <2>1, <3>1
    <3>5. g = p
      BY <1>1, <1>5, <2>1, <3>4
    <3> QED
      BY <1>1, <1>4, <1>5, <2>1, <3>3, <3>5
  <2> QED
    BY <2>2, <2>3
<1> QED
  BY <1>6, <1>7, <1>8, <1>9

\* A call returns that nothing met before reaches below: what is on the stack
\* from its vertex on is a component.
LEMMA ComponentInv ==
    ASSUME TarjanInv, WellFormed(graph),
           NEW v \in Gray, \A g \in Gray : index_dict[g] <= index_dict[v],
           lowlink_dict[v] = index_dict[v],
           Gray' = Gray \ {v}, Pending' = Pending, Pending \cap Out(graph, v) = {},
           NEW scc, scc = {x \in on_stack : index_dict[v] <= index_dict[x]},
           on_stack' = {x \in on_stack : index_dict[x] < index_dict[v]},
           sccs' = Append(sccs, scc),
           \A g \in Gray' : lowlink_dict'[g] = lowlink_dict[g],
           \A e \in Pending : From(e) \in Gray,
           Ordered', UNCHANGED <<graph, index_dict>>
    PROVE  TarjanInv'
<1> USE DEF TarjanInv
<1>1. /\ Gray \subseteq on_stack /\ on_stack \subseteq Indexed /\ Gray \subseteq Indexed
      /\ Indexed \subseteq graph.v
      /\ \A x \in Indexed : index_dict[x] \in Nat /\ lowlink_dict[x] \in Nat
      /\ \A x, y \in Indexed : index_dict[x] = index_dict[y] => x = y
  BY OnStack
<1>2. Indexed' = Indexed
  BY DEF Indexed
<1>3. /\ on_stack = on_stack' \cup scc /\ on_stack' \cap scc = {} /\ v \in scc
      /\ Done' = Done \cup scc /\ Done \cap scc = {}
  BY <1>1, <1>2 DEF Done
\* No edge leaves what has been found.
<1>4. ASSUME NEW e \in graph.e, From(e) \in scc PROVE Into(e) \in Done \cup scc
  <2>1. e \notin Pending
    <3> SUFFICES ASSUME e \in Pending PROVE FALSE
      OBVIOUS
    <3>1. From(e) \in Gray
      OBVIOUS
    <3>2. From(e) = v
      BY <1>1, <1>4, <3>1
    <3> QED
      BY <3>2 DEF Out
  <2>2. Into(e) \in Indexed
    BY <1>1, <1>4, <2>1 DEF LookedAt
  <2>3. CASE Into(e) \in on_stack
    <3>1. Owns(v, From(e))
      BY <1>4 DEF Owns
    <3>2. lowlink_dict[v] <= index_dict[Into(e)]
      BY <1>4, <2>1, <2>3, <3>1 DEF LowComplete
    <3> QED
      BY <2>3, <3>2
  <2> QED
    BY <2>2, <2>3 DEF Done
<1>5. \A e \in graph.e : From(e) \in Done \cup scc => Into(e) \in Done \cup scc
  BY <1>4 DEF Found
\* v reaches all of scc, and is reached.
<1>6. \A x \in scc : Reaches(v, x)
  BY DEF Reaching
<1>7. ASSUME NEW x \in scc PROVE Reaches(x, v)
  <2>1. PICK g \in Gray : index_dict[g] <= index_dict[x] /\ Reaches(x, g)
    BY DEF Reaching
  <2>2. g \in Done \cup scc
    BY <1>1, <1>5, <2>1, ReachWithin DEF Reaches
  <2>3. g \in scc
    BY <1>1, <2>2 DEF Done
  <2>4. g = v
    BY <1>1, <2>3
  <2> QED
    BY <2>1, <2>4
\* v reaches nothing that was found before.
<1>8. scc = {u \in graph.v : Reaches(u, v) /\ Reaches(v, u)}
  <2>1. ASSUME NEW u \in graph.v, Reaches(u, v), Reaches(v, u) PROVE u \in scc
    <3>1. u \in Done \cup scc
      BY <1>3, <1>5, <2>1, ReachWithin DEF Reaches
    <3>2. u \notin Done
      <4> SUFFICES ASSUME u \in Done PROVE FALSE
        OBVIOUS
      <4>1. v \in Done
        <5>1. \A e \in graph.e : From(e) \in Done => Into(e) \in Done
          BY DEF Found
        <5> QED
          BY <1>1, <2>1, <5>1, ReachWithin DEF Reaches
      <4> QED
        BY <1>3, <4>1
    <3> QED
      BY <3>1, <3>2
  <2> QED
    BY <1>1, <1>6, <1>7, <2>1
<1>9. scc \in Components(graph)
  BY <1>1, <1>8 DEF Components, Reaches
<1>10. Found'
  <2>1. /\ sccs \in Seq(SUBSET graph.v) /\ scc \in SUBSET graph.v
        /\ Done = UNION {sccs[i] : i \in DOMAIN sccs}
    BY <1>1 DEF Ordered, TarjanTypeOK, Found
  <2>2. /\ Len(sccs) \in Nat /\ DOMAIN sccs = 1..Len(sccs)
        /\ DOMAIN sccs' = DOMAIN sccs \cup {Len(sccs) + 1}
        /\ \A i \in DOMAIN sccs : sccs'[i] = sccs[i]
        /\ sccs'[Len(sccs) + 1] = scc
    BY <2>1, Appended
  <2>3. Done' = UNION {sccs'[i] : i \in DOMAIN sccs'}
    <3>1. ASSUME NEW x \in UNION {sccs'[i] : i \in DOMAIN sccs'}
          PROVE  x \in (UNION {sccs[i] : i \in DOMAIN sccs}) \cup scc
      <4>1. PICK i \in DOMAIN sccs' : x \in sccs'[i]
        BY <3>1
      <4>2. CASE i \in DOMAIN sccs
        BY <2>2, <4>1, <4>2
      <4>3. CASE i = Len(sccs) + 1
        <5>1. sccs'[i] = scc
          BY <2>2, <4>3
        <5> QED
          BY <4>1, <5>1
      <4> QED
        BY <2>2, <4>2, <4>3
    <3>2. ASSUME NEW x \in (UNION {sccs[i] : i \in DOMAIN sccs}) \cup scc
          PROVE  x \in UNION {sccs'[i] : i \in DOMAIN sccs'}
      <4>1. CASE x \in scc
        <5>1. Len(sccs) + 1 \in DOMAIN sccs' /\ x \in sccs'[Len(sccs) + 1]
          BY <2>2, <4>1
        <5> QED
          BY <5>1
      <4>2. CASE x \notin scc
        <5>0. x \in UNION {sccs[i] : i \in DOMAIN sccs}
          BY <3>2, <4>2
        <5>1. PICK i \in DOMAIN sccs : x \in sccs[i]
          BY <5>0
        <5>2. i \in DOMAIN sccs' /\ x \in sccs'[i]
          BY <2>2, <5>1
        <5> QED
          BY <5>2
      <4> QED
        BY <4>1, <4>2
    <3> QED
      BY <1>3, <2>1, <3>1, <3>2
  <2>4. \A i \in DOMAIN sccs' : sccs'[i] \in Components(graph)
    BY <1>9, <2>2 DEF Found
  <2>5. ASSUME NEW i \in DOMAIN sccs', NEW j \in DOMAIN sccs', i < j
        PROVE  /\ sccs'[i] # sccs'[j]
               /\ \A e \in graph.e : ~(From(e) \in sccs'[i] /\ Into(e) \in sccs'[j])
    <3>1. i \in DOMAIN sccs /\ sccs'[i] = sccs[i] /\ sccs[i] \subseteq Done
      BY <2>1, <2>2, <2>5
    <3>2. CASE j \in DOMAIN sccs
      BY <2>2, <2>5, <3>1, <3>2 DEF Found
    <3>3. CASE j = Len(sccs) + 1
      <4>1. sccs'[j] = scc
        BY <2>2, <3>3
      <4>2. \A e \in graph.e : From(e) \in Done => Into(e) \in Done
        BY DEF Found
      <4> QED
        BY <1>3, <3>1, <4>1, <4>2
    <3> QED
      BY <2>2, <3>2, <3>3
  <2> QED
    BY <1>3, <1>5, <2>3, <2>4, <2>5 DEF Found
<1>11. LookedAt'
  BY <1>2 DEF LookedAt
<1>12. Reaching'
  <2>1. ASSUME NEW x \in on_stack'
        PROVE  \E g \in Gray' : index_dict[g] <= index_dict[x] /\ Reaches(x, g)
    <3>1. x \in on_stack /\ index_dict[x] < index_dict[v]
      OBVIOUS
    <3>2. PICK g \in Gray : index_dict[g] <= index_dict[x] /\ Reaches(x, g)
      BY <3>1 DEF Reaching
    <3>3. g # v
      BY <1>1, <3>1, <3>2
    <3> QED
      BY <3>2, <3>3
  <2> QED
    BY <1>3, <2>1 DEF Reaching, Reaches
<1>13. LowSound'
  <2> SUFFICES ASSUME NEW g \in Gray'
               PROVE  /\ lowlink_dict[g] <= index_dict[g]
                      /\ \E y \in on_stack' : index_dict[y] = lowlink_dict[g] /\ Reaches(g, y)
    BY DEF LowSound, Reaches
  <2>1. g \in Gray /\ g \in Indexed /\ index_dict[g] < index_dict[v]
    BY <1>1
  <2>2. lowlink_dict[g] <= index_dict[g]
    BY <2>1 DEF LowSound
  <2>3. PICK y \in on_stack : index_dict[y] = lowlink_dict[g] /\ Reaches(g, y)
    BY <2>1 DEF LowSound
  <2>4. y \in on_stack'
    BY <1>1, <2>1, <2>2, <2>3
  <2> QED
    BY <2>2, <2>3, <2>4
<1>14. LowComplete'
  <2> SUFFICES ASSUME NEW g \in Gray', NEW x \in on_stack', NEW e \in graph.e,
                      Owns(g, x)', From(e) = x, e \notin Pending, Into(e) \in on_stack'
               PROVE  lowlink_dict[g] <= index_dict[Into(e)]
    BY DEF LowComplete
  <2>1. g \in Gray /\ x \in on_stack /\ Into(e) \in on_stack /\ index_dict[x] < index_dict[v]
    OBVIOUS
  <2>2. Owns(g, x)
    BY <1>1, <2>1 DEF Owns
  <2> QED
    BY <2>1, <2>2 DEF LowComplete
<1> QED
  BY <1>10, <1>11, <1>12, <1>13, <1>14

\* A call is left, and perhaps what was put on the stack since it began.
LEMMA LeftOrdered ==
    ASSUME Ordered, calls # <<>>, Last(calls).edges = {}, calls' = Front(calls),
           lowlink_dict' \in [Indexed -> Nat],
           stack' \in Seq(graph.v), DOMAIN stack' \subseteq DOMAIN stack,
           \A i \in DOMAIN stack' : stack'[i] = stack[i],
           on_stack' = {stack'[i] : i \in DOMAIN stack'}, on_stack' \subseteq on_stack,
           Gray' \subseteq on_stack',
           sccs' \in Seq(SUBSET graph.v), UNCHANGED <<graph, index_dict>>
    PROVE  Ordered'
<1> USE DEF Ordered
<1>1. /\ calls' \in Seq(Frame) /\ DOMAIN calls' \subseteq DOMAIN calls
      /\ \A k \in DOMAIN calls' : calls'[k] = calls[k]
  BY Popped
<1>2. Indexed' = Indexed
  BY DEF Indexed
<1>3. TarjanTypeOK'
  BY <1>1, <1>2 DEF TarjanTypeOK, Frame
<1>4. Numbered'
  BY <1>2 DEF Numbered
<1>5. Stacked'
  BY <1>2 DEF Stacked
<1>6. Nested'
  BY <1>1 DEF Nested, Out
<1> QED
  BY <1>3, <1>4, <1>5, <1>6

\* A call returns.
LEMMA ReturnInv ==
    ASSUME TarjanInv, WellFormed(graph), Return
    PROVE  TarjanInv'
<1> DEFINE v == Last(calls).v
           from == CHOOSE i \in DOMAIN stack : stack[i] = v
           below == SubSeq(stack, 1, from - 1)
           scc == SubSeq(stack, from, Len(stack))
           p == Last(calls').v
<1>1. /\ calls # <<>> /\ Last(calls).edges = {} /\ calls' = Front(calls)
      /\ UNCHANGED <<graph, index_dict>>
  BY DEF Return
<1>2. Ordered
  BY DEF TarjanInv
<1>3. /\ Gray' = Gray \ {v} /\ Pending' = Pending /\ Pending \cap Out(graph, v) = {}
      /\ calls' # <<>> => p \in Gray' /\ \A g \in Gray' : index_dict[g] <= index_dict[p]
  BY <1>1, <1>2, Popped
<1>4. v \in Gray /\ \A g \in Gray : index_dict[g] <= index_dict[v]
  BY <1>1, <1>2, LastCall
<1>5. /\ Gray \subseteq on_stack /\ on_stack \subseteq Indexed
      /\ \A x \in Indexed : index_dict[x] \in Nat /\ lowlink_dict[x] \in Nat
      /\ \A x, y \in Indexed : index_dict[x] = index_dict[y] => x = y
  BY <1>2, OnStack
<1>6. from \in DOMAIN stack /\ stack[from] = v
  <2>1. \E i \in DOMAIN stack : stack[i] = v
    BY <1>2, <1>4, <1>5 DEF Ordered, Stacked
  <2> QED
    BY <2>1
<1>7. /\ lowlink_dict' = IF calls' = <<>> THEN lowlink_dict
                         ELSE [lowlink_dict EXCEPT ![p] = Lesser(@, lowlink_dict[v])]
      /\ IF lowlink_dict[v] = index_dict[v]
         THEN /\ stack' = below /\ on_stack' = on_stack \ ToSet(scc)
              /\ sccs' = Append(sccs, ToSet(scc))
         ELSE UNCHANGED <<stack, on_stack, sccs>>
  BY DEF Return, LowlinkReturned
<1> HIDE DEF v, from, below, scc, p
<1>8. calls' # <<>> =>
         /\ lowlink_dict' \in [Indexed -> Nat]
         /\ \A x \in Indexed : x # p => lowlink_dict'[x] = lowlink_dict[x]
         /\ lowlink_dict'[p] \in {lowlink_dict[p], lowlink_dict[v]}
         /\ p \in Gray /\ p # v /\ lowlink_dict'[p] <= lowlink_dict[p]
  <2> SUFFICES ASSUME calls' # <<>>
               PROVE  /\ lowlink_dict' \in [Indexed -> Nat]
                      /\ \A x \in Indexed : x # p => lowlink_dict'[x] = lowlink_dict[x]
                      /\ lowlink_dict'[p] \in {lowlink_dict[p], lowlink_dict[v]}
                      /\ p \in Gray /\ p # v /\ lowlink_dict'[p] <= lowlink_dict[p]
    OBVIOUS
  <2>1. p \in Gray /\ p # v /\ p \in Indexed /\ lowlink_dict[v] \in Nat /\ TarjanTypeOK
    BY <1>2, <1>3, <1>4, <1>5 DEF Ordered
  <2>2. lowlink_dict' = [lowlink_dict EXCEPT ![p] = Lesser(@, lowlink_dict[v])]
    BY <1>7
  <2> QED
    BY <2>1, <2>2, Lowered
<1>9. lowlink_dict' \in [Indexed -> Nat]
  BY <1>2, <1>7, <1>8 DEF Ordered, TarjanTypeOK
<1>10. CASE lowlink_dict[v] # index_dict[v]
  <2>1. calls' # <<>>
    <3>1. PICK y \in on_stack, b \in Gray :
             index_dict[y] < index_dict[v] /\ index_dict[b] <= index_dict[y]
      BY <1>4, <1>10, LowerCall
    <3>2. b \in Gray'
      BY <1>3, <1>4, <1>5, <3>1
    <3>3. <<>> \in Seq({}) /\ DOMAIN <<>> = {}
      OBVIOUS
    <3> QED
      BY <3>2, <3>3 DEF Gray, GrayOf
  <2>2. UNCHANGED <<stack, on_stack, sccs>>
    BY <1>7, <1>10
  <2>3. Ordered'
    <3>1. /\ stack \in Seq(graph.v) /\ on_stack = {stack[i] : i \in DOMAIN stack}
          /\ sccs \in Seq(SUBSET graph.v)
      BY <1>2 DEF Ordered, TarjanTypeOK, Stacked
    <3> QED
      BY <1>1, <1>2, <1>3, <1>5, <1>9, <2>2, <3>1, LeftOrdered
  <2>4. lowlink_dict' = [lowlink_dict EXCEPT ![p] = Lesser(@, lowlink_dict[v])]
    BY <1>7, <2>1
  <2>5. p \in Gray' /\ \A g \in Gray' : index_dict[g] <= index_dict[p]
    BY <1>3, <2>1
  <2> QED
    BY <1>1, <1>3, <1>4, <1>10, <2>2, <2>3, <2>4, <2>5, ReturnedInv
<1>11. CASE lowlink_dict[v] = index_dict[v]
  <2>1. stack' = below /\ on_stack' = on_stack \ ToSet(scc) /\ sccs' = Append(sccs, ToSet(scc))
    BY <1>7, <1>11
  <2>2. /\ below \in Seq(graph.v) /\ DOMAIN below \subseteq DOMAIN stack
        /\ \A i \in DOMAIN below : below[i] = stack[i]
        /\ {below[i] : i \in DOMAIN below} = {x \in on_stack : index_dict[x] < index_dict[v]}
        /\ ToSet(scc) = {x \in on_stack : index_dict[v] <= index_dict[x]}
    <3>1. v \in on_stack
      BY <1>4, <1>5
    <3> QED
      BY <1>2, <1>6, <3>1, StackParts DEF below, scc
  <2>3. on_stack' = {x \in on_stack : index_dict[x] < index_dict[v]}
    BY <1>4, <1>5, <2>1, <2>2
  <2>4. \A g \in Gray' : g \in Gray /\ index_dict[g] < index_dict[v]
    BY <1>3, <1>4, <1>5
  <2>5. sccs' \in Seq(SUBSET graph.v)
    <3>1. sccs \in Seq(SUBSET graph.v) /\ on_stack \subseteq graph.v
      BY <1>2, OnStack DEF Ordered, TarjanTypeOK
    <3>2. ToSet(scc) \in SUBSET graph.v
      BY <2>2, <3>1
    <3> QED
      BY <2>1, <3>1, <3>2
  <2>6. Ordered'
    <3>1. Gray' \subseteq on_stack' /\ on_stack' \subseteq on_stack
      BY <1>5, <2>3, <2>4
    <3>2. on_stack' = {stack'[i] : i \in DOMAIN stack'}
      BY <2>1, <2>2, <2>3
    <3> QED
      BY <1>1, <1>2, <1>9, <2>1, <2>2, <2>5, <3>1, <3>2, LeftOrdered
  <2>7. ASSUME NEW g \in Gray' PROVE lowlink_dict'[g] = lowlink_dict[g]
    <3>1. CASE calls' = <<>>
      BY <1>7, <3>1
    <3>2. CASE calls' # <<>> /\ g # p
      BY <1>5, <1>8, <2>4, <3>2
    <3>3. CASE calls' # <<>> /\ g = p
      <4>1. lowlink_dict[p] <= index_dict[p] /\ index_dict[p] < index_dict[v]
        BY <2>4, <3>3 DEF TarjanInv, LowSound
      <4>2. p \in Indexed /\ v \in Indexed /\ lowlink_dict'[p] <= lowlink_dict[p]
        BY <1>4, <1>5, <1>8, <3>3
      <4>3. lowlink_dict'[p] \in Nat
        BY <1>9, <4>2
      <4> QED
        BY <1>5, <1>8, <1>11, <3>3, <4>1, <4>2, <4>3
    <3> QED
      BY <3>1, <3>2, <3>3
  <2>8. \A e \in Pending : From(e) \in Gray
    BY <1>2 DEF Ordered, Nested, Pending, PendingOf, Gray, GrayOf, Out
  <2>9. /\ ToSet(scc) = {x \in on_stack : index_dict[v] <= index_dict[x]}
        /\ sccs' = Append(sccs, ToSet(scc))
    BY <2>1, <2>2
  <2> QED
    BY <1>1, <1>3, <1>4, <1>11, <2>3, <2>6, <2>7, <2>8, <2>9, ComponentInv
<1> QED
  BY <1>10, <1>11

\* strong_connect is called from the loop over the vertices.
LEMMA StrongConnectInv ==
    ASSUME TarjanInv, WellFormed(graph), NEW v \in graph.v, StrongConnect(v)
    PROVE  TarjanInv'
<1>1. calls = <<>> /\ v \in graph.v \ Indexed /\ Enter(v, calls) /\ graph' = graph
  BY DEF StrongConnect
<1>2. calls \in Seq(Frame)
  BY DEF TarjanInv, Ordered, TarjanTypeOK
<1>3. DOMAIN calls = {}
  <2>1. DOMAIN <<>> = {}
    OBVIOUS
  <2> QED
    BY <1>1, <2>1
<1>4. \A g \in Gray : Reaches(g, v)
  BY <1>3 DEF Gray, GrayOf
<1>5. PendingOf(calls) = Pending \ {}
  BY DEF Pending
<1>6. \A e \in {} : Into(e) = v
  OBVIOUS
<1> QED
  BY <1>1, <1>2, <1>3, <1>4, <1>5, <1>6, EnterInv

\* Between two calls of tarjan.
Fresh ==
    /\ calls = <<>> /\ stack = <<>>
    /\ index_dict = <<>> /\ lowlink_dict = <<>>
    /\ on_stack = {}
    /\ sccs = <<>>

\* A call of tarjan begins with nothing, whatever the graph.
LEMMA FreshInv == Fresh => TarjanInv
<1> SUFFICES ASSUME Fresh PROVE TarjanInv
  OBVIOUS
<1>1. DOMAIN <<>> = {} /\ <<>> \in [{} -> Nat] /\ \A S : <<>> \in Seq(S)
  OBVIOUS
<1>2. /\ Indexed = {} /\ DOMAIN calls = {} /\ DOMAIN stack = {} /\ DOMAIN sccs = {}
      /\ on_stack = {}
  BY <1>1 DEF Fresh, Indexed
<1>3. Gray = {} /\ Pending = {} /\ Done = {}
  BY <1>2 DEF Gray, GrayOf, Pending, PendingOf, Done
<1>4. Ordered
  <2>1. TarjanTypeOK
    BY <1>1, <1>2, FS_EmptySet DEF Fresh, TarjanTypeOK
  <2>2. Numbered /\ Stacked /\ Nested
    BY <1>2, <1>3 DEF Numbered, Stacked, Nested
  <2> QED
    BY <2>1, <2>2 DEF Ordered
<1>5. LookedAt /\ Reaching /\ LowSound /\ LowComplete
  BY <1>2, <1>3 DEF LookedAt, Reaching, LowSound, LowComplete
<1>6. Found
  BY <1>2, <1>3 DEF Found
<1> QED
  BY <1>4, <1>5, <1>6 DEF TarjanInv

LEMMA FreshPrimed == Fresh' => TarjanInv'
BY FreshInv, PTL

\* A component is what can be reached from any of its vertices and back, so two
\* that share a vertex are one.
LEMMA ComponentOf ==
    ASSUME NEW g, NEW C \in Components(g)
    PROVE  /\ C \subseteq g.v /\ C # {}
           /\ \A x \in C : C = {u \in g.v : u \in Ancestors(g, x) /\ x \in Ancestors(g, u)}
<1>1. PICK v \in g.v : C = {u \in g.v : u \in Ancestors(g, v) /\ v \in Ancestors(g, u)}
  BY DEF Components
<1>2. v \in C
  BY <1>1, ReachSelf
<1>3. ASSUME NEW x \in C, NEW u
      PROVE  u \in C <=> u \in {w \in g.v : w \in Ancestors(g, x) /\ x \in Ancestors(g, w)}
  <2>1. x \in Ancestors(g, v) /\ v \in Ancestors(g, x)
    BY <1>1
  <2>2. ASSUME u \in C PROVE u \in Ancestors(g, x) /\ x \in Ancestors(g, u)
    BY <1>1, <2>1, <2>2, ReachThrough
  <2>3. ASSUME u \in Ancestors(g, x), x \in Ancestors(g, u)
        PROVE  u \in Ancestors(g, v) /\ v \in Ancestors(g, u)
    BY <2>1, <2>3, ReachThrough
  <2> QED
    BY <1>1, <2>2, <2>3
<1> QED
  BY <1>1, <1>2, <1>3

\* When no call is left, every vertex is in a component that has been found.
LEMMA AllFound ==
    ASSUME TarjanInv, Connected
    PROVE  ToSet(sccs) = Components(graph)
<1>1. Gray = {}
  <2>1. DOMAIN <<>> = {}
    OBVIOUS
  <2> QED
    BY <2>1 DEF Connected, Gray, GrayOf
<1>2. Done = graph.v
  BY <1>1 DEF TarjanInv, Reaching, Done, Connected
<1>3. ToSet(sccs) = {sccs[i] : i \in DOMAIN sccs}
  BY DEF ToSet
<1>4. \A i \in DOMAIN sccs : sccs[i] \in Components(graph)
  BY DEF TarjanInv, Found
<1>5. ASSUME NEW C \in Components(graph) PROVE C \in {sccs[i] : i \in DOMAIN sccs}
  <2>1. PICK x \in C : x \in graph.v
    BY ComponentOf
  <2>2. PICK i \in DOMAIN sccs : x \in sccs[i]
    <3>1. x \in UNION {sccs[i] : i \in DOMAIN sccs}
      BY <1>2, <2>1 DEF TarjanInv, Found
    <3> QED
      BY <3>1
  <2>3. C = sccs[i]
    BY <1>4, <2>1, <2>2, ComponentOf
  <2> QED
    BY <2>2, <2>3
<1> QED
  BY <1>3, <1>4, <1>5

LEMMA TarjanInvSuffices == TarjanInv => TarjanFindsComponents
<1> SUFFICES ASSUME TarjanInv, Connected
             PROVE  /\ ToSet(sccs) = Components(graph)
                    /\ \A i, j \in DOMAIN sccs : i < j =>
                         sccs[i] # sccs[j]
                         /\ \A e \in graph.e : ~(From(e) \in sccs[i] /\ Into(e) \in sccs[j])
  BY DEF TarjanFindsComponents
<1> QED
  BY AllFound DEF TarjanInv, Found

\* The invariant in the whole of collapse_cycles, and after it has returned.
ComponentsInv == TarjanInv /\ (collapsed => Fresh)

LEMMA ComponentsStep ==
    ASSUME ComponentsInv, WellFormed(graph), [Next]_vars
    PROVE  ComponentsInv'
<1> USE DEF ComponentsInv
<1>1. ASSUME Afresh PROVE ComponentsInv'
  BY <1>1, FreshPrimed DEF Afresh, Fresh
<1>2. ASSUME UNCHANGED tarjanVars, collapsed, collapsed' PROVE ComponentsInv'
  <2>1. Fresh'
    BY <1>2 DEF Fresh, tarjanVars
  <2> QED
    BY <2>1, FreshPrimed
<1>3. CASE CyclesNext
  <2>1. ASSUME NEW v \in graph.v, StrongConnect(v) PROVE ComponentsInv'
    BY <2>1, StrongConnectInv DEF StrongConnect
  <2>2. ASSUME NEW e \in graph.e, Look(e) PROVE ComponentsInv'
    BY <2>2, LookInv DEF Look, Fresh
  <2>3. CASE Return
    BY <2>3, ReturnInv DEF Return, Fresh
  <2>4. CASE Collapse
    BY <1>1, <2>4 DEF Collapse
  <2>5. CASE Collapsed
    BY <1>1, <2>5 DEF Collapsed
  <2> QED
    BY <1>3, <2>1, <2>2, <2>3, <2>4, <2>5 DEF CyclesNext
<1>4. CASE Clean
  BY <1>2, <1>4 DEF Clean
<1>5. ASSUME UNCHANGED <<graph, tarjanVars, collapsed>> PROVE ComponentsInv'
  <2>0. /\ UNCHANGED <<graph, calls, stack, index_dict, lowlink_dict, on_stack, sccs>>
        /\ Indexed' = Indexed /\ Done' = Done /\ Gray' = Gray /\ Pending' = Pending
    BY <1>5 DEF tarjanVars, Indexed, Done, Gray, GrayOf, Pending, PendingOf
  <2>1. TarjanInv'
    <3>1. Ordered'
      BY <2>0 DEF TarjanInv, Ordered, TarjanTypeOK, Frame, Numbered, Stacked, Nested
    <3>2. LookedAt' /\ Found'
      BY <2>0 DEF TarjanInv, LookedAt, Found
    <3>3. Reaching' /\ LowSound'
      BY <2>0 DEF TarjanInv, Reaching, LowSound, Reaches
    <3>4. LowComplete'
      BY <2>0 DEF TarjanInv, LowComplete, Owns
    <3> QED
      BY <3>1, <3>2, <3>3, <3>4 DEF TarjanInv
  <2>2. Fresh' <=> Fresh
    BY <1>5 DEF Fresh, tarjanVars
  <2> QED
    BY <1>5, <2>1, <2>2
<1>6. CASE StartPaint
  BY <1>5, <1>6 DEF StartPaint, Paint!Call
<1>7. CASE /\ start # None /\ Paint!PaintNext
           /\ UNCHANGED <<input, cycle_of, tarjanVars, collapsed, cleaned>>
  BY <1>5, <1>7 DEF Paint!PaintNext, Paint!Visit, Paint!Follow
<1>8. CASE UNCHANGED vars
  BY <1>5, <1>8 DEF vars, cycleVars
<1> QED
  BY <1>3, <1>4, <1>6, <1>7, <1>8 DEF Next

-----------------------------------------------------------------------------
(* Finite sets of numbered things.                                         *)

\* A set of numbers that is not empty has a least element.
LEMMA LeastNumber ==
    ASSUME NEW T \in SUBSET Nat, T # {}
    PROVE  \E m \in T : \A k \in T : m <= k
<1> DEFINE R == OpToRel(<, Nat)
<1>1. IsWellFoundedOn(R, Nat)
  BY NatLessThanWellFounded
<1>2. PICK m \in T : \A k \in T : ~(<<k, m>> \in R)
  <2> HIDE DEF R
  <2> QED
    BY <1>1, WFMin
<1>3. \A k \in T : ~(k < m)
  BY <1>2 DEF OpToRel
<1> QED
  BY <1>3

\* In a finite set that R orders, something has nothing before it.
LEMMA FirstOfFinite ==
    ASSUME NEW S, IsFiniteSet(S), S # {}, NEW R,
           \A x \in S : <<x, x>> \notin R,
           \A x, y, z \in S : <<x, y>> \in R /\ <<y, z>> \in R => <<x, z>> \in R
    PROVE  \E m \in S : \A k \in S : <<k, m>> \notin R
<1> DEFINE Before(x) == {y \in S : <<y, x>> \in R}
           T == {Cardinality(Before(x)) : x \in S}
<1>1. \A x \in S : IsFiniteSet(Before(x)) /\ Cardinality(Before(x)) \in Nat
  BY FS_Subset, FS_CardinalityType
<1> HIDE DEF Before
<1>2. PICK m \in S : \A k \in S : Cardinality(Before(m)) <= Cardinality(Before(k))
  <2>1. T \in SUBSET Nat /\ T # {}
    BY <1>1
  <2>2. PICK c \in T : \A d \in T : c <= d
    <3> HIDE DEF T
    <3> QED
      BY <2>1, LeastNumber
  <2> QED
    BY <2>2
<1>3. ASSUME NEW k \in S, <<k, m>> \in R PROVE FALSE
  <2>1. Before(k) \in SUBSET Before(m) /\ k \in Before(m) /\ k \notin Before(k)
    BY <1>3 DEF Before
  <2>2. Cardinality(Before(k)) <= Cardinality(Before(m)) /\ Before(k) # Before(m)
    BY <1>1, <2>1, FS_Subset
  <2>3. Cardinality(Before(m)) # Cardinality(Before(k))
    BY <1>1, <2>1, <2>2, FS_Subset
  <2> QED
    BY <1>1, <1>2, <2>2, <2>3
<1> QED
  BY <1>3

\* The next id is that of no vertex.
LEMMA NextVertexIsNew ==
    ASSUME NEW g, IsFiniteSet(g.v), g.v \subseteq Int, g.v # {}
    PROVE  NextVertexId(g) \in Int /\ \A w \in g.v : w < NextVertexId(g)
<1> DEFINE R == {p \in Int \X Int : p[2] < p[1]}
<1>1. \A x, y \in Int : <<x, y>> \in R <=> y < x
  OBVIOUS
<1>2. PICK m \in g.v : \A k \in g.v : <<k, m>> \notin R
  <2>1. \A x \in g.v : <<x, x>> \notin R
    BY <1>1
  <2>2. \A x, y, z \in g.v : <<x, y>> \in R /\ <<y, z>> \in R => <<x, z>> \in R
    BY <1>1
  <2> HIDE DEF R
  <2> QED
    BY <2>1, <2>2, FirstOfFinite
<1> HIDE DEF R
<1>3. ASSUME NEW w \in g.v PROVE w <= m
  <2>1. ~(m < w) /\ m \in Int /\ w \in Int
    BY <1>1, <1>2
  <2> QED
    BY <2>1
<1> DEFINE top == CHOOSE v \in g.v : \A w \in g.v : w <= v
<1>4. top \in g.v /\ \A w \in g.v : w <= top
  BY <1>3, Zenon
<1>5. NextVertexId(g) = 1 + top
  BY DEF NextVertexId
<1> HIDE DEF top
<1> QED
  BY <1>4, <1>5

Edges == Int \X Int \X Int

\* The first edge between two vertices.
LEMMA FirstEdge ==
    ASSUME NEW edgeSet, IsFiniteSet(edgeSet), edgeSet \subseteq Edges, NEW e \in edgeSet
    PROVE  \E f \in edgeSet : From(f) = From(e) /\ Into(f) = Into(e) /\ IsKept(f, edgeSet)
<1> DEFINE S == {f \in edgeSet : From(f) = From(e) /\ Into(f) = Into(e)}
           R == {p \in Edges \X Edges : Number(p[1]) < Number(p[2])}
<1>1. \A x, y \in Edges : <<x, y>> \in R <=> Number(x) < Number(y)
  OBVIOUS
<1>2. \A x \in Edges : Number(x) \in Int
  BY DEF Edges, Number
<1>3. PICK m \in S : \A k \in S : <<k, m>> \notin R
  <2>1. \A x \in S : <<x, x>> \notin R
    BY <1>1, <1>2
  <2>2. \A x, y, z \in S : <<x, y>> \in R /\ <<y, z>> \in R => <<x, z>> \in R
    BY <1>1, <1>2
  <2>3. IsFiniteSet(S) /\ S # {}
    BY FS_Subset
  <2> HIDE DEF R, S
  <2> QED
    BY <2>1, <2>2, <2>3, FirstOfFinite
<1>4. \A k \in S : k \in Edges /\ ~(Number(k) < Number(m)) /\ Number(k) \in Int
  <2> HIDE DEF R
  <2> QED
    BY <1>1, <1>2, <1>3
<1>5. \A f \in edgeSet : From(f) = From(m) /\ Into(f) = Into(m) => Number(m) <= Number(f)
  BY <1>3, <1>4
<1> QED
  BY <1>3, <1>5 DEF IsKept

-----------------------------------------------------------------------------
(* What collapsing a component does to the paths.                          *)

FiniteGraph(g) ==
    /\ IsFiniteSet(g.v) /\ g.v \subseteq Int
    /\ IsFiniteSet(g.e) /\ g.e \subseteq Edges
    /\ WellFormed(g)

\* Where a vertex goes when cycle becomes new.
Goes(v, cycle, new) == IF v \in cycle THEN new ELSE v

\* f is what becomes of e.
BecomesEdge(e, f, cycle, new) ==
    /\ ~(From(e) \in cycle /\ Into(e) \in cycle)
    /\ Number(f) = Number(e)
    /\ From(f) = Goes(From(e), cycle, new) /\ Into(f) = Goes(Into(e), cycle, new)

\* The edges that stay go where their ends go, the others are within the cycle.
LEMMA ReplacedEdges ==
    ASSUME FiniteGraph(graph), NEW cycle, NEW new \in Int, NEW g, g = Replaced(cycle, new)
    PROVE  /\ g.v = (graph.v \ cycle) \cup {new}
           /\ IsFiniteSet(g.e) /\ g.e \subseteq Edges
           /\ \A e \in graph.e : ~(From(e) \in cycle /\ Into(e) \in cycle) =>
                 \E f \in g.e : BecomesEdge(e, f, cycle, new)
           /\ \A f \in g.e : \E e \in graph.e : BecomesEdge(e, f, cycle, new)
<1> DEFINE Mapped(e) == MappedEdge(e, cycle, new)
<1>1. g.v = (graph.v \ cycle) \cup {new} /\ g.e = {Mapped(e) : e \in graph.e} \ {None}
  BY DEF Replaced, Map
<1>2. \A e \in Edges : e # None
  BY NoneAssumption DEF Edges
<1>3. ASSUME NEW e \in graph.e
      PROVE  /\ (From(e) \in cycle /\ Into(e) \in cycle) => Mapped(e) = None
             /\ ~(From(e) \in cycle /\ Into(e) \in cycle) =>
                   Mapped(e) \in Edges /\ BecomesEdge(e, Mapped(e), cycle, new)
  <2>1. Number(e) \in Int /\ From(e) \in Int /\ Into(e) \in Int /\ e \in Edges
    BY DEF FiniteGraph, Edges, Number, From, Into
  <2>2. CASE From(e) \in cycle /\ Into(e) \in cycle
    BY <2>2 DEF MappedEdge
  <2>3. CASE From(e) \in cycle /\ Into(e) \notin cycle
    <3>1. Mapped(e) = <<Number(e), new, Into(e)>>
      BY <2>3 DEF MappedEdge
    <3> HIDE DEF Mapped
    <3> QED
      BY <2>1, <2>3, <3>1 DEF BecomesEdge, Goes, Number, From, Into, Edges
  <2>4. CASE From(e) \notin cycle /\ Into(e) \in cycle
    <3>1. Mapped(e) = <<Number(e), From(e), new>>
      BY <2>4 DEF MappedEdge
    <3> HIDE DEF Mapped
    <3> QED
      BY <2>1, <2>4, <3>1 DEF BecomesEdge, Goes, Number, From, Into, Edges
  <2>5. CASE From(e) \notin cycle /\ Into(e) \notin cycle
    <3>1. Mapped(e) = e
      BY <2>5 DEF MappedEdge
    <3> HIDE DEF Mapped
    <3> QED
      BY <2>1, <2>5, <3>1 DEF BecomesEdge, Goes
  <2> QED
    BY <2>2, <2>3, <2>4, <2>5
<1> HIDE DEF Mapped
<1>4. IsFiniteSet(g.e)
  <2> DEFINE T == {Mapped(e) : e \in graph.e}
             f == [e \in graph.e |-> Mapped(e)]
  <2>1. f \in Surjection(graph.e, T)
    BY DEF Surjection
  <2>2. IsFiniteSet(T)
    <3> HIDE DEF T, f
    <3> QED
      BY <2>1, FS_Surjection DEF FiniteGraph
  <2> QED
    BY <1>1, <2>2, FS_Subset
<1>5. \A f \in g.e : \E e \in graph.e : f \in Edges /\ BecomesEdge(e, f, cycle, new)
  BY <1>1, <1>3
<1>6. \A e \in graph.e : ~(From(e) \in cycle /\ Into(e) \in cycle) =>
         \E f \in g.e : BecomesEdge(e, f, cycle, new)
  BY <1>1, <1>2, <1>3
<1> QED
  BY <1>1, <1>4, <1>5, <1>6

\* Two vertices of a component are in the same sets that no edge enters.
LEMMA TogetherInClosed ==
    ASSUME NEW g, NEW C \in Components(g), NEW x \in C, NEW y \in C,
           NEW S \in SUBSET g.v, ClosedBackwards(g, S), x \in S
    PROVE  y \in S
<1>1. y \in Ancestors(g, x)
  BY ComponentOf
<1> QED
  BY <1>1 DEF Ancestors

\* Paths lead where they led, to and from the new vertex instead of the cycle.
LEMMA ReplacedPaths ==
    ASSUME FiniteGraph(graph), NEW cycle \in Components(graph),
           NEW new \in Int, new \notin graph.v,
           NEW g, g = Replaced(cycle, new),
           NEW u \in graph.v, NEW w \in graph.v
    PROVE  Goes(u, cycle, new) \in Ancestors(g, Goes(w, cycle, new)) <=> u \in Ancestors(graph, w)
<1> DEFINE to(x) == Goes(x, cycle, new)
<1>1. /\ g.v = (graph.v \ cycle) \cup {new}
      /\ \A e \in graph.e : ~(From(e) \in cycle /\ Into(e) \in cycle) =>
            \E f \in g.e : From(f) = to(From(e)) /\ Into(f) = to(Into(e))
      /\ \A f \in g.e : \E e \in graph.e : From(f) = to(From(e)) /\ Into(f) = to(Into(e))
  BY ReplacedEdges DEF BecomesEdge
<1>2. /\ \A x \in graph.v : to(x) \in g.v
      /\ \A x, y \in graph.v : to(x) = to(y) => x = y \/ (x \in cycle /\ y \in cycle)
      /\ \A x, y \in cycle : to(x) = to(y)
  BY <1>1 DEF Goes
<1>3. \A e \in graph.e : From(e) \in graph.v /\ Into(e) \in graph.v
  BY DEF FiniteGraph, WellFormed
<1> HIDE DEF to
<1>4. ASSUME u \in Ancestors(graph, w) PROVE to(u) \in Ancestors(g, to(w))
  <2> SUFFICES ASSUME NEW S \in SUBSET g.v, to(w) \in S, ClosedBackwards(g, S)
               PROVE  to(u) \in S
    BY <1>2 DEF Ancestors
  <2> DEFINE Q == {x \in graph.v : to(x) \in S}
  <2>1. ASSUME NEW e \in graph.e, Into(e) \in Q PROVE From(e) \in Q
    <3>1. CASE From(e) \in cycle /\ Into(e) \in cycle
      BY <1>2, <1>3, <2>1, <3>1
    <3>2. CASE ~(From(e) \in cycle /\ Into(e) \in cycle)
      <4>1. PICK f \in g.e : From(f) = to(From(e)) /\ Into(f) = to(Into(e))
        BY <1>1, <3>2
      <4>2. From(f) \in S
        BY <2>1, <4>1 DEF ClosedBackwards
      <4> QED
        BY <1>3, <4>1, <4>2
    <3> QED
      BY <3>1, <3>2
  <2>2. ClosedBackwards(graph, Q) /\ w \in Q /\ Q \in SUBSET graph.v
    BY <2>1 DEF ClosedBackwards
  <2>3. u \in Q
    <3> HIDE DEF Q
    <3> QED
      BY <1>4, <2>2 DEF Ancestors
  <2> QED
    BY <2>3
<1>5. ASSUME to(u) \in Ancestors(g, to(w)) PROVE u \in Ancestors(graph, w)
  <2> SUFFICES ASSUME NEW S \in SUBSET graph.v, w \in S, ClosedBackwards(graph, S)
               PROVE  u \in S
    BY DEF Ancestors
  <2> DEFINE Q == {to(x) : x \in S}
  <2>0. ASSUME NEW x \in graph.v, to(x) \in Q PROVE x \in S
    <3>1. PICK y \in S : to(x) = to(y)
      BY <2>0
    <3>2. CASE x \in cycle /\ y \in cycle
      BY <3>1, <3>2, TogetherInClosed
    <3> QED
      BY <1>2, <3>1, <3>2
  <2>1. ASSUME NEW f \in g.e, Into(f) \in Q PROVE From(f) \in Q
    <3>1. PICK e \in graph.e : From(f) = to(From(e)) /\ Into(f) = to(Into(e))
      BY <1>1
    <3>2. Into(e) \in S
      BY <1>3, <2>0, <2>1, <3>1
    <3>3. From(e) \in S
      BY <3>2 DEF ClosedBackwards
    <3> QED
      BY <3>1, <3>3
  <2>2. ClosedBackwards(g, Q) /\ to(w) \in Q /\ Q \in SUBSET g.v
    BY <1>2, <2>1 DEF ClosedBackwards
  <2>3. to(u) \in Q
    <3> HIDE DEF Q
    <3> QED
      BY <1>5, <2>2 DEF Ancestors
  <2> QED
    BY <2>0, <2>3
<1> QED
  BY <1>4, <1>5 DEF to

\* Cleaning drops the loops, and of the edges between two vertices one stays.
LEMMA CleanEdges ==
    ASSUME NEW g, FiniteGraph(g), NEW c, c = CleanGraph(g)
    PROVE  /\ c.v = g.v /\ c.e \subseteq g.e
           /\ \A e \in c.e : From(e) # Into(e)
           /\ \A e \in g.e : From(e) # Into(e) =>
                 \E f \in c.e : From(f) = From(e) /\ Into(f) = Into(e)
<1> DEFINE noLoops == {e \in g.e : From(e) # Into(e)}
<1>1. c.v = g.v /\ c.e = {e \in noLoops : IsKept(e, noLoops)}
  BY DEF CleanGraph
<1>2. IsFiniteSet(noLoops) /\ noLoops \subseteq Edges
  BY FS_Subset DEF FiniteGraph
<1>3. ASSUME NEW e \in noLoops PROVE \E f \in c.e : From(f) = From(e) /\ Into(f) = Into(e)
  <2> HIDE DEF noLoops
  <2> QED
    BY <1>1, <1>2, FirstEdge
<1> QED
  BY <1>1, <1>3

\* So it leaves the paths alone.
LEMMA CleanPaths ==
    ASSUME NEW g, FiniteGraph(g), NEW c, c = CleanGraph(g), NEW w
    PROVE  Ancestors(c, w) = Ancestors(g, w)
<1>1. c.v = g.v /\ \A S \in SUBSET g.v : ClosedBackwards(c, S) <=> ClosedBackwards(g, S)
  BY CleanEdges DEF ClosedBackwards
<1> QED
  BY <1>1 DEF Ancestors

-----------------------------------------------------------------------------
(* Collapsing, cycle after cycle.                                          *)

\* The vertices of the graph stand for those of the input, and each vertex of
\* the input is stood for by one.  A new vertex has a higher number than the
\* vertices of its cycle, so it is none of the input.
Standing ==
    /\ DOMAIN cycle_of \subseteq graph.v
    /\ graph.v \ DOMAIN cycle_of \subseteq input.v
    /\ \A c \in DOMAIN cycle_of : c \notin input.v /\ cycle_of[c].cycle \in Components(input)
    /\ \A x \in input.v : \E v \in graph.v : x \in Members(v) /\ x <= v
    /\ \A v, w \in graph.v : \A x \in input.v : x \in Members(v) /\ x \in Members(w) => v = w

\* Paths lead where they led in the input.
SamePaths ==
    \A v, w \in graph.v : \A x \in Members(v), y \in Members(w) :
        v \in Ancestors(graph, w) <=> x \in Ancestors(input, y)

\* f is the edge e of the input.
StandsFor(f, e) ==
    /\ Number(f) = Number(e)
    /\ From(e) \in Members(From(f)) /\ Into(e) \in Members(Into(f))

\* e is in the sub-graph of c.
SwallowedBy(c, e) ==
    /\ {From(e), Into(e)} \subseteq Members(c)
    /\ e \in cycle_of[c].sub_graph.e

Accounted ==
    \A e \in input.e :
        \/ \E f \in graph.e : StandsFor(f, e)
        \/ \E c \in DOMAIN cycle_of : SwallowedBy(c, e)

CollapsingInv ==
    /\ FiniteGraph(input) /\ FiniteGraph(graph)
    /\ Standing /\ SamePaths

LEMMA MembersOf ==
    ASSUME CollapsingInv, NEW v \in graph.v
    PROVE  /\ Members(v) \subseteq input.v /\ Members(v) # {}
           /\ v \in DOMAIN cycle_of => Members(v) \in Components(input)
           /\ v \notin DOMAIN cycle_of => Members(v) = {v}
<1>1. CASE v \in DOMAIN cycle_of
  BY <1>1, ComponentOf DEF CollapsingInv, Standing, Members
<1>2. CASE v \notin DOMAIN cycle_of
  BY <1>2 DEF CollapsingInv, Standing, Members
<1> QED
  BY <1>1, <1>2

\* A new vertex is never in a cycle, so a cycle is one of the input.
LEMMA CycleOfInput ==
    ASSUME CollapsingInv, NEW C \in Components(graph), NEW a \in C, NEW b \in C, a # b
    PROVE  C \cap DOMAIN cycle_of = {} /\ C \in Components(input)
<1>1. C \subseteq graph.v
  BY ComponentOf
<1>2. C \cap DOMAIN cycle_of = {}
  <2> SUFFICES ASSUME NEW v \in C, v \in DOMAIN cycle_of PROVE FALSE
    OBVIOUS
  <2>1. PICK w \in C : w # v
    OBVIOUS
  <2>2. v \in graph.v /\ w \in graph.v
    BY <1>1
  <2>3. v \in Ancestors(graph, w) /\ w \in Ancestors(graph, v)
    BY ComponentOf
  <2>4. PICK x \in Members(v), y \in Members(w) : x \in input.v /\ y \in input.v
    BY <2>2, MembersOf
  <2>5. x \in Ancestors(input, y) /\ y \in Ancestors(input, x)
    BY <2>2, <2>3 DEF CollapsingInv, SamePaths
  <2>6. y \in Members(v)
    BY <2>2, <2>4, <2>5, MembersOf, ComponentOf
  <2> QED
    BY <2>1, <2>2, <2>4, <2>6 DEF CollapsingInv, Standing
<1>3. \A v \in C : Members(v) = {v} /\ v \in input.v
  BY <1>1, <1>2, MembersOf
<1>4. C = {u \in input.v : u \in Ancestors(input, a) /\ a \in Ancestors(input, u)}
  <2>1. ASSUME NEW u \in C PROVE u \in Ancestors(input, a) /\ a \in Ancestors(input, u)
    <3>1. u \in Ancestors(graph, a) /\ a \in Ancestors(graph, u)
      BY ComponentOf
    <3> QED
      BY <1>1, <1>3, <3>1 DEF CollapsingInv, SamePaths
  <2>2. ASSUME NEW u \in input.v, u \in Ancestors(input, a), a \in Ancestors(input, u)
        PROVE  u \in C
    <3>1. PICK w \in graph.v : u \in Members(w)
      BY DEF CollapsingInv, Standing
    <3>2. w \in Ancestors(graph, a) /\ a \in Ancestors(graph, w)
      BY <1>1, <1>3, <2>2, <3>1 DEF CollapsingInv, SamePaths
    <3>3. w \in C
      BY <3>2, ComponentOf
    <3> QED
      BY <1>3, <3>1, <3>3
  <2> QED
    BY <1>3, <2>1, <2>2
<1> QED
  BY <1>2, <1>3, <1>4 DEF Components

\* A cycle is collapsed.
LEMMA CollapsingStep ==
    ASSUME CollapsingInv, Accounted,
           NEW C \in Components(graph), NEW a \in C, NEW b \in C, a # b,
           NEW new, new = NextVertexId(graph),
           graph' = Replaced(C, new), input' = input,
           NEW record, record.cycle = C, record.sub_graph = SubGraph(C),
           cycle_of' = With(cycle_of, new, record)
    PROVE  CollapsingInv' /\ Accounted'
<1> USE DEF CollapsingInv
<1>1. C \subseteq graph.v /\ C # {} /\ graph.v # {}
  BY ComponentOf
<1>2. new \in Int /\ \A w \in graph.v : w < new
  BY <1>1, NextVertexIsNew DEF FiniteGraph
<1>3. new \notin graph.v /\ new \notin DOMAIN cycle_of
  BY <1>2 DEF FiniteGraph, Standing
<1>4. new \notin input.v
  <2> SUFFICES ASSUME new \in input.v PROVE FALSE
    OBVIOUS
  <2>1. PICK v \in graph.v : new <= v
    BY DEF Standing
  <2> QED
    BY <1>2, <2>1 DEF FiniteGraph
<1>5. C \cap DOMAIN cycle_of = {} /\ C \in Components(input)
  BY CycleOfInput
<1>6. /\ graph'.v = (graph.v \ C) \cup {new}
      /\ IsFiniteSet(graph'.e) /\ graph'.e \subseteq Edges
      /\ \A e \in graph.e : ~(From(e) \in C /\ Into(e) \in C) =>
            \E f \in graph'.e : BecomesEdge(e, f, C, new)
  BY <1>2, ReplacedEdges
<1>7. FiniteGraph(graph)'
  <2>1. IsFiniteSet(graph'.v)
    <3>1. IsFiniteSet(graph.v \ C)
      <4>1. graph.v \ C \in SUBSET graph.v /\ IsFiniteSet(graph.v)
        BY DEF FiniteGraph
      <4> QED
        BY <4>1, FS_Subset
    <3> QED
      BY <1>6, <3>1, FS_AddElement
  <2>2. graph'.v \subseteq Int
    BY <1>2, <1>6 DEF FiniteGraph
  <2>3. WellFormed(graph)'
    BY CollapseWellFormed DEF FiniteGraph, WellFormed
  <2> QED
    BY <1>6, <2>1, <2>2, <2>3 DEF FiniteGraph
<1>8. /\ DOMAIN cycle_of' = DOMAIN cycle_of \cup {new}
      /\ cycle_of'[new] = record
      /\ \A c \in DOMAIN cycle_of : cycle_of'[c] = cycle_of[c]
  BY <1>3 DEF With
<1>9. /\ Members(new)' = C
      /\ \A v \in graph.v : Members(v)' = Members(v)
      /\ \A v \in C : Members(v) = {v} /\ v \in input.v
  <2>1. Members(new)' = C
    BY <1>8 DEF Members
  <2>2. ASSUME NEW v \in graph.v PROVE Members(v)' = Members(v)
    BY <1>3, <1>8 DEF Members
  <2>3. \A v \in C : Members(v) = {v} /\ v \in input.v
    BY <1>1, <1>5, MembersOf
  <2> QED
    BY <2>1, <2>2, <2>3
\* A vertex of the input is among those of v from now on just if it was among
\* those of a vertex that goes to v.
<1>10. /\ \A v \in graph.v : Goes(v, C, new) \in graph'.v
       /\ \A v \in graph.v : \A x \in Members(v) : x \in Members(Goes(v, C, new))'
  BY <1>6, <1>9 DEF Goes
<1>11. ASSUME NEW v \in graph'.v, NEW x \in Members(v)'
       PROVE  \E u \in graph.v : x \in Members(u) /\ Goes(u, C, new) = v
  <2>1. CASE v = new
    <3>1. x \in C /\ x \in Members(x) /\ x \in graph.v
      BY <1>1, <1>9, <2>1
    <3> QED
      BY <2>1, <3>1 DEF Goes
  <2>2. CASE v # new
    <3>1. v \in graph.v /\ v \notin C /\ x \in Members(v)
      BY <1>6, <1>9, <2>2
    <3> QED
      BY <3>1 DEF Goes
  <2> QED
    BY <2>1, <2>2
<1>12. Standing'
  <2>1. DOMAIN cycle_of' \subseteq graph'.v
    BY <1>5, <1>6, <1>8 DEF Standing
  <2>2. graph'.v \ DOMAIN cycle_of' \subseteq input.v
    BY <1>6, <1>8 DEF Standing
  <2>3. ASSUME NEW c \in DOMAIN cycle_of'
        PROVE  c \notin input.v /\ cycle_of'[c].cycle \in Components(input)
    BY <1>4, <1>5, <1>8 DEF Standing
  <2>4. ASSUME NEW x \in input.v PROVE \E v \in graph'.v : x \in Members(v)' /\ x <= v
    <3>1. PICK v \in graph.v : x \in Members(v) /\ x <= v
      BY DEF Standing
    <3>2. x <= Goes(v, C, new)
      BY <1>2, <3>1 DEF Goes, FiniteGraph
    <3> QED
      BY <1>10, <3>1, <3>2
  <2>5. ASSUME NEW v \in graph'.v, NEW w \in graph'.v, NEW x \in input.v,
               x \in Members(v)', x \in Members(w)'
        PROVE  v = w
    <3>1. PICK u \in graph.v : x \in Members(u) /\ Goes(u, C, new) = v
      BY <1>11, <2>5
    <3>2. PICK t \in graph.v : x \in Members(t) /\ Goes(t, C, new) = w
      BY <1>11, <2>5
    <3> QED
      BY <3>1, <3>2 DEF Standing
  <2> QED
    BY <2>1, <2>2, <2>3, <2>4, <2>5 DEF Standing
<1>13. SamePaths'
  <2> SUFFICES ASSUME NEW v \in graph'.v, NEW w \in graph'.v,
                      NEW x \in Members(v)', NEW y \in Members(w)'
               PROVE  v \in Ancestors(graph', w) <=> x \in Ancestors(input, y)
    BY DEF SamePaths
  <2>1. PICK u \in graph.v : x \in Members(u) /\ Goes(u, C, new) = v
    BY <1>11
  <2>2. PICK t \in graph.v : y \in Members(t) /\ Goes(t, C, new) = w
    BY <1>11
  <2>3. v \in Ancestors(graph', w) <=> u \in Ancestors(graph, t)
    BY <1>2, <1>3, <2>1, <2>2, ReplacedPaths
  <2> QED
    BY <2>1, <2>2, <2>3 DEF SamePaths
<1>14. Accounted'
  <2> SUFFICES ASSUME NEW e \in input.e
               PROVE  \/ \E f \in graph'.e : StandsFor(f, e)'
                      \/ \E c \in DOMAIN cycle_of' : SwallowedBy(c, e)'
    BY DEF Accounted, StandsFor, SwallowedBy
  <2>1. CASE \E c \in DOMAIN cycle_of : SwallowedBy(c, e)
    <3>1. PICK c \in DOMAIN cycle_of : SwallowedBy(c, e)
      BY <2>1
    <3>2. c \in DOMAIN cycle_of' /\ SwallowedBy(c, e)'
      BY <1>8, <1>9, <3>1 DEF SwallowedBy, Standing
    <3> QED
      BY <3>2
  <2>2. CASE \E f \in graph.e : StandsFor(f, e)
    <3>1. PICK f \in graph.e : StandsFor(f, e)
      BY <2>2
    <3>2. From(f) \in graph.v /\ Into(f) \in graph.v
      BY DEF FiniteGraph, WellFormed
    <3>3. CASE From(f) \in C /\ Into(f) \in C
      <4>1. From(e) = From(f) /\ Into(e) = Into(f) /\ Number(e) = Number(f)
        BY <1>9, <3>1, <3>3 DEF StandsFor
      <4>2. e = f
        BY <4>1 DEF FiniteGraph, Edges, Number, From, Into
      <4>3. e \in SubGraph(C).e
        BY <3>3, <4>2 DEF SubGraph
      <4>4. SwallowedBy(new, e)'
        BY <1>8, <1>9, <3>3, <4>2, <4>3 DEF SwallowedBy
      <4> QED
        BY <1>8, <4>4
    <3>4. CASE ~(From(f) \in C /\ Into(f) \in C)
      <4>1. PICK g \in graph'.e : BecomesEdge(f, g, C, new)
        BY <1>6, <3>4
      <4>2. StandsFor(g, e)'
        BY <1>10, <3>1, <3>2, <4>1 DEF StandsFor, BecomesEdge
      <4> QED
        BY <4>2
    <3> QED
      BY <3>3, <3>4
  <2> QED
    BY <2>1, <2>2 DEF Accounted
<1>15. FiniteGraph(input)'
  BY DEF FiniteGraph
<1> QED
  BY <1>7, <1>12, <1>13, <1>14, <1>15

-----------------------------------------------------------------------------
(* What is left in the end.                                                *)

\* There is a vertex for each component of the input, and for nothing else.
ComponentsStand == {Members(v) : v \in graph.v} = Components(input)

\* When no cycle is left, every vertex stands for a component.
LEMMA NoCycleLeft ==
    ASSUME CollapsingInv, \A C \in Components(graph) : \A a, b \in C : a = b
    PROVE  ComponentsStand
<1>1. ASSUME NEW v \in graph.v PROVE Members(v) \in Components(input)
  <2>1. CASE v \in DOMAIN cycle_of
    BY <2>1, MembersOf
  <2>2. CASE v \notin DOMAIN cycle_of
    <3>1. Members(v) = {v} /\ v \in input.v
      BY <2>2, MembersOf
    <3>2. ASSUME NEW u \in input.v, u \in Ancestors(input, v), v \in Ancestors(input, u)
          PROVE  u = v
      <4>1. PICK w \in graph.v : u \in Members(w)
        BY DEF CollapsingInv, Standing
      <4>2. w \in Ancestors(graph, v) /\ v \in Ancestors(graph, w)
        BY <3>1, <3>2, <4>1 DEF CollapsingInv, SamePaths
      <4>3. w = v
        <5> DEFINE C == {x \in graph.v : x \in Ancestors(graph, v) /\ v \in Ancestors(graph, x)}
        <5>1. C \in Components(graph) /\ w \in C /\ v \in C
          BY <4>2, ReachSelf DEF Components
        <5> QED
          BY <5>1
      <4> QED
        BY <3>1, <4>1, <4>3
    <3>3. {v} = {u \in input.v : u \in Ancestors(input, v) /\ v \in Ancestors(input, u)}
      BY <3>1, <3>2, ReachSelf
    <3> QED
      BY <3>1, <3>3 DEF Components
  <2> QED
    BY <2>1, <2>2
<1>2. ASSUME NEW D \in Components(input) PROVE \E v \in graph.v : D = Members(v)
  <2>1. PICK x \in D : x \in input.v
    BY ComponentOf
  <2>2. PICK v \in graph.v : x \in Members(v)
    BY <2>1 DEF CollapsingInv, Standing
  <2>3. Members(v) \in Components(input)
    BY <1>1
  <2>4. D = {u \in input.v : u \in Ancestors(input, x) /\ x \in Ancestors(input, u)}
    BY <2>1, ComponentOf
  <2>5. Members(v) = {u \in input.v : u \in Ancestors(input, x) /\ x \in Ancestors(input, u)}
    BY <2>2, <2>3, ComponentOf
  <2> QED
    BY <2>4, <2>5
<1> QED
  BY <1>1, <1>2 DEF ComponentsStand

\* The edges out of a vertex leave it just if edges of the input leave what it
\* stands for.
LEMMA LeftByEdges ==
    ASSUME CollapsingInv, Accounted, NEW v \in graph.v
    PROVE  (\A f \in graph.e : From(f) = v => Into(f) = v)
              <=> (\A e \in input.e : From(e) \in Members(v) => Into(e) \in Members(v))
<1>1. \A f \in graph.e : From(f) \in graph.v /\ Into(f) \in graph.v
  BY DEF CollapsingInv, FiniteGraph, WellFormed
<1>2. \A e \in input.e : From(e) \in input.v /\ Into(e) \in input.v
  BY DEF CollapsingInv, FiniteGraph, WellFormed
<1>3. \A u, w \in graph.v : \A x \in input.v : x \in Members(u) /\ x \in Members(w) => u = w
  BY DEF CollapsingInv, Standing
<1>4. ASSUME \A f \in graph.e : From(f) = v => Into(f) = v,
             NEW e \in input.e, From(e) \in Members(v)
      PROVE  Into(e) \in Members(v)
  <2>1. CASE \E f \in graph.e : StandsFor(f, e)
    BY <1>1, <1>2, <1>3, <1>4, <2>1 DEF StandsFor
  <2>2. CASE \E c \in DOMAIN cycle_of : SwallowedBy(c, e)
    <3>1. PICK c \in DOMAIN cycle_of : SwallowedBy(c, e)
      BY <2>2
    <3>2. c \in graph.v /\ From(e) \in Members(c) /\ Into(e) \in Members(c)
      BY <3>1 DEF SwallowedBy, CollapsingInv, Standing
    <3> QED
      BY <1>2, <1>3, <1>4, <3>2
  <2> QED
    BY <2>1, <2>2 DEF Accounted
<1>5. ASSUME \A e \in input.e : From(e) \in Members(v) => Into(e) \in Members(v),
             NEW f \in graph.e, From(f) = v
      PROVE  Into(f) = v
  <2> DEFINE w == Into(f)
  <2>1. v \in Ancestors(graph, w)
    BY <1>5, ReachByEdge DEF CollapsingInv, FiniteGraph
  <2>2. PICK x \in Members(v), y \in Members(w) : x \in input.v /\ y \in input.v
    BY <1>1, MembersOf
  <2>3. x \in Ancestors(input, y)
    BY <1>1, <2>1, <2>2 DEF CollapsingInv, SamePaths
  <2>4. y \in Members(v)
    BY <1>5, <2>2, <2>3, ReachWithin DEF CollapsingInv, FiniteGraph
  <2> QED
    BY <1>1, <1>3, <2>2, <2>4
<1> QED
  BY <1>4, <1>5

\* What has no edge out of it once the loops are gone.
LEMMA LeavesLeft ==
    ASSUME CollapsingInv, Accounted, ComponentsStand
    PROVE  {Members(v) : v \in Leaves(CleanGraph(graph))} = Bottoms(input)
<1> DEFINE c == CleanGraph(graph)
<1>1. ASSUME NEW v \in graph.v
      PROVE  v \in Leaves(c) <=> \A f \in graph.e : From(f) = v => Into(f) = v
  BY CleanEdges DEF Leaves, Out, CollapsingInv
<1>2. Leaves(c) \subseteq graph.v
  BY CleanEdges DEF Leaves, CollapsingInv
<1> HIDE DEF c
<1>3. ASSUME NEW v \in Leaves(c) PROVE Members(v) \in Bottoms(input)
  BY <1>1, <1>2, LeftByEdges DEF Bottoms, ComponentsStand
<1>4. ASSUME NEW B \in Bottoms(input) PROVE \E v \in Leaves(c) : B = Members(v)
  <2>1. PICK v \in graph.v : B = Members(v)
    BY DEF Bottoms, ComponentsStand
  <2>2. v \in Leaves(c)
    BY <1>1, <2>1, LeftByEdges DEF Bottoms
  <2> QED
    BY <2>1, <2>2
<1> QED
  BY <1>3, <1>4 DEF c

-----------------------------------------------------------------------------
(* The whole of the analysis.                                              *)

SubGraphsWellFormed == \A c \in DOMAIN cycle_of : WellFormed(cycle_of[c].sub_graph)

CollapseInv ==
    /\ CollapsingInv
    /\ ~cleaned => Accounted
    /\ collapsed => ComponentsStand
    /\ SubGraphsWellFormed
    /\ LeavesAreEnds

\* The cycle that is collapsed is a component of more than one vertex ...
LEMMA FirstCycleIsComponent ==
    ASSUME sccs \in Seq(SUBSET graph.v), IsFiniteSet(graph.v), Collected # {}
    PROVE  FirstCycle \in ToSet(sccs) /\ \E a, b \in FirstCycle : a # b
<1>1. DOMAIN sccs \subseteq Nat
  OBVIOUS
<1>2. Collected \in SUBSET Nat
  BY <1>1 DEF Collected
<1>3. \E m \in Collected : \A k \in Collected : m <= k
  BY <1>2, LeastNumber
<1> DEFINE i == CHOOSE m \in Collected : \A k \in Collected : m <= k
<1>4. i \in Collected
  BY <1>3, Zenon
<1>5. FirstCycle = sccs[i]
  BY DEF FirstCycle
<1> HIDE DEF i
<1>6. i \in DOMAIN sccs /\ Cardinality(FirstCycle) > 1
  BY <1>4, <1>5 DEF Collected
<1>7. FirstCycle \in ToSet(sccs)
  BY <1>5, <1>6 DEF ToSet
<1>8. FirstCycle \in SUBSET graph.v
  BY <1>5, <1>6
<1>9. ASSUME \A a, b \in FirstCycle : a = b PROVE FALSE
  <2>1. CASE FirstCycle = {}
    BY <1>6, <2>1, FS_EmptySet
  <2>2. CASE FirstCycle # {}
    <3>1. PICK a \in FirstCycle : TRUE
      BY <2>2
    <3>2. FirstCycle = {a}
      BY <1>9, <3>1
    <3>3. Cardinality({a}) = 1
      BY FS_Singleton
    <3> QED
      BY <1>6, <3>2, <3>3
  <2> QED
    BY <2>1, <2>2
<1> QED
  BY <1>7, <1>9

\* ... and when there is none, every component is a vertex.
LEMMA NoneCollected ==
    ASSUME IsFiniteSet(graph.v), Collected = {},
           NEW C \in ToSet(sccs), C \subseteq graph.v, NEW a \in C, NEW b \in C
    PROVE  a = b
<1> SUFFICES ASSUME a # b PROVE FALSE
  OBVIOUS
<1>1. PICK i \in DOMAIN sccs : C = sccs[i]
  BY DEF ToSet
<1>2. ~(Cardinality(C) > 1)
  BY <1>1 DEF Collected
<1>3. IsFiniteSet(C)
  BY FS_Subset
<1>4. IsFiniteSet({a}) /\ Cardinality({a}) = 1
  BY FS_Singleton
<1>5. Cardinality({a} \cup {b}) = 2
  <2>1. b \notin {a}
    OBVIOUS
  <2>2. Cardinality({a} \cup {b}) = Cardinality({a}) + 1
    BY <1>4, <2>1, FS_AddElement
  <2> QED
    BY <1>4, <2>2
<1>6. Cardinality({a} \cup {b}) <= Cardinality(C) /\ Cardinality(C) \in Nat
  BY <1>3, FS_Subset, FS_CardinalityType
<1> QED
  BY <1>2, <1>5, <1>6

\* Who changes neither graph nor cycles does not disturb them.
LEMMA CollapseUnchanged ==
    ASSUME CollapseInv, UNCHANGED <<input, graph, cycle_of, collapsed, cleaned>>
    PROVE  CollapseInv'
<1>1. \A v : Members(v)' = Members(v)
  BY DEF Members
<1>2. CollapsingInv'
  <2>1. Standing'
    BY <1>1 DEF CollapseInv, CollapsingInv, Standing
  <2>2. SamePaths'
    BY <1>1 DEF CollapseInv, CollapsingInv, SamePaths
  <2> QED
    BY <2>1, <2>2 DEF CollapseInv, CollapsingInv, FiniteGraph
<1>3. Accounted <=> Accounted'
  BY <1>1 DEF Accounted, StandsFor, SwallowedBy
<1>4. /\ collapsed => ComponentsStand'
      /\ SubGraphsWellFormed'
  BY <1>1 DEF CollapseInv, ComponentsStand, SubGraphsWellFormed
<1>5. LeavesAreEnds'
  BY <1>1 DEF CollapseInv, LeavesAreEnds
<1> QED
  BY <1>2, <1>3, <1>4, <1>5 DEF CollapseInv

LEMMA CollapseKeeps ==
    ASSUME CollapseInv, AnalysisInv, TarjanInv, TarjanFindsComponents, Collapse,
           UNCHANGED <<paintVars, cleaned>>
    PROVE  CollapseInv'
<1> DEFINE C == FirstCycle
           new == NextVertexId(graph)
           record == [cycle |-> C, sub_graph |-> SubGraph(C)]
<1>1. /\ Connected /\ Collected # {}
      /\ ~collapsed /\ ~collapsed' /\ ~cleaned /\ ~cleaned'
      /\ input' = input
      /\ cycle_of' = With(cycle_of, new, record)
      /\ graph' = Replaced(C, new)
  BY DEF Collapse, AnalysisInv
<1>2. record.cycle = C /\ record.sub_graph = SubGraph(C)
  OBVIOUS
<1>3. WellFormed(SubGraph(C))
  BY DEF SubGraph, WellFormed
<1> HIDE DEF new, record
<1>4. C \in ToSet(sccs) /\ \E a, b \in C : a # b
  <2>1. sccs \in Seq(SUBSET graph.v)
    BY DEF TarjanInv, Ordered, TarjanTypeOK
  <2>2. IsFiniteSet(graph.v)
    BY DEF CollapseInv, CollapsingInv, FiniteGraph
  <2> QED
    BY <1>1, <2>1, <2>2, FirstCycleIsComponent
<1>5. C \in Components(graph)
  BY <1>1, <1>4 DEF TarjanFindsComponents
<1> HIDE DEF C
<1>6. PICK a \in C, b \in C : a # b
  BY <1>4
<1>7. CollapsingInv' /\ Accounted'
  BY <1>1, <1>2, <1>5, <1>6, CollapsingStep DEF CollapseInv, new, C
<1>8. SubGraphsWellFormed'
  BY <1>1, <1>2, <1>3 DEF SubGraphsWellFormed, CollapseInv, With
<1> QED
  BY <1>1, <1>7, <1>8 DEF CollapseInv, LeavesAreEnds

LEMMA CollapsedKeeps ==
    ASSUME CollapseInv, AnalysisInv, TarjanFindsComponents, Collapsed,
           UNCHANGED <<paintVars, cleaned>>
    PROVE  CollapseInv'
<1>1. /\ Connected /\ Collected = {} /\ ~collapsed /\ ~cleaned /\ ~cleaned'
      /\ UNCHANGED <<input, graph, cycle_of>>
  BY DEF Collapsed, AnalysisInv
<1>2. ComponentsStand
  <2>1. ASSUME NEW K \in Components(graph), NEW a \in K, NEW b \in K PROVE a = b
    <3>1. K \in ToSet(sccs) /\ K \subseteq graph.v /\ IsFiniteSet(graph.v)
      BY <1>1, ComponentOf DEF TarjanFindsComponents, CollapseInv, CollapsingInv, FiniteGraph
    <3> QED
      BY <1>1, <3>1, NoneCollected
  <2> QED
    BY <2>1, NoCycleLeft DEF CollapseInv
<1>3. \A v : Members(v)' = Members(v)
  BY <1>1 DEF Members
<1>4. CollapsingInv'
  <2>1. Standing'
    BY <1>1, <1>3 DEF CollapseInv, CollapsingInv, Standing
  <2>2. SamePaths'
    BY <1>1, <1>3 DEF CollapseInv, CollapsingInv, SamePaths
  <2> QED
    BY <1>1, <2>1, <2>2 DEF CollapseInv, CollapsingInv, FiniteGraph
<1>5. Accounted'
  BY <1>1, <1>3 DEF CollapseInv, Accounted, StandsFor, SwallowedBy
<1>6. ComponentsStand' /\ SubGraphsWellFormed'
  BY <1>1, <1>2, <1>3 DEF CollapseInv, ComponentsStand, SubGraphsWellFormed
<1> QED
  BY <1>1, <1>4, <1>5, <1>6 DEF CollapseInv, LeavesAreEnds

LEMMA CleanKeeps ==
    ASSUME CollapseInv, Clean
    PROVE  CollapseInv'
<1>1. /\ collapsed /\ collapsed' /\ ~cleaned /\ cleaned' /\ graph' = CleanGraph(graph)
      /\ UNCHANGED <<input, cycle_of>>
  BY DEF Clean
<1>2. /\ FiniteGraph(input) /\ FiniteGraph(graph)
      /\ Standing /\ SamePaths /\ ComponentsStand /\ Accounted
  BY <1>1 DEF CollapseInv, CollapsingInv
<1>3. graph'.v = graph.v /\ graph'.e \subseteq graph.e
  BY <1>1, <1>2, CleanEdges
<1>4. \A w : Ancestors(graph', w) = Ancestors(graph, w)
  BY <1>1, <1>2, CleanPaths
<1>5. \A v : Members(v)' = Members(v)
  BY <1>1 DEF Members
<1>6. CollapsingInv'
  <2>1. FiniteGraph(graph)'
    <3>1. IsFiniteSet(graph'.e)
      BY <1>2, <1>3, FS_Subset DEF FiniteGraph
    <3> QED
      BY <1>2, <1>3, <3>1 DEF FiniteGraph, WellFormed
  <2>2. Standing'
    BY <1>1, <1>2, <1>3, <1>5 DEF Standing
  <2>3. SamePaths'
    BY <1>1, <1>2, <1>3, <1>4, <1>5 DEF SamePaths
  <2> QED
    BY <1>1, <1>2, <2>1, <2>2, <2>3 DEF CollapsingInv, FiniteGraph
<1>7. ComponentsStand' /\ SubGraphsWellFormed'
  BY <1>1, <1>2, <1>3, <1>5 DEF CollapseInv, ComponentsStand, SubGraphsWellFormed
<1>8. LeavesAreEnds'
  <2>1. {Members(v) : v \in Leaves(CleanGraph(graph))} = Bottoms(input)
    BY <1>2, LeavesLeft DEF CollapseInv
  <2> QED
    BY <1>1, <1>5, <2>1 DEF LeavesAreEnds
<1> QED
  BY <1>1, <1>6, <1>7, <1>8 DEF CollapseInv

LEMMA CollapseNext ==
    ASSUME CollapseInv, AnalysisInv, ComponentsInv, [Next]_vars
    PROVE  CollapseInv'
<1>1. TarjanInv /\ TarjanFindsComponents
  BY TarjanInvSuffices DEF ComponentsInv
<1>2. CASE CyclesNext /\ UNCHANGED <<paintVars, cleaned>>
  <2>1. ASSUME NEW v \in graph.v, StrongConnect(v) PROVE CollapseInv'
    BY <1>2, <2>1, CollapseUnchanged DEF StrongConnect
  <2>2. ASSUME NEW e \in graph.e, Look(e) PROVE CollapseInv'
    BY <1>2, <2>2, CollapseUnchanged DEF Look
  <2>3. CASE Return
    BY <1>2, <2>3, CollapseUnchanged DEF Return
  <2> QED
    BY <1>1, <1>2, <2>1, <2>2, <2>3, CollapseKeeps, CollapsedKeeps DEF CyclesNext
<1>3. CASE Clean
  BY <1>3, CleanKeeps
<1>4. CASE StartPaint
  BY <1>4, CollapseUnchanged DEF StartPaint, Paint!Call
<1>5. CASE /\ start # None /\ Paint!PaintNext
           /\ UNCHANGED <<input, cycle_of, tarjanVars, collapsed, cleaned>>
  BY <1>5, CollapseUnchanged DEF Paint!PaintNext, Paint!Visit, Paint!Follow
<1>6. CASE UNCHANGED vars
  BY <1>6, CollapseUnchanged DEF vars, cycleVars
<1> QED
  BY <1>2, <1>3, <1>4, <1>5, <1>6 DEF Next

\* Before anything is collapsed every vertex stands for itself.
LEMMA CollapseInit == Init => CollapseInv
<1> SUFFICES ASSUME Init PROVE CollapseInv
  OBVIOUS
<1>1. input \in Inputs /\ graph = input /\ cycle_of = <<>> /\ ~collapsed /\ ~cleaned
  BY DEF Init, CyclesInit
<1>2. DOMAIN cycle_of = {}
  BY <1>1
<1>3. \A v : Members(v) = {v}
  BY <1>2 DEF Members
<1>4. FiniteGraph(input)
  BY <1>1, InputsAssumption DEF FiniteGraph, Edges
<1>5. Standing
  BY <1>1, <1>2, <1>3, <1>4 DEF Standing, FiniteGraph
<1>6. SamePaths
  BY <1>1, <1>3 DEF SamePaths
<1>7. Accounted
  BY <1>1, <1>3 DEF Accounted, StandsFor
<1> QED
  BY <1>1, <1>2, <1>4, <1>5, <1>6, <1>7
     DEF CollapseInv, CollapsingInv, SubGraphsWellFormed, LeavesAreEnds

\* What has been shown of every state of the analysis.
LEMMA AnalysisAlways == Spec => [](AnalysisInv /\ ComponentsInv /\ CollapseInv)
<1>1. Init => AnalysisInv
  BY InputsAssumption DEF Init, CyclesInit, AnalysisInv
<1>2. Init => ComponentsInv
  BY FreshInv DEF Init, CyclesInit, ComponentsInv, Fresh
<1>3. AnalysisInv => WellFormed(graph)
  BY DEF AnalysisInv
<1>4. ComponentsInv /\ WellFormed(graph) /\ [Next]_vars => ComponentsInv'
  BY ComponentsStep
<1>5. CollapseInv /\ AnalysisInv /\ ComponentsInv /\ [Next]_vars => CollapseInv'
  BY CollapseNext
<1>6. QED
  BY <1>1, <1>2, <1>3, <1>4, <1>5, CollapseInit, NextInv, PTL DEF Spec

\* Whatever graph collapse_cycles is called with, each call of tarjan finds the
\* strongly connected components of the graph it is called with, each once, and
\* the later ones first.
THEOREM TarjanFindsComponentsAlways == Spec => []TarjanFindsComponents
<1>1. ComponentsInv => TarjanFindsComponents
  BY TarjanInvSuffices DEF ComponentsInv
<1>2. QED
  BY <1>1, AnalysisAlways, PTL

\* What collapse_cycles returns has a vertex for each component of what it was
\* called with, and paths lead between them where they led.
THEOREM CollapseKeepsPathsAlways == Spec => []CollapseKeepsPaths
<1>1. CollapseInv => CollapseKeepsPaths
  BY DEF CollapseInv, CollapsingInv, SamePaths, ComponentsStand, CollapseKeepsPaths
<1>2. QED
  BY <1>1, AnalysisAlways, PTL

\* No edge is lost on the way, and none is built whose end is missing.
THEOREM EdgesAccountedForAlways == Spec => []EdgesAccountedFor
<1>1. CollapseInv => EdgesAccountedFor
  BY DEF CollapseInv, CollapsingInv, FiniteGraph, SubGraphsWellFormed, Accounted, StandsFor,
         SwallowedBy, EdgesAccountedFor
<1>2. QED
  BY <1>1, AnalysisAlways, PTL

\* The leaves of the cleaned graph stand for the components of the input that
\* cannot be left.
THEOREM LeavesAreEndsAlways == Spec => []LeavesAreEnds
<1>1. CollapseInv => LeavesAreEnds
  BY DEF CollapseInv
<1>2. QED
  BY <1>1, AnalysisAlways, PTL
=============================================================================
