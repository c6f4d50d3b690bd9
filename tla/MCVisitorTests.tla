--------------------------- MODULE MCVisitorTests ---------------------------
(* The two programs of race2_tests/abstract/test_cas_spinlock.py with two   *)
(* processes, and what its tests expect the Visitor to count.               *)
EXTENDS Visitor, Functions

Digraph == INSTANCE Graph

MCProc == {0, 1}
Free == 2       \* CAS key "1" is absent or None

\* A label is the number last yielded; 0 is not started, 6 is Terminated.
MCConf == [label : [MCProc -> 0 .. 6], lock : MCProc \cup {Free}]
MCState == UNION {[S -> 1 .. 6] : S \in SUBSET MCProc}

\* Processes handed to the constructor have no label before their first step.
View(c) == Restrict(c.label, {p \in MCProc : c.label[p] # 0})

Move(c, p, label, lock) == {[label |-> [c.label EXCEPT ![p] = label], lock |-> lock]}

\* yield 1; while not cas(None, p): yield 2; yield 3 -- then the deadlock
\* program ends and the spin lock goes on:
\* while not cas(p, None): yield 4; yield 5.
Run(c, p, releases) ==
    CASE c.label[p] = 0 -> Move(c, p, 1, c.lock)
      [] c.label[p] \in {1, 2} ->
            IF c.lock = Free THEN Move(c, p, 3, p) ELSE Move(c, p, 2, c.lock)
      [] c.label[p] \in {3, 4} ->
            IF ~releases THEN Move(c, p, 6, c.lock)
            ELSE IF c.lock = p THEN Move(c, p, 5, Free) ELSE Move(c, p, 4, c.lock)
      [] c.label[p] = 5 -> Move(c, p, 6, c.lock)
      [] c.label[p] = 6 -> {}

Test(releases) ==
    [init |-> {[label |-> [p \in MCProc |-> 0], lock |-> Free]},
     step |-> [c \in MCConf |-> [p \in MCProc |-> Run(c, p, releases)]],
     view |-> [c \in MCConf |-> View(c)]]

Deadlock == Test(FALSE)
Spinlock == Test(TRUE)
MCPrograms == {Deadlock, Spinlock}

\* A seed of the user's own: the second process first.
MCSeeds == {<<1, 0>>}

\* graph_from_visitor: the states that edges begin or end in are the vertices,
\* and each post state of an edge gives an edge, numbered by what it records.
GraphFromVisitor ==
    LET edges == {<<<<e[1], e[2], e[3]>>, e[1], e[3]>> : e \in RecordedEdges}
    IN [v |-> UNION {{Digraph!From(e), Digraph!Into(e)} : e \in edges}, e |-> edges]

\* The numbers of edges and of instances that test_cas_spinlock.py asserts for
\* a breadth-first next(): 48 and 12 for the spin lock (lines 58-59), 26 and 7
\* for the deadlock (lines 153-154).  They depend on the order in which next_sub
\* prefers processes and on which paths it collects and drops.  The graph of the
\* spin lock has one leaf (line 86, for three processes), where all have ended.
TestCounts ==
    Exhausted /\ ~is_depth_first /\ calls = 1 =>
        /\ <<Cardinality(DOMAIN visited_edges), instantiation_ctr>> =
            (IF prog = Spinlock THEN <<48, 12>> ELSE <<26, 7>>)
        /\ prog = Spinlock =>
            Digraph!Leaves(GraphFromVisitor) = {[p \in MCProc |-> 6]}
=============================================================================
