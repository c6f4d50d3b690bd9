--------------------------- MODULE MCSpanningTree ---------------------------
(* spanning_tree on the programs of test_cas_spinlock.py.                  *)
EXTENDS MCVisitorTests, SpanningTree

\* The number of paths of the spanning tree that test_cas_spinlock.py asserts:
\* 227 for the spin lock (line 60), 43 for the deadlock (line 155).
TreeCounts ==
    tree = "done" /\ ~truly_spanning =>
        Len(yielded) = (IF prog = Spinlock THEN 227 ELSE 43)
=============================================================================
