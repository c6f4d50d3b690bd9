--------------------------- MODULE MCVisitorHidden ---------------------------
(* The program of race2_tests/abstract/test_true_cycle.py with two processes: *)
(* the owner of the lock is not part of any label.                            *)
EXTENDS Visitor

MCProc == {0, 1}
Free == 2

Labels == {"Entry", "entry", "post_cancel", "leader_1", "leader_2"}
MCConf == [label : [MCProc -> Labels], lock : MCProc \cup {Free}]
MCState == [MCProc -> Labels]

Move(c, p, label, lock) == {[label |-> [c.label EXCEPT ![p] = label], lock |-> lock]}

Run(c, p) ==
    CASE c.label[p] = "Entry" -> Move(c, p, "entry", c.lock)
      [] c.label[p] = "entry" ->
            Move(c, p, "post_cancel", IF c.lock = 1 - p THEN Free ELSE c.lock)
      [] c.label[p] = "post_cancel" ->
            IF c.lock = Free THEN Move(c, p, "leader_1", p)
            ELSE Move(c, p, "entry", c.lock)
      [] OTHER ->
            IF c.lock = p THEN Move(c, p, "leader_2", p)
            ELSE Move(c, p, "entry", c.lock)

TrueCycle ==
    [init |-> {[label |-> [p \in MCProc |-> "Entry"], lock |-> Free]},
     step |-> [c \in MCConf |-> [p \in MCProc |-> Run(c, p)]],
     view |-> [c \in MCConf |-> c.label]]

MCPrograms == {TrueCycle}

\* Configurations reachable in n steps at most: all 33 of them for n >= 12.
Within[n \in Nat] ==
    IF n = 0 THEN TrueCycle.init
    ELSE Within[n - 1] \cup
         UNION {TrueCycle.step[c][p] : c \in Within[n - 1], p \in MCProc}

TrueEdges ==
    UNION {{<<TrueCycle.view[c], p, TrueCycle.view[d]>> : d \in TrueCycle.step[c][p]} :
                c \in Within[12], p \in MCProc}

\* Once next() returns, the Visitor has executed the program in every possible
\* combination of context switches: README.md lines 29-30.
EveryContextSwitch == Exhausted => RecordedEdges = TrueEdges
==============================================================================
