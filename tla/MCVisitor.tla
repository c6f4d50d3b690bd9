----------------------------- MODULE MCVisitor -----------------------------
(* Every deterministic program of two processes and three configurations,  *)
(* or of three processes and two configurations, with the configuration    *)
(* itself as its label.                                                    *)
EXTENDS Visitor

MCProc == {1, 2, 3}
MCConf == {1, 2, 3}

Choices(n) == {{}} \cup {{c} : c \in 1 .. n}

Stepping(p, c, n) ==
    {[d \in MCConf |-> [q \in MCProc |->
        IF d <= c /\ q <= p THEN s[d][q] ELSE {}]] :
            s \in [1 .. c -> [1 .. p -> Choices(n)]]}

\* One numbering of the configurations: all are reachable, except that a
\* smaller program leaves the last ones without steps.
MCPrograms ==
    {P \in {[init |-> {1}, step |-> s, view |-> [c \in MCConf |-> c]] :
                s \in Stepping(2, 3, 3) \cup Stepping(3, 2, 2)} :
        /\ \E n \in MCConf : Reachable(P) = 1 .. n
        /\ \A c \in MCConf \ Reachable(P), p \in MCProc : P.step[c][p] = {}}
=============================================================================
