------------------------------ MODULE Program ------------------------------
(***************************************************************************)
(* The program under test, as the Visitor sees it.  A user hands the       *)
(* Visitor a factory of Executions; an Execution is a table of generators  *)
(* over some shared data.  Here the whole of it (generators' frames, locks,*)
(* database rows) is a configuration, and letting one process run to its   *)
(* next yield, return or exception is one step.                            *)
(*                                                                         *)
(* The Visitor never sees a configuration: Execution.curr_state gives it   *)
(* the label each process last yielded, the view of the configuration.     *)
(***************************************************************************)
EXTENDS Naturals, FiniteSets

CONSTANTS
    Proc,   \* process identifiers (ProcessID, an int)
    Conf,   \* configurations of the program under test
    State   \* ExecutionStates: what the yielded labels tell of a configuration

ASSUME ProcAssumption == Proc \subseteq Nat /\ IsFiniteSet(Proc)

(***************************************************************************)
(* init is what the factory may return, step[c][p] what running process p  *)
(* in c may lead to (empty when p is not in curr_processes), view what     *)
(* curr_state shows.                                                       *)
(***************************************************************************)
Program == [init : (SUBSET Conf) \ {{}},
            step : [Conf -> [Proc -> SUBSET Conf]],
            view : [Conf -> State]]

\* Execution.available_processes
Available(P, c) == {p \in Proc : P.step[c][p] # {}}

\* Re-running a path from the factory always gives the same configuration.
Deterministic(P) ==
    /\ \A c, d \in P.init : c = d
    /\ \A c \in Conf, p \in Proc : \A d, e \in P.step[c][p] : d = e

\* The smallest set with the initial configurations closed under steps.
ClosedUnderSteps(P, S) ==
    P.init \subseteq S /\ \A c \in S, p \in Proc : P.step[c][p] \subseteq S

Reachable(P) ==
    {c \in Conf : \A S \in SUBSET Conf : ClosedUnderSteps(P, S) => c \in S}

\* The labels determine the configuration: nothing a process does later
\* depends on anything but what curr_state shows.
Faithful(P) ==
    \A c, d \in Reachable(P) : P.view[c] = P.view[d] => c = d

\* The steps of a program, and its state graph: the steps seen through the labels.
Steps(P) ==
    {e \in Reachable(P) \X Proc \X Conf : e[3] \in P.step[e[1]][e[2]]}

Edges(P) == {<<P.view[e[1]], e[2], P.view[e[3]]>> : e \in Steps(P)}
=============================================================================
