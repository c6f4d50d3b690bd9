----------------------------- MODULE StateGraph -----------------------------
(***************************************************************************)
(* What a Visitor promises: it walks fresh instances of the program from   *)
(* the start, records exactly the steps it took, and reports that it is    *)
(* finished only when it has taken every step there is -- provided the     *)
(* program is deterministic and its labels determine its configuration.    *)
(* How it chooses the walks is left open; Visitor.tla implements it.       *)
(***************************************************************************)
EXTENDS Program

CONSTANT
    NoConf      \* no instance of the program is alive

VARIABLES
    prog,       \* the program under test, fixed at the start
    at,         \* configuration of the live instance, or NoConf
    roots,      \* views of the instances' initial configurations
    edges,      \* steps recorded: <<view, process, view>>
    finished    \* the exploration has been reported complete

vars == <<prog, at, roots, edges, finished>>

TypeOK ==
    /\ prog \in Program
    /\ at \in Conf \cup {NoConf}
    /\ roots \subseteq State
    /\ edges \subseteq State \X Proc \X State
    /\ finished \in BOOLEAN

Complete == Deterministic(prog) /\ Faithful(prog) => edges = Edges(prog)

Init ==
    /\ prog \in Program
    /\ at = NoConf
    /\ roots = {}
    /\ edges = {}
    /\ finished = FALSE

\* A fresh instance is made by the factory.
Restart ==
    /\ at' \in prog.init
    /\ roots' = roots \cup {prog.view[at']}
    /\ finished' = FALSE
    /\ UNCHANGED <<prog, edges>>

\* One process of the live instance runs to its next yield point.
Walk(p) ==
    /\ at # NoConf
    /\ at' \in prog.step[at][p]
    /\ edges' = edges \cup {<<prog.view[at], p, prog.view[at']>>}
    /\ UNCHANGED <<prog, roots, finished>>

\* The live instance is stopped.
Leave ==
    /\ at # NoConf
    /\ at' = NoConf
    /\ UNCHANGED <<prog, roots, edges, finished>>

Finish ==
    /\ at = NoConf
    /\ Complete
    /\ finished' = TRUE
    /\ UNCHANGED <<prog, at, roots, edges>>

Next == Restart \/ (\E p \in Proc : Walk(p)) \/ Leave \/ Finish

Spec == Init /\ [][Next]_vars

-----------------------------------------------------------------------------
\* Every recorded edge is a step some reachable configuration can take.
Sound == edges \subseteq Edges(prog)

\* A complete report means that the recorded graph is the program's.
Exact == finished /\ Deterministic(prog) /\ Faithful(prog) => edges = Edges(prog)
=============================================================================
