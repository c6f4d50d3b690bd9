---------------------------- MODULE SpanningTree ----------------------------
(***************************************************************************)
(* Visitor.spanning_tree, the generator that unfolds the recorded edges    *)
(* from the root states, run by a user once next() has returned.           *)
(*                                                                         *)
(* A value of visited_edges is a dict from post state to visits; the       *)
(* generator treats it as a state.  Both kinds are tagged, so that they    *)
(* never compare equal, as an ExecutionState and a dict never do.          *)
(***************************************************************************)
EXTENDS Visitor, SequencesExt

VARIABLES
    truly_spanning,     \* the argument, fixed at the start
    tree,               \* "none" before the call, "running", "done", "TypeError"
    tree_queue,         \* the generator's queue of [path, states]
    yielded             \* what it has yielded so far

treeVars == <<truly_spanning, tree, tree_queue, yielded>>

AState(s) == [state |-> s]
ADict(posts) == [dict |-> posts]

TreeInit ==
    /\ Init
    /\ truly_spanning \in BOOLEAN
    /\ tree = "none"
    /\ tree_queue = <<>>
    /\ yielded = <<>>

Call ==
    /\ Exhausted /\ tree = "none"
    /\ tree' = "running"
    /\ \E roots \in SetToSeqs({AState(s) : s \in root_states}) :
          tree_queue' = <<[path |-> <<>>, states |-> roots]>>
    /\ UNCHANGED <<vars, truly_spanning, yielded>>

NextProcesses(states) ==
    {p \in Proc : \E key \in DOMAIN visited_edges :
                     AState(key[1]) = Last(states) /\ key[2] = p}

\* One entry of the queue.  The processes are listed in the order in which
\* their edges were first visited, which nothing depends on.
Unfold ==
    /\ tree = "running" /\ tree_queue # <<>>
    /\ LET item == Head(tree_queue)
           follow == NextProcesses(item.states)
           post(p) == ADict(visited_edges[<<Last(item.states).state, p>>])
           fresh == {p \in follow : ~Contains(item.states, post(p))}
       IN  IF truly_spanning
           THEN \* next_state in globally_visited_states: a dict has no hash
                /\ tree' = IF fresh = {} THEN tree ELSE "TypeError"
                /\ tree_queue' = Tail(tree_queue)
                /\ UNCHANGED yielded
           ELSE /\ yielded' = Append(yielded, [path |-> item.path, follow |-> follow])
                /\ \E order \in SetToSeqs(fresh) :
                     tree_queue' = Tail(tree_queue) \o
                         [i \in DOMAIN order |->
                             [path |-> Append(item.path, order[i]),
                              states |-> Append(item.states, post(order[i]))]]
                /\ UNCHANGED tree
    /\ UNCHANGED <<vars, truly_spanning>>

EndOfTree ==
    /\ tree = "running" /\ tree_queue = <<>>
    /\ tree' = "done"
    /\ UNCHANGED <<vars, truly_spanning, tree_queue, yielded>>

TreeNext == (Next /\ UNCHANGED treeVars) \/ Call \/ Unfold \/ EndOfTree

TreeSpec == TreeInit /\ [][TreeNext]_<<vars, treeVars>>
=============================================================================
