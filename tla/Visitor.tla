------------------------------ MODULE Visitor ------------------------------
(***************************************************************************)
(* race2.abstract.Visitor: the search that drives fresh Executions of a    *)
(* program along paths (sequences of process ids) until every edge of its  *)
(* state graph has been visited.                                           *)
(*                                                                         *)
(* next() runs the empty path and then every queued path; running a path   *)
(* (next_sub) makes an instance, follows the path, and goes on eagerly as  *)
(* long as some process leads to an edge not visited yet, collecting on    *)
(* the way every such edge for the queue.  An instance is one step of the  *)
(* model per Execution.next.                                               *)
(***************************************************************************)
EXTENDS Program, Sequences

CONSTANTS
    Programs,   \* the programs considered
    NoConf,     \* no instance of the program is alive
    Unvisited,  \* a path leaves the visited edges
    Unlimited,  \* max_iter_count = None
    MaxIters,   \* the values of max_iter_count callers pass
    MaxCalls,   \* bound: how many times the user calls next or next_sub
    Seeds,      \* the seeds of the user's own calls of next_sub
    MaxPath     \* bound: steps of one instance

ASSUME ProgramsAssumption == Programs \subseteq Program
ASSUME NoConfAssumption == NoConf \notin Conf
ASSUME UnvisitedAssumption == Unvisited \notin State
ASSUME BoundsAssumption ==
    /\ MaxCalls \in Nat /\ MaxPath \in Nat
    /\ Unlimited \notin Nat /\ MaxIters \subseteq Nat \cup {Unlimited}
    /\ Seeds \subseteq Seq(Proc)

VARIABLES
    prog,               \* what the factory instantiates, fixed at the start
    is_depth_first,     \* fixed at the start
    visited_edges,      \* <<pre state, process>> -> distinct post states, oldest first
    queue,              \* paths to cover
    root_states,        \* states of the instances made, before any step
    instantiation_ctr,
    pc,                 \* "idle": no call; "loop": next()'s while; "sub": next_sub's
    mode,               \* who called next_sub: "next" or the user, "sample"
    iter_left,          \* iterations max_iter_count still allows
    seed, curr_path, conf, rtn,     \* next_sub: its seed, the Execution, the result
    calls, sampled      \* calls made so far; one of them was next_sub itself

explored == <<visited_edges, queue, root_states, instantiation_ctr>>
run == <<mode, iter_left, seed, curr_path, conf, rtn>>
vars == <<prog, is_depth_first, explored, pc, run, calls, sampled>>

Path == Seq(Proc)

TypeOK ==
    /\ prog \in Program
    /\ is_depth_first \in BOOLEAN
    /\ DOMAIN visited_edges \subseteq State \X Proc
    /\ \A key \in DOMAIN visited_edges :
          visited_edges[key] \in Seq(State) /\ visited_edges[key] # <<>>
    /\ visited_edges = [key \in DOMAIN visited_edges |-> visited_edges[key]]
    /\ queue \in Seq(Path)
    /\ root_states \subseteq State
    /\ instantiation_ctr \in Nat
    /\ pc \in {"idle", "loop", "sub"}
    /\ mode \in {"next", "sample"}
    /\ iter_left \in Nat \cup {Unlimited}
    /\ seed \in Path
    /\ curr_path \in Path
    /\ conf \in Conf \cup {NoConf}
    /\ pc = "sub" <=> conf # NoConf
    /\ rtn \in Seq(Path)
    /\ calls \in Nat
    /\ sampled \in BOOLEAN

-----------------------------------------------------------------------------
(* Which paths are worth running.                                          *)

\* The state the visited edges lead to along path, or Unvisited.  An edge with
\* several post states is followed to the oldest of them.
Replay(root, path) ==
    LET at[i \in 0 .. Len(path)] ==
          IF i = 0 THEN root
          ELSE IF <<at[i - 1], path[i]>> \in DOMAIN visited_edges
               THEN visited_edges[<<at[i - 1], path[i]>>][1]
               ELSE Unvisited
    IN  at[Len(path)]

CanPushPath(path) ==
    path # <<>> /\ \E root \in root_states : Replay(root, path) = Unvisited

\* The filter of a call: the user's own next_sub takes every path.
ShouldPush(path) == mode = "sample" \/ CanPushPath(path)

\* a and b agree as far as both go.
Compatible(a, b) ==
    \A i \in 1 .. Len(a) : i <= Len(b) => a[i] = b[i]

Extended(x) == Append(curr_path, x)

\* The path tested before x is run: the whole seed while x follows it.
DecideNextPath(x) ==
    IF Compatible(seed, Extended(x)) /\ Len(seed) > Len(Extended(x))
    THEN seed ELSE Extended(x)

AnyAvailable == Available(prog, conf)     \* mutant: no filter

Candidates == {x \in Available(prog, conf) : ShouldPush(DecideNextPath(x))}

BeforeById(x, y) == x < y                 \* mutant: the seed is not preferred

\* Processes that follow the seed come first, then the smaller id.
Before(x, y) ==
    LET follows(z) == Compatible(seed, Extended(z))
    IN  \/ follows(x) /\ ~follows(y)
        \/ follows(x) = follows(y) /\ x < y

Orders(S) ==
    {o \in [1 .. Cardinality(S) -> S] :
        /\ \A x \in S : \E i \in DOMAIN o : o[i] = x
        /\ \A i, j \in DOMAIN o : i < j => Before(o[i], o[j])}

-----------------------------------------------------------------------------
Init ==
    /\ prog \in Programs
    /\ is_depth_first \in BOOLEAN
    /\ visited_edges = <<>>
    /\ queue = <<>>
    /\ root_states = {}
    /\ instantiation_ctr = 0
    /\ pc = "idle"
    /\ mode = "next"
    /\ iter_left = 0
    /\ seed = <<>> /\ curr_path = <<>> /\ conf = NoConf /\ rtn = <<>>
    /\ calls = 0
    /\ sampled = FALSE

\* next_sub up to its loop: a fresh instance.
Instantiate(path, m) ==
    /\ pc' = "sub"
    /\ mode' = m
    /\ seed' = path
    /\ curr_path' = <<>>
    /\ rtn' = <<>>
    /\ conf' \in prog.init
    /\ root_states' = root_states \cup {prog.view[conf']}
    /\ instantiation_ctr' = instantiation_ctr + 1
    /\ UNCHANGED <<prog, is_depth_first, visited_edges>>

\* The user calls next(max_iter_count); the empty path is run unconditionally.
CallNext(max_iter_count) ==
    /\ pc = "idle"
    /\ calls < MaxCalls
    /\ calls' = calls + 1
    /\ iter_left' = max_iter_count
    /\ Instantiate(<<>>, "next")
    /\ UNCHANGED <<queue, sampled>>

\* The user calls next_sub(path) itself, with its default filter.
CallNextSub(path) ==
    /\ pc = "idle"
    /\ calls < MaxCalls
    /\ calls' = calls + 1
    /\ sampled' = TRUE
    /\ Instantiate(path, "sample")
    /\ UNCHANGED <<queue, iter_left>>

\* The edge key is the state seen before the step.
PreStateKey(p) == <<prog.view[conf], p>>

\* visited_edges once the step of key has led to post.
Recorded(key, post) ==
    LET seen == IF key \in DOMAIN visited_edges THEN visited_edges[key] ELSE <<>>
        posts == IF \E i \in DOMAIN seen : seen[i] = post THEN seen
                 ELSE Append(seen, post)
    IN  [k \in DOMAIN visited_edges \cup {key} |->
            IF k = key THEN posts ELSE visited_edges[k]]

CollectedChosen(order) == Append(rtn, Extended(order[1]))     \* mutant

\* The result of next_sub grows by every candidate, not only the one taken.
Collected(order) == rtn \o [i \in DOMAIN order |-> Extended(order[i])]

\* One iteration of next_sub's loop: the first candidate runs to its next
\* yield point.
Step ==
    /\ pc = "sub"
    /\ Len(curr_path) < MaxPath
    /\ Candidates # {}
    /\ \E order \in Orders(Candidates) :
          /\ rtn' = Collected(order)
          /\ conf' \in prog.step[conf][order[1]]
          /\ curr_path' = Extended(order[1])
          /\ visited_edges' = Recorded(PreStateKey(order[1]), prog.view[conf'])
    /\ UNCHANGED <<prog, is_depth_first, queue, root_states, instantiation_ctr,
                   pc, mode, iter_left, seed, calls, sampled>>

PushFront(q, path) == <<path>> \o q       \* mutant: depth first always

\* _push_path
Push(q, path) == IF is_depth_first THEN <<path>> \o q ELSE Append(q, path)

\* mutant: the last path is not looked at
PushedButLast ==
    LET q[i \in 0 .. Len(rtn)] ==
          IF i = 0 THEN queue
          ELSE IF i < Len(rtn) /\ CanPushPath(rtn[i]) THEN Push(q[i - 1], rtn[i])
          ELSE q[i - 1]
    IN  q[Len(rtn)]

\* The queue once next() has looked at each path of the result in turn.
Pushed ==
    LET q[i \in 0 .. Len(rtn)] ==
          IF i = 0 THEN queue
          ELSE IF CanPushPath(rtn[i]) THEN Push(q[i - 1], rtn[i])
          ELSE q[i - 1]
    IN  q[Len(rtn)]

\* next_sub returns: the instance is stopped, and next() queues what is
\* still unvisited of the result.
Finish ==
    /\ pc = "sub"
    /\ Candidates = {}
    /\ conf' = NoConf /\ seed' = <<>> /\ curr_path' = <<>> /\ rtn' = <<>>
    /\ IF mode = "next"
       THEN /\ pc' = "loop"
            /\ queue' = Pushed
       ELSE /\ pc' = "idle"
            /\ UNCHANGED queue
    /\ UNCHANGED <<prog, is_depth_first, visited_edges, root_states,
                   instantiation_ctr, mode, iter_left, calls, sampled>>

\* _next_once runs a path only if it has not been visited meanwhile.
ShouldRun(path) == CanPushPath(path)

MoreUnlimited == queue # <<>>             \* mutant

More == queue # <<>> /\ iter_left # 0

Countdown == IF iter_left = Unlimited THEN Unlimited ELSE iter_left - 1

\* An iteration of next() whose path has been visited meanwhile.
Skip ==
    /\ pc = "loop"
    /\ More
    /\ ~ShouldRun(Head(queue))
    /\ queue' = Tail(queue)
    /\ iter_left' = Countdown
    /\ UNCHANGED <<prog, is_depth_first, visited_edges, root_states,
                   instantiation_ctr, pc, mode, seed, curr_path, conf, rtn,
                   calls, sampled>>

\* An iteration of next() that runs its path.
RunNext ==
    /\ pc = "loop"
    /\ More
    /\ ShouldRun(Head(queue))
    /\ queue' = Tail(queue)
    /\ iter_left' = Countdown
    /\ Instantiate(Head(queue), "next")
    /\ UNCHANGED <<calls, sampled>>

Return ==
    /\ pc = "loop"
    /\ ~More
    /\ pc' = "idle"
    /\ UNCHANGED <<prog, is_depth_first, explored, run, calls, sampled>>

Internal == Step \/ Finish \/ Skip \/ RunNext \/ Return

Next ==
    \/ \E max_iter_count \in MaxIters : CallNext(max_iter_count)
    \/ \E path \in Seeds : CallNextSub(path)
    \/ Internal

\* The caller's thread runs every call to its end.
Spec == Init /\ [][Next]_vars /\ WF_vars(Internal)

-----------------------------------------------------------------------------
(* Properties.                                                             *)

\* The recorded graph as a set of edges.
RecordedEdges ==
    UNION {{<<key[1], key[2], visited_edges[key][i]>> :
                i \in DOMAIN visited_edges[key]} : key \in DOMAIN visited_edges}

Exhausted == pc = "idle" /\ queue = <<>> /\ calls > 0 /\ ~sampled

Graph == INSTANCE StateGraph WITH
    at <- conf, roots <- root_states, edges <- RecordedEdges,
    finished <- Exhausted

\* The Visitor is one of the explorations the abstract specification allows: it
\* records every step it takes and no other, and once next() returns with an
\* empty queue, whatever max_iter_count cut earlier calls short, the recorded
\* graph of a deterministic and faithful program is its whole state graph.
ImplementsStateGraph == Graph!Spec

KnownStates == root_states \cup {e[3] : e \in RecordedEdges}

\* Paths already collected that a later instance will follow.
Pending ==
    {queue[i] : i \in DOMAIN queue}
    \cup (IF mode = "next" THEN {rtn[i] : i \in DOMAIN rtn} ELSE {})
    \cup (IF pc = "sub"
          THEN {seed} \cup {Extended(x) : x \in Candidates} ELSE {})

AllButLast(path) == SubSeq(path, 1, Len(path) - 1)

\* No edge is forgotten: a process available in a state the Visitor has seen has
\* either been run there, or some path still to be followed replays to that
\* state and runs it next.  Broken if next_sub stopped collecting the siblings
\* of the process it picks, or dropped paths whose edge is still unvisited.
FrontierCovered ==
    Deterministic(prog) /\ Faithful(prog) /\ ~sampled =>
        \A c \in Reachable(prog) : prog.view[c] \in KnownStates =>
            \A p \in Available(prog, c) :
                \/ <<prog.view[c], p>> \in DOMAIN visited_edges
                \/ \E path \in Pending :
                      /\ path # <<>> /\ path[Len(path)] = p
                      /\ \E root \in root_states :
                            Replay(root, AllButLast(path)) = prog.view[c]

\* An instance never wastes a step: once the seed is followed, every step runs a
\* process in a state where it has never been run.  This is what bounds the
\* eager loop of next_sub in a program with cycles.
EveryStepIsNew ==
    [][Step /\ mode = "next" /\ Len(curr_path) + 1 >= Len(seed)
          /\ Deterministic(prog) /\ Faithful(prog) /\ ~sampled
       => DOMAIN visited_edges' # DOMAIN visited_edges]_vars

\* An instance is not made in vain: re-running a collected path on a fresh
\* instance of a deterministic program never strays from it, and does not end
\* before it has run the edge for which the path was queued.
SeedFollowed ==
    pc = "sub" /\ mode = "next" /\ Deterministic(prog) /\ Faithful(prog) =>
        /\ Compatible(seed, curr_path)
        /\ Len(curr_path) < Len(seed) => Candidates # {}

\* Every call of next() returns, even when the processes of the program loop for
\* ever.  (The user's own next_sub, which filters nothing, need not: Step then
\* goes on to MaxPath.)
CallsReturn == pc # "idle" /\ mode = "next" ~> pc = "idle"
=============================================================================
