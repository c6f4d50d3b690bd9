# TLA+ models of python-race

python-race tests concurrent Python code by running its processes as generators,
one step at a time, in every order that matters. This directory holds TLA+
modules for the parts of it that carry the logic, TLC configurations that check
them on small instances, and TLAPS proofs of what holds for every instance.
Source paths below are relative to the repository.

## The system

There are two generations. `race2` is the current one; `race` is older, and
`race2` shares its multiprocessing code with it in large part.

| component | state it keeps | operations | what makes it correct |
|---|---|---|---|
| **Execution** (`race2/abstract.py:34-166`) | table of generators, label each last yielded, handlers, results, path so far | `add_process`, `rename_process`, `next`, `stop`, `run` | a handler stays with its generator through renaming and fires once; labels tell live processes from ended ones; shared resources are freed exactly once |
| **ExecutionState** (`:169-216`) | labels by process id | equality, hash, copy | equality is an equivalence the hash respects; copies are independent |
| **Visitor** (`:219-401`) | visited edges with their post states, queue of paths, root states, counters | `next(max_iter_count)`, `next_sub(seed)` | every edge of the program's state graph is visited, none is invented, no instance is wasted, calls return |
| **Visitor.spanning_tree** (`:403-439`) | queue of unfolded paths | iterate | it unfolds the recorded graph |
| **RemoteGenerator**, **RemoteGeneratorClient** (`race2/multiprocessing/remote.py`, `race/generator/remote.py`) | child process, two one-place queues, a semaphore per client, the child's iterator | call and iterate, `open`, `close`, the child's loop | labels reach their own call in order; time-outs are reported; nobody blocks for ever |
| **ThreadGenerator** (`race2/multiprocessing/thread.py`, `race/generator/thread.py`) | a thread, two queues, who runs | call and iterate, restart, destruct | packets stay with their call, caller and thread take turns, abandoned threads end, the caller comes back |
| **TraceYield**, **Yield** (`race2/multiprocessing/trace.py`, `yield_fun.py`) | label table, thread-local yield function | `tracer`, `yield_fun_set/clean/yield` | one label per traced line; yields reach the current thread's generator |
| **Graph** and its algorithms (`race2/graph/`) | vertices, numbered edges, labels | components, `collapse_cycles`, `leaves`, `clean_graph`, `paint` | results match their graph-theoretic definitions |
| **Graphviz output** (`race2/graph/graphviz.py`, `race2/util/`) | none | render | formatting only |
| **legacy Visitor, Race, Label, Path** (`race/abstract.py`, `race/path.py`) | visited normalised paths, a queue; a tree of points and cycles | `next`, `execute`, `norm_path` | normal forms lead where the paths did, no step of the program is left out, the search ends |
| **Linearizer** (`race/linearizer/`) | sockets of connected processes | `select` loop | unfinished: its packets cannot be encoded |

How they interact. A user writes a *factory* that returns a fresh Execution of
the program under test. The Visitor calls the factory for each path it wants to
follow and then `Execution.next` for each step of it; it sees the program only
through `Execution.curr_state` (the labels) and `available_processes`.
`Execution.next` resumes a generator, which may be a plain Python generator, a
client of a RemoteGenerator (a child process behind queues) or a ThreadGenerator
(a thread behind queues). Generator bodies, `handle_step` and the handlers are
user code that runs inside `next` and calls back into the same Execution.
`graph_from_visitor` copies the visited edges into a Graph for the algorithms.

What is hard here:

* the Visitor's search interleaves three lists of paths (the seed being
  followed, the result being collected, the queue) with a graph that grows under
  all of them; a path forgotten once is never seen again, and the only symptom
  is a smaller graph;
* what the Visitor knows of a program is its labels; whether it is complete
  depends on a property of the user's program (below, *faithful*);
* callbacks re-enter the Execution in the middle of `next`;
* the remote generators combine blocking queues of capacity one, time-outs,
  calls abandoned half-way, and cleanup that runs after the thing it cleans up
  has gone;
* the thread generators give threads up without waiting for them, by a packet
  and by an asynchronous exception, while those go on putting packets;
* the older search decides what it has visited by folding paths into cycles,
  and nothing but its result tells whether a fold removed too much;
* the graph algorithms replace the graph they search while they search it.

`PROJECT.json` lists these hazards one by one, with the properties that cover
them and, where none does, why.

## Modules

### Program, StateGraph: what is explored and what is promised

`Program.tla` is the user's side of the Visitor's interface. A program is a
record: the configurations a factory may return (`init`), what a step of a
process leads to (`step`, empty for a process that is not available), and the
labels a configuration shows (`view`). `Deterministic(P)` and `Faithful(P)` (no
two reachable configurations show the same labels) are the two assumptions a
Visitor makes without stating them. `Edges(P)` is the state graph: the reachable
steps, seen through the labels. `Reachable` is the smallest closed set and not a
recursive operator, so that proofs can use it.

`StateGraph.tla` is the abstract specification. An explorer has at most one live
instance (`at`); it can make one (`Restart`), let a process run (`Walk`), which
records exactly the edge walked, drop the instance (`Leave`), and report
completion (`Finish`), which for deterministic and faithful programs requires
the recorded edges to be all edges. It says nothing about how walks are chosen.

### Visitor

`Visitor.tla` is `Visitor.next`, `next_sub` and everything they call.

| code | model |
|---|---|
| `visited_edges` with visit counts | `visited_edges`: (state, process) to the sequence of distinct post states, oldest first; the counts are read by nobody |
| `split_path_visited`, `_can_push_path` | `Replay`, `CanPushPath` |
| `decide_next_path`, the sort key | `Compatible`, `DecideNextPath`, `Before`, `Orders` |
| the body of `next_sub`'s loop, one `Execution.next` each | `Step` |
| `next_sub` before its loop, after it | `Instantiate`, `Finish` |
| the rest of `_next_once` after `next_sub` | in `Finish`: `Pushed` |
| iterations of `next()` that run, that skip, the end | `RunNext`, `Skip`, `Return` |
| the user's calls | `CallNext` (any `max_iter_count` of a set), `CallNextSub` |

A step of the model is one `Execution.next`, because between two of them nothing
can observe the Visitor; the state in between is what the search algorithm reads
and writes. A call of `_next_once` whose path is not run is one step. The
argument `should_push_path_fun` takes its two defaults.

`ImplementsStateGraph` is `StateGraph`'s specification under the refinement
mapping `at <- conf`, `edges <- RecordedEdges`, `finished <- Exhausted` (the
last call of `next` has returned and the queue is empty). The invariants say why
it holds: `FrontierCovered` (every process available in a state the Visitor has
seen was run there or is the last element of a pending path that leads there),
`SeedFollowed` (an instance never strays from the path it was made for, and does
not end before it has run the edge the path was queued for), and `EveryStepIsNew`
(past its seed it runs no edge twice).

### SpanningTree

`SpanningTree.tla` extends the Visitor by its method `spanning_tree`, called
after `next` has returned. States and dicts of post states are different kinds
of values, as in the code.

### Execution

`Execution.tla` splits `Execution.next` at the points where user code runs:
`Resume` enters the generator's body (`phase = "body"`), `Yield` or `End` leaves
it and enters `handle_step` (`"step"`), `Stepped` goes on to the handler of an
ended process (`"terminate"`) or to the end, `Handled` ends it, `handle_terminate`
runs if no process is left (`"teardown"`) and returns (`TornDown`). In each of
the four phases, and in the factory (`"setup"`), user code may call `add_process` and
`rename_process` with any ids, that of the process which is running or has just ended among
them, and may raise (`Escape`; from a generator's body only what is no `Exception`, as
`next` records the rest). `stop()` takes one generator at a time (`Throw`), each of
which may resist (`ThrowFails`). The driver, chosen by Init, is a Visitor (`Stop`,
`Exhaust`) or `Execution.run` (`RunEnds`).

Nothing is asked of user code. Two history variables record what it did.
`handler` says for each generator what became of the handler it was added with: filed,
called, or overwritten by another one filed under the same id. `mishaps` has three
members, each of which the code makes no sense of and none of the repository's programs does:

* `astray`: a body renames its own process, so that `next` records the step under an id
  that is no longer its own, and at its end fails with KeyError or drops whoever has the id now;
* `half`: a body goes on after `rename_process` has failed between its tables;
* `revive`: `handle_terminate` adds a process.

The properties name the mishaps they leave out. What they do not leave out is
`handle_step` giving the id that has just ended to another process, as a `handle_step` like
that of `race2_tests/abstract/test_self_retry.py:53-68` may do. By `add_process`,
or by `rename_process` of a live process, this files another handler under the id, and
the next lines of `next` take that one for the handler of the process that ended: it
is called while its generator runs, and the one it replaced never is.
`HandlersFireOnce` states this as it is: a handler is called at most once,
and if not for its own generator, which has ended, then in place of one overwritten
under the same id in that very step. (`test_self_retry` itself does not meet this: its
`handle_step` sorts a process to the first id when it yields "success", so that a process that ends is where
its handler is, and in the end only its label is moved there and back.) `HandlerOwnership` says of all moments outside `handle_step` that
what is filed under an id belongs to the live process with that id, and
that no handler is lost in any other way.

### RemoteGenerator

`RemoteGenerator.tla` has the parent's thread (`active` says which call or
`close()` holds it), the calls as generators with a program counter, the two
queues and the child. `TerminateOnExit` selects the generation: TRUE for
`race2/multiprocessing/remote.py`, FALSE for `race/generator/remote.py`, which
differ only in the client's `finally` block and in what a failing child reports.
The function run in the child may yield any number of labels up to `MaxItems`,
return, raise, or hang; a `get` may time out whenever its queue is empty, which
includes the moment before a late answer is put.

A call whose Reset fails or times out is over before its `try` block; it has a program
counter of its own, `failed`, and keeps its client for good, in both generations. `ClientFreed` says
that this is the only end of a call that does, and in `race2` the end in which the `finally`
block finds no queue. `ThreadComesBack` is checked without closes under a suspended call:
after a close and an open under a suspended call of `race`, the call resumed puts a Push to a child that has not been
reset, and may then wait for a queue that nobody empties; nothing in the
repository does so.

### ThreadGenerator

`ThreadGenerator.tla` has the caller's side (`active` says which call holds the
caller's thread, `pc` where each call is) and a number of places for threads,
each with its two queues, where it is (`at`), what it serves (`job`) and whether
a Terminate has been set for it (`async`). Init chooses `config`: the generation,
whether functions catch every exception, and which of calls and `close()` may
happen under a suspended call.

| code | model |
|---|---|
| `__call__` up to its loop | `Start` |
| `queue_in.get` and each kind of packet, its time-out | `GetYield`, `GetEnd`, `Timeout` |
| the caller's `next`, `throw`, `close` at a yield | `Resume`, `ResumeClosed`, then `GetExit` |
| `thread_restart`, `thread_destruct` | in these actions: `Restart`, `Destructed`, `Interrupted` |
| `thread_main`, `thread_yield` | `MainGet`, `YieldGet`, `FunYield`, `FunEnd` |
| `PyThreadState_SetAsyncExc` taking effect | `Interrupt` |

A thread that is no longer the ThreadGenerator's goes on. Its place is free only
when it has ended, so what it still puts, and to whom, is part of the model. The
exception set by `thread_raise` reaches a running thread at any moment and a
sleeping one only after a packet has woken it up, which it may lose
(`Interrupt`), as the comments at lines 125 and 142 say. A restart makes two new queues; a packet in
an old one is out of the caller's reach. Labels, results and exceptions are taken to be picklable: the
queues are multiprocessing queues, whose feeder drops what is not, and `Send` loses nothing.

The history variable `lost` has the calls whose thread was given up while they were
suspended, which only `close` and, in `race2`, the start of a second call do (line 201
restarts the thread before line 204 refuses the call). Such a call finds a thread
that does not know it. `SuspendedIsServed` and `CallerComesBack` leave out
these calls and no others; with `race2`'s refused call this loss is what the code does, it is not shown
to be wrong.

### Graph, Cycles, Paint, GraphAnalysis

`Graph.tla` has the operations of `Graph` and the algorithms that are one
expression (`Leaves`, `CleanGraph`), and the definitions to compare with:
`Ancestors` (the least set closed backwards, without recursion), `Components`,
`Bottoms`. `Cycles.tla` follows Tarjan's algorithm step by step, with the stack of
active calls of `strong_connect` as a variable, and `collapse_cycles` around it, which
replaces the first component of more than one vertex and starts over. `Paint.tla`
is `paint`. In all of them the order of vertices and edges is left open, as the
code takes it from lists and sets whose order means nothing; so `CleanGraph` keeps the
least-numbered of parallel edges where the code keeps the first, and `FromAdjacencyList` makes a set
of vertices where the code's list may name one twice.
`GraphAnalysis.tla` composes them as the tests of `race2` do:
`clean_graph(collapse_cycles(graph))`, then `leaves`, then `paint`.
`graph_from_visitor` is in `MCVisitorTests.tla`.

### CyclePath, LegacyVisitor

`CyclePath.tla` is `race/path.py`: `Put` folds an item into the tree of points
and cycles, `Walk` reads it off again, `Norm` does both. `Turn` is one round of
`Root.put`'s loop with the `cycle_create` it calls. What the code reads off a node
again and again, its walk (`norm`) and the chain of its heads (`heads`), is a field of
the node, set when it is made: nodes are never changed.

`LegacyVisitor.tla` is the search: an action is one `__next__`, which runs a path from
start to end (`Execute`) and queues its extensions (`PushPaths`) if some racer is
still running. Running a path has no interleaving of its own, since the path is the
interleaving. A program is given by `Start`, `Step`, the number of racers and the
configurations they may reach (`Conf`).

The search takes two items of a path for the same if racer and label are, and relies,
without saying so, on labels that tell enough for that. `TellingAssumption` says what is
enough. Of a *telling* program some pairs of racer and label are recurring
(`Recurring`), like the failed attempt of a loop that waits for a lock; the others are passed once on a run, and
`Done` are those a run has behind it. A recurring step leads where it led the
last time unless something has changed that recurring steps do not touch (`Kept`),
that is, unless a step that does not recur came between. Program counters and locals need not
show in labels: the counter, the compare-and-swap and the deadlock of
`test_search.py` are telling, with the failed `cas` of a spinning racer as the only recurring step, and so are
programs whose labels show all their data. On other programs the search may still be
complete; the `legacy` run finds that it is on all of its own.

A normal form need not be free of cycles, and is not meant to be: `race_tests/test_path.py` keeps each cycle walked
once ('abab' stays), and some paths, such as 'abcacac', keep one walked twice. What the
search needs of it is that it leads to the same configuration (`CyclesOnly`) and that
there are finitely many of them (`SearchEnds`).

Instances for TLC are in the `MC*` modules.

## Runs

| run | instance | result |
|---|---|---|
| `visitor` | all deterministic programs of 2 processes and up to 3 configurations, or 3 processes and 2 configurations, one per renumbering; both search orders; 2 calls of `next`, each with or without `max_iter_count = 1` | all properties hold (about 127,000 states) |
| `visitor_tests` | the two programs of `test_cas_spinlock.py`; 2 calls, of `next` or of `next_sub` with a seed | the counts its tests assert after one `next`: 48 edges, 12 instances and one leaf; 26 and 7 |
| `visitor_hidden` | `test_true_cycle.py` with 2 processes | **violated**, see below |
| `spanning_tree` | `test_cas_spinlock.py` | **violated** |
| `execution` | 3 ids, 3 generators; 3 steps under a Visitor, 2 under `run`; any user code | all hold (about 2,311,000 states up to symmetry) |
| `remote_legacy` | `race`: 3 calls of one client, up to 2 labels each, closes between calls | all hold (49,236 states), `ThreadComesBack` included; it needs the bound on closes, see above |
| `remote_race2` | `race2`: the same, closes at any time | labels in order and lockstep hold; `ClientFreed`, which is proved for both generations, is checked in `remote_legacy` |
| `remote_reuse` | `race2`: 2 calls | **violated** |
| `remote_timeout` | `race2`: 1 call | **violated** |
| `thread` | both generations, 2 calls of up to 2 labels, 3 places for threads; plain, with functions that catch everything, with calls under a suspended call, with `close()` under one | all hold (about 304,000 states) |
| `graph` | all graphs of 3 vertices and 5 edges, loops and repeated edges among them; all of 4 vertices and 5 edges without | all hold (about 255,000 states) |
| `legacy` | all programs of 2 racers over a datum of two values, with labels that show it or that do not, and of 3 racers over one value, but for those named in `MCLegacy`; the 3 programs of `test_search.py` | all hold (51,620 states), `CyclesOnly` on the telling programs, the three of `test_search.py` among them, the others everywhere; scenarios counted: 20, 78 and 12, 374, 2480 and 0, 40, 166 and 6, as the tests assert |

Bounds. `MaxPath` and `MaxCalls` bound the length of an instance and the number
of calls; in `visitor` no instance reaches `MaxPath = 10`, because an instance
never runs an edge twice beyond its seed (`EveryStepIsNew`) and there are at most
6 edges. Three configurations are the least with a path whose prefix revisits a
state and whose last edge is new, with two cycles that share a state, and with a
sibling that another instance visits first; three processes are the least for
which it matters that `next_sub` prefers the process of its seed; two calls show a search resumed
after `max_iter_count`, with and without its queue empty. In `visitor_tests` only the user's own `next_sub` reaches `MaxPath = 50`, as it
filters nothing and spins. Three ids and generators allow a retry that renames its
successor to a third id and re-uses the first, and three steps let a handler that was overwritten or misplaced in one
step be called in a later one. In the remote runs the second call
meets what the first left behind, the third what a reopened child left. Three places
for threads in `thread` are what two calls of `race2` need, one for each thread
they start and one for the thread that is to end; `Room` keeps calls from
starting when abandoned threads hold the places. Two labels let a stale label and
an own one be in the queues at once. Three vertices and five edges give components
that overlap a loop, a repeated edge and an edge out; four vertices give
two components of two and cycles that share a vertex. In `legacy` a datum of two values is
the least on which a path can come back to an earlier label, and programs whose
normal forms run into the tens of thousands are left out.

Symmetry: ids and generators are only compared in `Execution`, so both are
permuted. The Visitor sorts process ids and gets no symmetry.

Deadlock is not checked where the user may stop calling (`visitor*`, `thread`),
where a search ends (`graph`, `legacy`), or where a blocked thread is the subject
(`remote_race2`, `remote_reuse`).

Fairness. The Visitor runs in its caller's thread: once called it takes steps
until it returns, `WF(Internal)`. In `RemoteGenerator`, a call that holds the
parent's thread goes on (`WF(CallStep(c))`), so does `close`, and the child's
interpreter takes what is put into its queue (`WF(ChildGet)`); nothing is assumed
of the user's function, which may hang, or of callers, which may abandon a call.
In
`ThreadGenerator` it is the same for a call that holds the caller's thread and for
the threads' loops; `CallerComesBack` and `ThreadsEnd` assume in addition that the user's
functions go on to their next label or end (`FunctionsGoOn`), and no exception is assumed ever
to reach a thread (`Interrupt` has no fairness). `GraphAnalysis` and
`LegacyVisitor` are sequential code that runs on. `Execution` has safety properties
only.

## What the violations show

* `visitor_hidden`: the README promises every combination of context switches
  and takes a vertex for the *complete* state of the processes; the Visitor's
  vertices are labels. On a program whose labels hide the lock's owner it stops
  with 48 of 66 edges. The theorems below have faithfulness as a hypothesis for
  this reason.
* `spanning_tree`: line 428 of `race2/abstract.py` takes a dict of post states for
  a state. The tests' 227 and 43 paths are 3.
* `remote_reuse`: since the `finally` block of a call sends Terminate (line 281),
  the child is gone after one call, but `process` is still set; the next call times out
  and closing blocks on a full queue.
* `remote_timeout`: the same line, after a time-out has dropped the queue, raises
  AttributeError in place of RemoteTimeoutError.

Met on the way and outside the models: `Visitor.visited_vertices`
(`race2/abstract.py:252-256`) raises TypeError, because it puts the dicts of post
states into a set. `Graph.subset` iterates over a dict as if over its items; nobody
calls it. A Reset that fails leaves its client locked (`failed` above). Giving the id that has just ended away in
`handle_step` gets the wrong handler called (Execution above). In `race2` a ThreadGenerator's call that is refused has already destroyed the thread of
the call it is refused for, and a call that is closed after
it lost its thread waits for ever (`lost` above). No text of the repository promises otherwise for these, so they are
written into the properties and not reported as violations.

## Proofs

TLAPS checks every obligation of the modules below. The theorems hold for every
value of the constants that satisfies the named assumptions: any finite set of
process ids, any sets of configurations and states, any program over them,
either search order, any values of `max_iter_count`, any number and length of
calls, any clients, labels and places for threads, any finite graph, any racers.

| module | theorems |
|---|---|
| `ProgramLemmas` | lemmas on reachable configurations and edges |
| `StateGraphProofs` | `SoundAlways`: recorded edges are the program's, however the abstract specification walks |
| `VisitorProofs` | `TypeCorrect`, `FrontierAlways`, `SeedFollowedAlways`, `EveryStepIsNewAlways`; `Refinement`: the Visitor implements StateGraph; `ExactAlways`: what that means for its user. Its first part are lemmas on where a path leads along the visited edges: prefixes, extensions, and what a growing table changes |
| `ExecutionProofs` | `TypeCorrect`, `HandlerOwnershipAlways`, `HandlersFireOnceAlways`, `LabelsTellLivenessAlways`, `TornDownOnceAlways` |
| `RemoteProofs` | `TypeCorrect`, `LockstepAlways`, `ClientFreedAlways`, `TimeoutsReportedAlways`; `OwnLabelsWhenAlone` and `OwnLabelsOfOneClient`: a caller gets its own labels |
| `ThreadProofs` | `TypeCorrect`, `TakeTurnsAlways`, `EnteredByOneAlways`, `OwnPacketsAlways`, `SuspendedIsServedAlways` |
| `GraphProofs` | `PaintCorrect`: paint collects the ancestors of its start; `AnalysisPaintsAncestors`: so it does on what `collapse_cycles` and `clean_graph` return; `TarjanFindsComponentsAlways`, `CollapseKeepsPathsAlways`, `EdgesAccountedForAlways`, `LeavesAreEndsAlways` |
| `LegacyProofs` | `NormKeepsItems`: what a normal form keeps of any path; `TypeCorrect`, `CyclesOnlyAlways`, `EveryStepExecutedAlways`; `SearchIsComplete`: the older search leaves no step out |

### The Visitor

Assumptions: `ProcAssumption` (the ids are a finite set of integers),
`ProgramsAssumption`, `BoundsAssumption`, and that the two markers are no
configuration and no state (`NoConfAssumption`, `UnvisitedAssumption`). `MaxPath`
and `MaxCalls` may be any numbers, and do not weaken the result: an instance at
`MaxPath` with a candidate left does not end, so it cannot make a search look
complete. Determinism and faithfulness of the program are hypotheses inside the
properties; the claim that every recorded edge is a step of the program, and
that each step records exactly one, needs neither.

The inductive invariant is `IInv`; TLC found no violation of it on the instances of `visitor`,
and with seeds for calls of `next_sub`, before it was proved for all. Its parts:

* `TypeOK` and `Shape`: what a call keeps is empty when no call runs, and a call
  of `next_sub` by the user is remembered in `sampled`.
* `Grounded`: the live instance is in a reachable configuration whose state has been
  seen; roots are views of initial configurations; recorded edges are edges of
  the program. This makes a visited key mean something: with faithful labels
  the live instance can repeat the step recorded for it (`VisitedIsAvailable`).
* `Guided`, for deterministic and faithful programs: replaying the current path along
  the visited edges gives the state the instance is in (`OnTrack`); every queued
  or collected path, its last process taken off, replays to a reachable
  configuration in which that process is available (`PathsLead`); until the
  seed has been followed, it is followed so far and still leads off the visited
  edges (`SeedAhead`).
* `FrontierCovered`.

`FrontierCovered` is not inductive alone. When `next_sub` ends, its seed stops
being pending, and the edge it was queued for must have been visited: that needs
`SeedAhead`, which needs the next process of the seed to be a candidate
(`SeedNext`), which needs `PathsLead` for its last process and `Grounded` for the others.
A path that is dropped, by `next()` when it reads the result or by `Skip`, has been visited
to its end, because it still replays to where it was collected: the table only
grows, and never changes where an edge leads (`EndsGrows`).

The refinement follows action by action. Only `Return` needs the invariant: with
an empty queue nothing is pending, so every process has been run in every state
seen; the configurations whose state has been seen are then closed under steps,
hence all that are reachable (`CompleteWhenCovered`).

`Replay` and `Pushed` recurse along a path and a result. They are recursive
functions; the first lemmas of `VisitorProofs` show that a function defined step by step
along 0..n exists, which is all the provers need to know about them.

### Execution

Assumption: `NoneAssumption` (the marker for "no process" is neither an id nor a
generator). Nothing is assumed of user code; the mishaps are hypotheses inside the properties.
`InNext` says which process and generator `next` is working on. `OwnershipInv` follows
`HandlerOwnership` through the phases of `next`: in `handle_step` alone, the handler filed under the
id that has just ended may be without a process, and is then the running generator's.
`HandlersInv` ties `handler` to the table: what is filed is there, under one id, and nothing
else is. With `FireInv` (a process in the table has not ended; in `handle_step` after an end the
running generator has) they give `HandlersFireOnce`: if the id that ended is free
when its handler is popped, the handler is its own generator's; if not, it is that of the live process
there, and the ended generator's own is no longer filed, since it could only be filed under that id.

`LabelInv` extends `LabelsTellLiveness` from the moments between steps to all of
`next`, and adds that whoever has a handler has a label: this is what makes a renaming move
label and handler together. `TornDownOnce` needs two invariants. `TearInv` says
where the count of teardowns can be 0 or 1: once it is 1 the table of processes is empty, so
neither another step nor `stop` is possible. `LiveInTable` says that an empty table
means no live generator: `add_process` and `rename_process` refuse an id that is taken, so a
generator leaves the table only by ending, or if it has renamed itself (`astray`).

### RemoteGenerator

Assumptions: `CallAssumption` (each call has a client), `GenerationAssumption`, `NoneAssumption`
(the marker is none of the values it stands in for). The theorems are about both generations, since
`TerminateOnExit` is a constant, and about any number of clients that share the child.

The inductive invariant is `ParentInv`, `ChannelInv` and the type of what was received.
`ParentInv`: whoever runs has the parent's thread, and a client's semaphore is
taken by the one call of it that is in progress. `ChannelInv` is the protocol: while
a call waits for an answer its request is on its way, is being handled, has been
answered, or the child has ended over it (`Exchange`); when nobody waits, the queues are
empty or hold one Terminate (`Quiet`). A time-out does not break it: it drops the queues
with the child, and no late answer can arrive.

`OwnLabelsInOrder` needs more than the protocol, because the child's iterator is not
in it: `OwnIterator` says that the iterator a call pushes is the one made by its own Reset, `OwnLabels` that it
stands one behind what has been received. They hold while no two calls are in
progress (`Alone`): a suspended call of a second client would find its iterator
replaced. One client is always alone (`OneClientAlone`), since its semaphore
refuses the second call; this is `OwnLabelsOfOneClient`. `ClientFreed` is kept by
each action, given `ParentInv`: it is lost only by a step that ends a call and leaves its semaphore taken, and no such step exists
but those it names.
`TimeoutsReportedAlways` (for
`race`, where the `finally` block puts nothing) follows from the protocol step by step.

### ThreadGenerator

Assumptions: `ThreadAssumption` (the places for threads are finitely many: `Room`
counts them), `SettingsAssumption`, `NoneAssumption`. The inductive invariant has four parts: `CallerInv`
(one call is in progress at most, and it has the caller's thread unless it is
suspended), `ThreadsInv` (types, a job for each running function, interrupts only at threads
that have been abandoned), `Roomy`, and `Turns`: between caller and current thread there is
nothing while no call runs, and otherwise the caller's packet, or the thread working
on it, or its answer. Abandoned threads may do what they like, because the queues they hold are no longer
those of `thread`. `Served` adds for `SuspendedIsServed` that a suspended call that is not `lost` has a thread at its
yield; `OwnInv`, for `OwnPackets`, that request, job and answer belong to the call in
progress and carry the label after those received.

`OwnInv` holds under `Separate`. The proof showed that the model's exception for functions that catch
BaseException was one setting too narrow: with three labels or more a function of
`race` that catches both its Exit and the NotImplementedError that the next Call raises in it goes on and answers that later call, and
`race2` is safe only because each call replaces the queues. With two
labels TLC cannot see it. `Separate` now says so, and the theorems hold for any number of labels.

### Graphs

Assumptions: `InputsAssumption` (graphs are finite, vertices and edges are numbered, and
edges end in vertices, as `Graph.__post_init__` asserts) and `NoneAssumption` (the marker for an
edge that goes is no edge). `PaintCorrect` needs neither.

**paint.** What is visited or queued are ancestors of the start; the start is visited
or queued; an edge into a visited vertex comes from one that is visited or queued, or is
still among the edges to follow. When nothing is queued, the visited vertices are closed
backwards, and the ancestors are the least such set.

**tarjan.** `TarjanFindsComponents` speaks of the end only; `TarjanInv` says what
each call of `strong_connect` relies on:

* `Ordered`: numbers are given in the order of meeting; stack and active calls are
  in that order; whoever has an active call is on the stack.
* `LookedAt`: an edge no longer pending leads to a vertex that has been met.
* `Found`: what is met and off the stack are the components found so far, and no
  edge leaves them.
* `Reaching`: each vertex on the stack reaches one at or below it whose call is active;
  and such a vertex reaches everything above it.
* `LowSound`: a low link is the number of a vertex on the stack that is reached.
  `LowComplete`: no edge that was looked at leads from the part of the stack
  a call owns to below its low link.

`EnterInv`, `LookInv` and `ReturnInv` show that each action keeps it. The case that matters is the return
of a call whose low link is its own number (`ComponentInv`): by `LowComplete` no edge leaves
what is on the stack from its vertex on, except to components found before; by `Reaching`
that part of the stack reaches its vertex and is reached from it. If the low link is lower,
another call is active below (`LowerCall`), so the stack is never left without one.

**collapse_cycles.** `CollapsingInv` says that vertices of the graph stand for
disjoint sets of vertices of the input, each new vertex for a component (`Standing`), and that
paths lead between them as in the input (`SamePaths`). From these it follows that
a cycle never contains a new vertex (`CycleOfInput`): a component of the input would be larger than it is. So no cycle is collapsed twice,
and a cycle's sub-graph has the input's own edges (`Accounted`). `ReplacedPaths` shows that replacing a component
changes no path, by mapping sets closed against the edges both ways; that
`next_vertex_id` is new, and was never the number of an input vertex, needs a maximum in every finite set (`FirstOfFinite`).

**clean_graph, leaves.** Of the edges between two vertices the one with the least number stays (`FirstEdge`), so paths stay
(`CleanPaths`), and a vertex has no edge left just if all its edges in the collapsed graph
were loops, that is, if no edge of the input leaves what it stands for (`LeftByEdges`).

### The older search

Assumptions: `ProgramsAssumption` (a step leads to a configuration; a racer that
yields stays, one that exits goes, nobody else's state of running changes) and
`TellingAssumption`, which says what "telling" means, and which TLC evaluates on all programs of `legacy`. `TypeCorrect` and
`NormKeepsItems` are about all programs and paths, the others about telling programs.
Programs may have any number of racers and infinitely many configurations.

**Normal forms.** `Walk` of the folded path is built by `Join`, which is
associative. Call a walk a loop at some point if it begins and ends with the item
walked last and has only items walked before (`Again`). One `Turn` of `put` either
leaves out a loop at the end, or turns `s`, `r` and then a loop at the end of `s` into
the same with the loop also walked before `r`: that is what a cycle, which begins and
ends with its head, adds. So a set of walks that is closed under these two
changes (`Keeps`) contains the walk of the tree with the node still to be put if it contains the
walk before (`TurnStands`, and `PutStands` by the number of items, which falls with
each turn that goes on). `NormKeeps` is the consequence: if the parts of a path are in
such sets, item for item, its normal form is in the last. It is used twice. For
`NormKeepsItems` the sets are the walks with the same first, last and set of items. For
`NormLeads` they are the walks of a telling program that lead to one configuration:
a loop leads back to where it began (`LoopLeadsBack`). Its items have been seen before on the
run, so none of them is one that is passed once (`LeadsDone`, `SeenAgain`); all are recurring,
and leave `Kept` as it is (`LeadsLastKept`). Its last item is also the one seen where it began, with the
same `Kept`, so it leads to the same configuration (`MoveTells`).

**The search.** The inductive invariant is `QueueInv`, the type of the queue and of the
last result, and `Expanded`: for every path that has left the queue with racers
running, each extension of its normal form has been queued. TLC found no violation of it
on the instances of `legacy` before it was proved. `Expanded` is what `EveryStepExecuted`
needs and does not say itself: when the queue is empty, the extension by a
racer has been queued, and by `NormLeads` it is run in the configuration the
path had led to.

`SearchIsComplete` follows by induction along any path of racers: if the last step
was run in the configuration it is taken in, by some visited path, that path leads
where this one does, and then every racer running there has been run there.

### Only model-checked

Liveness (`CallsReturn`, `ThreadComesBack`, `LabelsAwaited`, `CallerComesBack`,
`ThreadsEnd`, `AnalysisEnds`, `SearchEnds`), which is out of the prover's reach as
ENABLED is; `EveryStepExecuted` on programs that are not telling, where it is a fact about the programs of the run and no theorem;
`spanning_tree`; the tests' counts (`TestCounts`); the runs that end in violations.


## Not modelled, and the plan

* `TraceYield` and the thread-local yield function: a table of labels and a
  variable per thread. The yield function is in the thread's `FunYield`; that `get_label` may
  give one label to two lines if a `TraceYield` is shared by threads is not
  modelled, no code of the repository shares one.
* `ExecutionState`: a state is an opaque value; equality and hash over labels that
  are exceptions are not modelled.
* `Graph.subset`, `union`, `edge_next_id`, `hierholzer`, `dfs`, `Root.merge_cycle`
  and `collapse_cycles` after its `break`: no code calls or reaches them.
* `collect_cycles_dict`, Graphviz output and label rendering: formatting.
* Programs outside a Visitor's hypotheses (nondeterministic steps, several
  initial configurations, labels that hide the configuration) are covered by the
  theorem `VisitorProofs!Refinement`, whose claim that every edge recorded is a
  step that was taken holds for all programs, and by `visitor_hidden`. A search of
  them need not end, so that TLC cannot exhaust it.
* Several clients of one RemoteGenerator are in the model, and in the theorems of
  `RemoteProofs`, but not in the runs; threads that share a ThreadGenerator are in
  neither. The repository uses neither.
* Pickling of tracebacks; the examples (programs under test with Django or
  PostgreSQL).
* The linearizer, as long as it cannot send a packet.

What could come next is a composition of Visitor and Execution in which a program's
steps are phases of `Execution.next`.
