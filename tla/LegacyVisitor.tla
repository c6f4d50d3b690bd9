--------------------------- MODULE LegacyVisitor ---------------------------
(***************************************************************************)
(* The older search (race/abstract.py).  It keeps no states: it runs every  *)
(* path of racers it has not run before on a fresh instance, and goes on    *)
(* from the paths that left a racer running.  What keeps it finite on       *)
(* programs that loop is the normal form of a path: steps that come back    *)
(* to a racer's label are a cycle, and a cycle is walked once.              *)
(***************************************************************************)
EXTENDS CyclePath

CONSTANTS
    Programs,     \* the programs under test
    Telling,      \* those whose labels tell where a repeated step leads
    Count(_),     \* Instantiator.count: the racers are 0 .. Count(P) - 1
    Conf(_),      \* the configurations of a program
    Start(_),     \* the configuration of a fresh instance
    Step(_, _, _),\* what a racer's next() does in a configuration: a record of
                  \* kind ("yield", "exit", "raise", or "none" when it has
                  \* exited), to (the configuration after) and payload (the
                  \* label, or NoPayload)
    Recurring(_), \* of a telling program, the steps a run may come to again, as
                  \* pairs of racer and label
    Done(_, _),   \* the other ones, those a run has behind it
    Kept(_, _)    \* the part of a configuration that recurring steps leave alone

CONSTANTS NoPayload, NoResult

RunningIn(P, c) == {p \in 0 .. Count(P) - 1 : Step(P, c, p).kind # "none"}

\* A generator goes on until it exits, and nobody else can end it.
ASSUME ProgramsAssumption ==
    \A P \in Programs :
        /\ Count(P) \in Nat
        /\ Start(P) \in Conf(P)
        /\ \A c \in Conf(P), p \in 0 .. Count(P) - 1 :
              LET step == Step(P, c, p)
              IN /\ step.kind \in {"yield", "exit", "raise", "none"}
                 /\ step.to \in Conf(P)
                 /\ step.kind = "yield" => RunningIn(P, step.to) = RunningIn(P, c)
                 /\ step.kind = "exit" => RunningIn(P, step.to) = RunningIn(P, c) \ {p}

\* Label.__eq__: an empty label equals itself only (n is its place in the
\* path), exit labels equal each other.
Label(step, n) ==
    CASE step.kind = "exit" -> [exit |-> TRUE]
      [] step.kind = "yield" /\ step.payload = NoPayload -> [empty |-> n]
      [] step.kind = "yield" /\ step.payload # NoPayload -> [payload |-> step.payload]

\* What a racer of a telling program is seen to do again, as in a loop that
\* waits, leads where it led before, as long as nothing has changed that such
\* steps leave alone.  What is not recurring is seen once on a run.
ASSUME TellingAssumption ==
    /\ Telling \subseteq Programs
    /\ \A P \in Telling : \A c \in Conf(P), p \in 0 .. Count(P) - 1 :
          LET s == Step(P, c, p)
              v == <<p, Label(s, 0)>>
          IN /\ s.kind = "yield" => s.payload # NoPayload
             /\ s.kind \in {"yield", "exit"} =>
                   /\ v \notin Done(P, c)
                   /\ v \notin Recurring(P) => Done(P, s.to) = Done(P, c) \cup {v}
                   /\ v \in Recurring(P) =>
                        /\ s.kind = "yield"
                        /\ Done(P, s.to) = Done(P, c) /\ Kept(P, s.to) = Kept(P, c)
                        /\ \A d \in Conf(P) :
                              LET t == Step(P, d, p)
                              IN /\ t.kind = "yield" /\ t.payload = s.payload
                                 /\ Kept(P, d) = Kept(P, c)
                                 => t.to = s.to

VARIABLES
    prog,         \* Visitor.races
    depth_first,
    visited,      \* the paths ever queued
    queue,
    result        \* the ExecuteResult that next() returned last

vars == <<prog, depth_first, visited, queue, result>>

Racers == 0 .. Count(prog) - 1
Running(c) == RunningIn(prog, c)

\* Race.execute_cls, one item of the path, while nothing has been thrown.
Resume(res, p) ==
    LET step == Step(prog, res.conf, p)
    IN IF res.kind # "NotExited" THEN res
       ELSE CASE step.kind = "none" -> [res EXCEPT !.kind = "TooEarly"]
              [] step.kind = "raise" -> [res EXCEPT !.kind = "Raised"]
              [] step.kind \in {"yield", "exit"} ->
                    [res EXCEPT !.conf = step.to,
                                !.labels = Append(@, Label(step, Len(@) + 1))]

\* The path followed as far as it goes.
Followed(path) ==
    LET run[n \in 0 .. Len(path)] ==
            IF n = 0
            THEN [kind |-> "NotExited", conf |-> Start(prog), labels |-> <<>>, path |-> path]
            ELSE Resume(run[n - 1], path[n])
    IN run[Len(path)]

\* A bug one could write: a race is over as soon as one of its racers is.
ExecuteFirst(path) ==
    LET res == Followed(path)
    IN IF res.kind = "NotExited" /\ Running(res.conf) # Racers
       THEN [res EXCEPT !.kind = "Returned"] ELSE res

\* Race.execute on a fresh instance: labels and error, or what was returned.
Execute(path) ==
    LET res == Followed(path)
    IN IF res.kind = "NotExited" /\ Running(res.conf) = {}
       THEN [res EXCEPT !.kind = "Returned"] ELSE res

\* A bug one could write: the items of a path are told apart by label only.
NormPathByLabel(path, labels) ==
    LET walk == Norm([i \in DOMAIN path |-> <<labels[i], labels[i]>>])
        place(label) == Min({i \in DOMAIN labels : labels[i] = label})
    IN [i \in DOMAIN walk |-> path[place(walk[i][1])]]

\* What tells the items of a path apart: racer and label.
Items(path, labels) == [i \in DOMAIN path |-> <<path[i], labels[i]>>]

NormPath(path, labels) ==
    LET walk == Norm(Items(path, labels)) IN [i \in DOMAIN walk |-> walk[i][1]]

\* A bug one could write: what is visited is pushed again.
SubpathsAgain(path) == [i \in 1 .. Count(prog) |-> Append(path, i - 1)]

\* Visitor._push_paths: the path with one more step of each racer.
Subpaths(path) ==
    LET new[n \in 0 .. Count(prog)] ==
            IF n = 0 THEN <<>>
            ELSE IF Append(path, n - 1) \in visited THEN new[n - 1]
            ELSE Append(new[n - 1], Append(path, n - 1))
    IN new[Count(prog)]

\* appendleft one by one, or append.
Queued(subpaths, rest) ==
    IF depth_first THEN Reverse(subpaths) \o rest ELSE rest \o subpaths

PushPaths(path, rest) ==
    /\ visited' = visited \cup Range(Subpaths(path))
    /\ queue' = Queued(Subpaths(path), rest)

\* A bug one could write: a path that cannot be followed is tried again later.
RestRetried(res) ==
    IF res.kind = "TooEarly" THEN Append(Tail(queue), res.path) ELSE Tail(queue)

\* What is left of the queue once its head was executed.
Rest(res) == Tail(queue)

Init ==
    /\ prog \in Programs
    /\ depth_first \in BOOLEAN
    /\ visited = {<<p>> : p \in Racers}
    /\ queue = Queued([i \in 1 .. Count(prog) |-> <<i - 1>>], <<>>)
    /\ result = NoResult

\* Visitor.__next__; on an empty queue it raises StopIteration.
Next ==
    /\ queue # <<>>
    /\ LET res == Execute(Head(queue))
       IN /\ result' = res
          /\ IF res.kind = "NotExited"
             THEN PushPaths(NormPath(res.path, res.labels), Rest(res))
             ELSE queue' = Rest(res) /\ UNCHANGED visited
    /\ UNCHANGED <<prog, depth_first>>

\* Whoever iterates over the Visitor goes on until it stops.  This is
\* WF_vars(Next), with what ENABLED Next is: computing it runs every path again.
Spec == Init /\ [][Next]_vars /\ ([]<>(queue = <<>>) \/ []<><<TRUE>>_vars)

(***************************************************************************)
(* Properties.                                                              *)
(***************************************************************************)

\* The queue holds no path twice and none that was executed; every label of an
\* execution that went through belongs to an item of the path.
TypeOK ==
    /\ prog \in Programs /\ depth_first \in BOOLEAN
    /\ visited \subseteq Seq(Racers) \ {<<>>}
    /\ Range(queue) \subseteq visited /\ Cardinality(Range(queue)) = Len(queue)
    /\ result # NoResult =>
        /\ result.kind \in {"Returned", "NotExited", "TooEarly", "Raised"}
        /\ result.path \in visited /\ result.path \notin Range(queue)
        /\ result.kind \in {"Returned", "NotExited"} => Len(result.labels) = Len(result.path)

\* norm_path removes cycles and nothing else ("remove cycles from the path",
\* race/abstract.py:290): on a telling program, the path it gives leads a fresh
\* instance to where the given path has led.
CyclesOnly ==
    result # NoResult /\ result.kind = "NotExited" /\ prog \in Telling =>
        LET again == Execute(NormPath(result.path, result.labels))
        IN again.kind = "NotExited" /\ again.conf = result.conf

\* Racer p has been run in configuration c.
IsExecuted(c, p) ==
    \E path \in visited :
        /\ Last(path) = p
        /\ Followed(Front(path)).kind = "NotExited" /\ Followed(Front(path)).conf = c

\* However much of a path norm_path removes and however early a path is taken
\* for visited, no step of the program is left out of a search that has ended:
\* each racer has been run in the configuration a program starts from and, if
\* it runs there, in each one that a racer's step has led to.
EveryStepExecuted ==
    queue = <<>> =>
        /\ \A p \in Racers : IsExecuted(Start(prog), p)
        /\ \A path \in visited :
              LET res == Execute(path)
              IN res.kind = "NotExited" => \A p \in Running(res.conf) : IsExecuted(res.conf, p)

\* A search of a program that loops comes to an end.
SearchEnds == <>(queue = <<>>)
=============================================================================
