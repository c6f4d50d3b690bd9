------------------------------ MODULE MCLegacy ------------------------------
(* Small programs over one shared datum, and the programs of               *)
(* race_tests/test_search.py.                                               *)
EXTENDS LegacyVisitor, TLC

(***************************************************************************)
(* A racer of a small program looks at the datum and yields, exits or       *)
(* raises, leaving a datum behind.  Its label is the datum, or always the   *)
(* same.  Left out are the programs of two racers in which nobody ever ends  *)
(* and somebody alternates, and the one of three racers in which nobody     *)
(* ends: their normal forms run into the tens of thousands.                 *)
(***************************************************************************)
Does(data) == ({"yield", "exit"} \X data) \cup {<<"raise", 0>>}
Alternates(racer) == racer[0][2] = 1 /\ racer[1][2] = 0

Small ==
    {P \in [name : {"small"}, telling : BOOLEAN, count : {2},
            does : [0 .. 1 -> [{0, 1} -> Does({0, 1})]]] :
        ~ /\ \A p, d \in {0, 1} : P.does[p][d][1] = "yield"
          /\ \E p \in {0, 1} : Alternates(P.does[p])}
    \cup
    {P \in [name : {"small"}, telling : {TRUE}, count : {3},
            does : [0 .. 2 -> [{0} -> Does({0})]]] :
        \E p \in 0 .. 2 : P.does[p][0][1] # "yield"}

Tests == [name : {"counter", "cas", "deadlock"}, telling : {FALSE},
          count : {2}, does : {<<>>}]

MCPrograms == Small \cup Tests
MCTelling == {P \in Small : P.telling} \cup Tests
MCCount(P) == P.count

Yield(payload, to) == [kind |-> "yield", to |-> to, payload |-> payload]
Exit(to) == [kind |-> "exit", to |-> to, payload |-> NoPayload]
Stay(kind, c) == [kind |-> kind, to |-> c, payload |-> NoPayload]

SmallStep(P, c, p) ==
    IF p \notin c.running THEN Stay("none", c)
    ELSE LET does == P.does[p][c.data]
         IN CASE does[1] = "raise" -> Stay("raise", c)
              [] does[1] = "yield" ->
                    Yield(IF P.telling THEN does[2] ELSE 0, [c EXCEPT !.data = does[2]])
              [] does[1] = "exit" ->
                    Exit([data |-> does[2], running |-> c.running \ {p}])

\* The tests' racers by line: at[p] is the label last yielded, x[p] a local.
TestStart == [at |-> [p \in {0, 1} |-> "start"], x |-> [p \in {0, 1} |-> 0],
              a |-> 0, lock |-> 2]

To(c, p, label) == [c EXCEPT !.at[p] = label]
Yields(c, p, label) == Yield(label, To(c, p, label))

CounterStep(c, p) ==
    CASE c.at[p] = "start" -> Yields([c EXCEPT !.x[p] = c.a], p, "A")
      [] c.at[p] = "A" -> Yields([c EXCEPT !.a = c.x[p] + 1], p, "B")
      [] c.at[p] = "B" -> Exit(To([c EXCEPT !.x[p] = c.a], p, "end"))
      [] c.at[p] = "end" -> Stay("none", c)

CasStep(c, p) ==
    CASE c.at[p] = "start" -> Yields(c, p, "a")
      [] c.at[p] \in {"a", "b1"} ->
            IF c.lock = 2 THEN Yields([c EXCEPT !.lock = p], p, "c") ELSE Yields(c, p, "b1")
      [] c.at[p] = "c" -> Yields([c EXCEPT !.x[p] = c.a], p, "c1")
      [] c.at[p] = "c1" -> Yields([c EXCEPT !.a = c.x[p] + 1], p, "c2")
      [] c.at[p] \in {"c2", "d"} ->
            IF c.lock = p THEN Yields([c EXCEPT !.lock = 2], p, "e") ELSE Yields(c, p, "d")
      [] c.at[p] = "e" -> Exit(To([c EXCEPT !.x[p] = c.a], p, "end"))
      [] c.at[p] = "end" -> Stay("none", c)

DeadlockStep(c, p) ==
    CASE c.at[p] = "start" -> Yields(c, p, "a")
      [] c.at[p] = "a" ->
            IF c.lock = 2 THEN Yields([c EXCEPT !.lock = p], p, "b") ELSE Stay("raise", c)
      [] c.at[p] = "b" -> Yields([c EXCEPT !.lock = 2], p, "c")
      [] c.at[p] = "c" -> Exit(To(c, p, "end"))
      [] c.at[p] = "end" -> Stay("none", c)

MCStart(P) == IF P.name = "small" THEN [data |-> 0, running |-> 0 .. P.count - 1]
              ELSE TestStart

MCStep(P, c, p) ==
    CASE P.name = "small" -> SmallStep(P, c, p)
      [] P.name = "counter" -> CounterStep(c, p)
      [] P.name = "cas" -> CasStep(c, p)
      [] P.name = "deadlock" -> DeadlockStep(c, p)

\* All a small program's racers can see is the datum.  A racer of the tests gets
\* past each of its labels once, but waits for the lock at b1.
MCRecurring(P) ==
    IF P.name = "small" THEN {<<p, [payload |-> x]>> : p \in 0 .. P.count - 1, x \in {0, 1}}
    ELSE {<<p, [payload |-> "b1"]>> : p \in {0, 1}}

Passed(P, label) ==
    LET order == CASE P.name = "counter" -> <<"A", "B">>
                   [] P.name = "cas" -> <<"a", "c", "c1", "c2", "e">>
                   [] P.name = "deadlock" -> <<"a", "b", "c">>
        upto == CASE label = "start" -> 0
                  [] label = "b1" -> 1
                  [] label = "end" -> Len(order)
                  [] OTHER -> CHOOSE i \in DOMAIN order : order[i] = label
    IN {order[i] : i \in 1 .. upto}

MCDone(P, c) ==
    IF P.name = "small" THEN {<<p, [exit |-> TRUE]>> : p \in (0 .. P.count - 1) \ c.running}
    ELSE UNION {{<<p, [payload |-> x]>> : x \in Passed(P, c.at[p])}
                \cup {<<p, [exit |-> TRUE]>> : x \in {"end"} \cap {c.at[p]}} : p \in {0, 1}}

MCKept(P, c) ==
    IF P.name = "small" THEN c.running
    ELSE [c EXCEPT !.at = [p \in {0, 1} |-> IF c.at[p] = "b1" THEN "a" ELSE c.at[p]]]

RECURSIVE Closure(_, _)
Closure(P, confs) ==
    LET next == confs \cup {MCStep(P, c, p).to : c \in confs, p \in 0 .. P.count - 1}
    IN IF next = confs THEN confs ELSE Closure(P, next)

MCConf(P) == Closure(P, {MCStart(P)})

\* What test_search.py counts: scenarios that complete or raise and those that
\* do not (lines 109-117, 217-225 and 272-280), and the results that are wrong
\* (12 lost updates at lines 119-135, none under the lock at lines 212-215, 6
\* deadlocks at lines 282-292).
TestCounts ==
    queue = <<>> /\ prog \in Tests =>
        LET results == {Execute(path) : path \in visited}
            Of(kinds) == {r \in results : r.kind \in kinds}
            wrong == Of({"Raised"}) \cup
                {r \in Of({"Returned"}) : prog.name # "deadlock" /\
                                          r.conf.x[0] # 2 /\ r.conf.x[1] # 2}
        IN <<Cardinality(Of({"Returned", "Raised"})),
             Cardinality(Of({"NotExited", "TooEarly"})), Cardinality(wrong)>> =
                CASE prog.name = "counter" -> <<20, 78, 12>>
                  [] prog.name = "cas" -> <<374, 2480, 0>>
                  [] prog.name = "deadlock" -> <<40, 166, 6>>
=============================================================================
