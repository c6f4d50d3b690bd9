------------------------------ MODULE MCThread ------------------------------
(* ThreadGenerator for TLC: both generations, each with one kind of          *)
(* disturbance at a time.                                                    *)
EXTENDS ThreadGenerator

Plain(r) == [race2 |-> r, stubborn |-> FALSE, reentrant |-> FALSE, closing |-> FALSE]

MCSettings ==
    UNION {{Plain(r),
            [Plain(r) EXCEPT !.stubborn = TRUE],
            [Plain(r) EXCEPT !.reentrant = TRUE],
            [Plain(r) EXCEPT !.closing = TRUE]} : r \in BOOLEAN}

Calls == 1..2
Threads == 1..3
=============================================================================
