----------------------------- MODULE Execution -----------------------------
(***************************************************************************)
(* race2.abstract.Execution: one instance of the program under test, a     *)
(* table of generators and the label each last yielded.                    *)
(*                                                                         *)
(* next(p) hands control to user code up to four times: in the body of the *)
(* generator, in handle_step, in the handler registered for the process    *)
(* when its generator has ended, and in handle_terminate when no process   *)
(* is left.  Each of them may call add_process and rename_process on the   *)
(* same Execution, which is how programs with retries are written, with    *)
(* any ids, and may raise.  So next() is a sequence of phases here, and    *)
(* what user code does are actions of their own between them.              *)
(***************************************************************************)
EXTENDS Naturals, Sequences, FiniteSets

CONSTANTS
    PID,        \* process ids
    Gen,        \* generators; each is added at most once, with its own handler
    None,       \* next is not running
    Drivers     \* how an Execution may be driven

ASSUME NoneAssumption == None \notin PID \cup Gen
ASSUME DriverAssumption ==
    Drivers \subseteq
        [by : {"visitor", "run"},   \* next_sub or run
         steps : Nat]       \* bound: calls of next

VARIABLES
    curr_processes,             \* process id -> generator
    states,                     \* process id -> label (_curr_state)
    handle_terminate_process,   \* process id -> generator whose handler it is
    rtn,                        \* process id -> generator whose result it is
    curr_path,
    phase,      \* whose code runs: the factory ("setup"), the driver ("idle",
                \* "stopping"), or user code within next; or why none does
    current,    \* next's argument
    running,    \* the generator next has resumed
    ended,      \* next's local flag handle_terminate_process
    driver,     \* fixed at the start
    life,       \* what became of each generator
    handler,    \* what became of the handler each generator was added with
    teardowns,  \* calls of handle_terminate
    mishaps     \* what user code has done that the code makes no sense of

tables == <<curr_processes, states, handle_terminate_process, rtn>>
control == <<curr_path, phase, current, running, ended, driver>>
history == <<life, handler, teardowns, mishaps>>
vars == <<tables, control, history>>

Labels == {"Entry", "yielded", "Terminated", "raised"}
Lives == {"new", "live", "returned", "raised", "stopped"}
Handlers == {"none", "filed", "called", "overwritten"}

\* astray: next records a step under an id that the generator it resumed no
\*     longer has: the body has renamed its own process;
\* half: a body goes on after rename_process has failed half-way;
\* revive: handle_terminate adds a process.
Mishaps == {"astray", "half", "revive"}

PartialFun(S, T) == UNION {[D -> T] : D \in SUBSET S}

TypeOK ==
    /\ curr_processes \in PartialFun(PID, Gen)
    /\ states \in PartialFun(PID, Labels)
    /\ handle_terminate_process \in PartialFun(PID, Gen)
    /\ rtn \in PartialFun(PID, Gen)
    /\ curr_path \in Seq(PID)
    /\ phase \in {"setup", "idle", "body", "step", "terminate", "teardown",
                  "stopping", "done", "crashed"}
    /\ current \in PID \cup {None}
    /\ running \in Gen \cup {None}
    /\ ended \in BOOLEAN
    /\ driver \in Drivers
    /\ life \in [Gen -> Lives]
    /\ handler \in [Gen -> Handlers]
    /\ teardowns \in Nat
    /\ mishaps \subseteq Mishaps

-----------------------------------------------------------------------------
available_processes == DOMAIN curr_processes

\* f[x] = v
Put(f, x, v) == [y \in DOMAIN f \cup {x} |-> IF y = x THEN v ELSE f[y]]

\* f[b] = f.pop(a)
Rename(f, a, b) ==
    [y \in (DOMAIN f \ {a}) \cup {b} |-> IF y = b THEN f[a] ELSE f[y]]

KeepKey(f, a) == f                        \* mutant: no del

\* del f[a]
Drop(f, a) == [y \in DOMAIN f \ {a} |-> f[y]]

InUserCode == phase \in {"setup", "body", "step", "terminate", "teardown"}

\* An exception raised by add_process or rename_process: the body of a generator
\* may handle it; from a callback or the factory it goes up to the driver.
Raise == phase' = IF phase = "body" THEN "body" ELSE "crashed"

\* The entry p of the handlers is about to be overwritten, if there is one.
Overwritten(p) ==
    IF p \in DOMAIN handle_terminate_process
    THEN [handler EXCEPT ![handle_terminate_process[p]] = "overwritten"]
    ELSE handler

Init ==
    /\ curr_processes = <<>>
    /\ states = <<>>
    /\ handle_terminate_process = <<>>
    /\ rtn = <<>>
    /\ curr_path = <<>>
    /\ phase = "setup"
    /\ current = None /\ running = None /\ ended = FALSE
    /\ driver \in Drivers
    /\ life = [g \in Gen |-> "new"]
    /\ handler = [g \in Gen |-> "none"]
    /\ teardowns = 0
    /\ mishaps = {}

\* A process handed to the constructor has neither a label nor a handler.
Construct(p, g) ==
    /\ phase = "setup" /\ states = <<>>
    /\ life[g] = "new" /\ p \notin available_processes
    /\ curr_processes' = Put(curr_processes, p, g)
    /\ life' = [life EXCEPT ![g] = "live"]
    /\ UNCHANGED <<states, handle_terminate_process, rtn, control, handler,
                   teardowns, mishaps>>

add_process(p, g) ==
    /\ InUserCode
    /\ life[g] = "new"
    /\ IF p \in available_processes
       THEN /\ Raise
            /\ UNCHANGED <<tables, history>>
       ELSE /\ curr_processes' = Put(curr_processes, p, g)
            /\ states' = Put(states, p, "Entry")
            /\ handle_terminate_process' = Put(handle_terminate_process, p, g)
            /\ life' = [life EXCEPT ![g] = "live"]
            /\ handler' = [Overwritten(p) EXCEPT ![g] = "filed"]
            /\ mishaps' = IF phase = "teardown" THEN mishaps \cup {"revive"}
                          ELSE mishaps
            /\ UNCHANGED <<rtn, phase, teardowns>>
    /\ UNCHANGED <<curr_path, current, running, ended, driver>>

\* A process handed to the constructor has no handler, nor a label before it has
\* run: renaming it raises a KeyError after its generator has been moved.
rename_process(a, b) ==
    /\ InUserCode /\ phase # "setup"
    /\ LET live == a \in available_processes
           taken == b \in available_processes
           unhandled == live /\ a \notin DOMAIN handle_terminate_process
           fails == taken \/ unhandled \/ a \notin DOMAIN states
       IN  /\ curr_processes' = IF live /\ ~taken
                                THEN Rename(curr_processes, a, b)
                                ELSE curr_processes
           /\ IF live /\ ~taken /\ ~unhandled
              THEN /\ handle_terminate_process' =
                        Rename(handle_terminate_process, a, b)
                   /\ handler' = Overwritten(b)
              ELSE UNCHANGED <<handle_terminate_process, handler>>
           /\ states' = IF fails THEN states ELSE Rename(states, a, b)
           /\ IF fails THEN Raise ELSE UNCHANGED phase
           /\ mishaps' = IF live /\ ~taken /\ fails THEN mishaps \cup {"half"}
                         ELSE mishaps
    /\ UNCHANGED <<rtn, curr_path, current, running, ended, driver, life, teardowns>>

\* User code raises: a callback or the factory anything, a generator what is no
\* Exception (line 127 catches no other).  Nothing of the step is recorded.
Escape ==
    /\ InUserCode
    /\ phase' = "crashed"
    /\ life' = IF phase = "body" THEN [life EXCEPT ![running] = "raised"] ELSE life
    /\ UNCHANGED <<tables, curr_path, current, running, ended, driver, handler,
                   teardowns, mishaps>>

\* The factory returns the Execution.
Ready ==
    /\ phase = "setup"
    /\ phase' = "idle"
    /\ UNCHANGED <<tables, curr_path, current, running, ended, driver, history>>

-----------------------------------------------------------------------------
(* next                                                                    *)

Resume(p) ==
    /\ phase = "idle"
    /\ Len(curr_path) < driver.steps
    /\ p \in available_processes
    /\ phase' = "body"
    /\ current' = p
    /\ running' = curr_processes[p]
    /\ UNCHANGED <<tables, curr_path, ended, driver, history>>

\* run() passes whatever ids it was given; the Visitor picks available ones.
ResumeUnavailable(p) ==
    /\ phase = "idle" /\ driver.by = "run"
    /\ p \notin available_processes
    /\ phase' = "crashed"
    /\ UNCHANGED <<tables, curr_path, current, running, ended, driver, history>>

RecordGenerator(label) ==                 \* mutant
    /\ curr_path' = Append(curr_path, running)
    /\ states' = Put(states, current, label)
    /\ phase' = "step"

\* What next records of the step, whatever its outcome, before handle_step.
Record(label) ==
    /\ curr_path' = Append(curr_path, current)
    /\ states' = Put(states, current, label)
    /\ phase' = "step"

\* The generator that next has resumed still has the id it was resumed under.
InPlace ==
    current \in available_processes /\ curr_processes[current] = running

Noted == IF InPlace THEN mishaps ELSE mishaps \cup {"astray"}

Yield ==
    /\ phase = "body"
    /\ Record("yielded")
    /\ mishaps' = Noted
    /\ UNCHANGED <<curr_processes, handle_terminate_process, rtn, current,
                   running, ended, driver, life, handler, teardowns>>

\* The generator returns or raises: its result is recorded and what is filed
\* under its id leaves the table, a KeyError if there is nothing.
End(label, fate) ==
    /\ phase = "body"
    /\ rtn' = Put(rtn, current, running)
    /\ life' = [life EXCEPT ![running] = fate]
    /\ mishaps' = Noted
    /\ IF current \in available_processes
       THEN /\ curr_processes' = Drop(curr_processes, current)
            /\ ended' = TRUE
            /\ Record(label)
       ELSE /\ phase' = "crashed"
            /\ UNCHANGED <<curr_processes, states, ended, curr_path>>
    /\ UNCHANGED <<handle_terminate_process, current, running, driver, handler,
                   teardowns>>

\* The end of next: handle_terminate once no process is left.
Finish ==
    IF available_processes = {}
    THEN phase' = "teardown" /\ teardowns' = teardowns + 1
    ELSE phase' = "idle" /\ UNCHANGED teardowns

LeaveEnded ==       \* mutant: the flag outlives the call
    Finish /\ current' = None /\ running' = None /\ ended' = ended

Leave == Finish /\ current' = None /\ running' = None /\ ended' = FALSE

KeepHandler == handle_terminate_process   \* mutant: looked up, not popped

PopHandler == Drop(handle_terminate_process, current)

\* handle_step returns; the handler filed under the id that has ended is next.
Stepped ==
    /\ phase = "step"
    /\ IF ended /\ current \in DOMAIN handle_terminate_process
       THEN /\ phase' = "terminate"
            /\ handler' = [handler EXCEPT
                              ![handle_terminate_process[current]] = "called"]
            /\ handle_terminate_process' = PopHandler
            /\ UNCHANGED <<current, running, ended, teardowns>>
       ELSE /\ Leave
            /\ UNCHANGED <<handler, handle_terminate_process>>
    /\ UNCHANGED <<curr_processes, states, rtn, curr_path, driver, life, mishaps>>

\* The handler of the process returns.
Handled ==
    /\ phase = "terminate"
    /\ Leave
    /\ UNCHANGED <<tables, curr_path, driver, life, handler, mishaps>>

\* handle_terminate returns.
TornDown ==
    /\ phase = "teardown"
    /\ phase' = "idle"
    /\ UNCHANGED <<tables, curr_path, current, running, ended, driver, history>>

-----------------------------------------------------------------------------
(* The drivers.  handle_terminate, called by stop() or run(), is the last  *)
(* that happens to an Execution: what it does to it then is of no account. *)

\* next_sub stops an Execution it does not run to the end.
Stop ==
    /\ phase = "idle" /\ driver.by = "visitor"
    /\ available_processes # {}
    /\ phase' = "stopping"
    /\ UNCHANGED <<tables, curr_path, current, running, ended, driver, history>>

\* stop() throws Stop into a generator.  It loops over curr_processes, which it
\* empties only at the end; the model drops each generator as it ends.
Throw(p) ==
    /\ phase = "stopping"
    /\ p \in available_processes
    /\ life' = [life EXCEPT ![curr_processes[p]] = "stopped"]
    /\ curr_processes' = Drop(curr_processes, p)
    /\ UNCHANGED <<states, handle_terminate_process, rtn, control, handler,
                   teardowns, mishaps>>

\* The generator answers Stop with a yield, a return or another exception, and
\* stop() gives up with what comes of it.
ThrowFails(p) ==
    /\ phase = "stopping"
    /\ p \in available_processes
    /\ phase' = "crashed"
    /\ UNCHANGED <<tables, curr_path, current, running, ended, driver, history>>

Stopped ==
    /\ phase = "stopping"
    /\ available_processes = {}
    /\ phase' = "done"
    /\ teardowns' = teardowns + 1
    /\ UNCHANGED <<tables, curr_path, current, running, ended, driver, life,
                   handler, mishaps>>

ExhaustStops ==     \* mutant: stop() in any case
    /\ phase = "idle" /\ driver.by = "visitor"
    /\ available_processes = {}
    /\ phase' = "done"
    /\ teardowns' = teardowns + 1
    /\ UNCHANGED <<tables, curr_path, current, running, ended, driver, life,
                   handler, mishaps>>

\* next_sub drops an Execution with no process left.
Exhaust ==
    /\ phase = "idle" /\ driver.by = "visitor"
    /\ available_processes = {}
    /\ phase' = "done"
    /\ UNCHANGED <<tables, curr_path, current, running, ended, driver, history>>

\* run(items) ends, after its last item or by an exception: its finally block.
RunEnds ==
    /\ phase \in {"idle", "crashed"} /\ driver.by = "run"
    /\ phase' = "done"
    /\ teardowns' = teardowns + 1
    /\ UNCHANGED <<tables, curr_path, current, running, ended, driver, life,
                   handler, mishaps>>

Over == phase \in {"done", "crashed"} /\ UNCHANGED vars

Next ==
    \/ \E p \in PID, g \in Gen : Construct(p, g) \/ add_process(p, g)
    \/ \E a, b \in PID : rename_process(a, b)
    \/ Escape
    \/ Ready
    \/ \E p \in PID : Resume(p) \/ ResumeUnavailable(p)
    \/ Yield
    \/ End("Terminated", "returned")
    \/ End("raised", "raised")
    \/ Stepped
    \/ Handled
    \/ TornDown
    \/ Stop
    \/ \E p \in PID : Throw(p) \/ ThrowFails(p)
    \/ Stopped
    \/ Exhaust
    \/ RunEnds
    \/ Over

Spec == Init /\ [][Next]_vars

-----------------------------------------------------------------------------
(* Properties.                                                             *)

\* Handlers stay with their generators: whatever is renamed and re-used, before
\* and after each call of user code but handle_step the handler filed under an id
\* is that of the live process with the id, and none is lost from the table: it
\* is there until it is called or, in handle_step, overwritten.  Programs with
\* retries rely on it: each retry's handler cleans up after that retry
\* (abstract.py:50-92, 115, 137-141).
HandlerOwnership ==
    "astray" \notin mishaps /\ phase \in {"idle", "body", "terminate", "teardown"} =>
        /\ \A p \in DOMAIN handle_terminate_process :
              /\ p \in available_processes
              /\ handle_terminate_process[p] = curr_processes[p]
        /\ \A g \in Gen : handler[g] = "filed" =>
              \E p \in DOMAIN handle_terminate_process :
                 handle_terminate_process[p] = g

\* A handler is called at most once, in the call of next in which its generator
\* ends; or, if handle_step has given the id that ended to another process, in
\* place of the handler that this has overwritten, with that process still
\* running (abstract.py:135-141).  An overwritten handler is never called.
Calls(g) == handler[g] # "called" /\ handler'[g] = "called"

HandlersFireOnce ==
    [][\A g \in Gen : Calls(g) =>
          /\ handler[g] = "filed"
          /\ "astray" \notin mishaps =>
                IF current \in available_processes
                THEN g = curr_processes[current] /\ handler[running] # "filed"
                ELSE g = running /\ life[g] \in {"returned", "raised"}]_vars

\* Between steps the labels tell the live processes from the ended ones: a
\* Visitor's state never shows a process as terminated that can still run, nor
\* as waiting at a yield one that has ended (abstract.py:61-98, 105-135).
LabelsTellLiveness ==
    mishaps \cap {"astray", "half"} = {} /\ phase = "idle" =>
        \A p \in DOMAIN states :
            states[p] \in {"Entry", "yielded"} <=> p \in available_processes

\* handle_terminate frees what the processes share, so a Visitor's Execution
\* calls it exactly once, when no generator can run any more
\* (abstract.py:143-157, 376-377), unless it adds a process itself.
TornDownOnce ==
    driver.by = "visitor" /\ "revive" \notin mishaps =>
        /\ teardowns <= 1
        /\ phase = "done" /\ curr_path # <<>> => teardowns = 1
        /\ teardowns > 0 /\ "astray" \notin mishaps =>
              \A g \in Gen : life[g] # "live"
=============================================================================
