-------------------------- MODULE ThreadGenerator --------------------------
(***************************************************************************)
(* ThreadGenerator: a generator whose body is a function run in a thread   *)
(* of its own, which hands over a label through yield_fun_yield and waits  *)
(* for its caller.  Caller and thread talk over two unbounded queues.  The *)
(* caller's side has one thread, so at most one call runs at a time and    *)
(* the others wait at their yield.                                         *)
(*                                                                         *)
(* race.generator.thread keeps one thread for all calls.                   *)
(* race2.multiprocessing.thread replaces it, with its queues, before and   *)
(* after every call, and does not wait for the thread it abandons.         *)
(***************************************************************************)
EXTENDS Naturals, Sequences, FiniteSets

CONSTANTS
    Call,           \* calls of one ThreadGenerator
    Thread,         \* places for threads; one that has ended is used again
    None,           \* no thread, nobody
    MaxItems,       \* bound: labels a function yields
    Settings        \* what Init chooses config from

ASSUME BoundAssumption == MaxItems \in Nat
ASSUME ThreadAssumption == IsFiniteSet(Thread)
ASSUME SettingsAssumption ==
    Settings \subseteq [race2 : BOOLEAN,     \* which generation
                        stubborn : BOOLEAN,  \* functions catch BaseException
                        reentrant : BOOLEAN, \* calls while one is suspended
                        closing : BOOLEAN]   \* close() while one is suspended

VARIABLES
    config,     \* one of Settings, never changed
    active,     \* the call that has the caller's thread, or None
    pc,         \* where each call is
    received,   \* labels each call has yielded to its caller
    result,     \* how a call ended
    is_entered,
    thread,     \* the ThreadGenerator's thread, or None
    queue_out, queue_in,    \* of each thread: to it, from it
    at,         \* where each thread is: waits in "get", runs "fun", waits in "yield"
    job,        \* the call a thread serves and its next label
    async,      \* threads with a Terminate set by PyThreadState_SetAsyncExc
    lost        \* history: calls whose thread was given up while they were suspended

caller == <<active, pc, received, result, is_entered>>
remote == <<queue_in, at, job>>
vars == <<config, caller, thread, queue_out, remote, async, lost>>

Labels == [call : Call, label : Nat]
ToThread == [type : {"Call"}, call : Call]
            \cup [type : {"Yield", "Raise", "Exit", "Terminate"}]
ToCaller == [type : {"Return", "Raise", "Exit"}, call : Call]
            \cup [type : {"Yield"}, call : Call, label : Nat]
Ends == {"returned", "raised", "stopped", "closed", "ReentryError", "RemoteTimeoutError",
         "AttributeError", "AssertionError"}

ASSUME NoneAssumption == None \notin Call \cup Thread \cup Labels \cup Ends

TypeOK ==
    /\ config \in Settings
    /\ active \in Call \cup {None}
    /\ pc \in [Call -> {"new", "get", "yielded", "get exit", "ended"}]
    /\ received \in [Call -> Seq(Labels)]
    /\ result \in [Call -> Ends \cup {None}]
    /\ is_entered \in BOOLEAN
    /\ thread \in Thread \cup {None}
    /\ queue_out \in [Thread -> Seq(ToThread)]
    /\ queue_in \in [Thread -> Seq(ToCaller)]
    /\ at \in [Thread -> {"get", "fun", "yield", "ended"}]
    /\ job \in [Thread -> Labels \cup {None}]
    /\ async \subseteq Thread
    /\ lost \subseteq Call

Init ==
    /\ config \in Settings
    /\ active = None
    /\ pc = [c \in Call |-> "new"]
    /\ received = [c \in Call |-> <<>>]
    /\ result = [c \in Call |-> None]
    /\ is_entered = FALSE
    /\ thread = None
    /\ queue_out = [t \in Thread |-> <<>>]
    /\ queue_in = [t \in Thread |-> <<>>]
    /\ at = [t \in Thread |-> "ended"]
    /\ job = [t \in Thread |-> None]
    /\ async = {}
    /\ lost = {}

Suspended == {c \in Call : pc[c] = "yielded"}
Free == {t \in Thread : at[t] = "ended" /\ t # thread}
Abandoned == {t \in Thread : at[t] # "ended" /\ t # thread}

\* Bound: a call begins, or the generator is opened, while there are places for
\* the n threads this takes and for the one that ends a suspended call.
Room(n) == Cardinality(Free) >= n + Cardinality(Suspended)

Go(c, where) == pc' = [pc EXCEPT ![c] = where]

FinishOnReturn(c, how) ==                 \* mutant: not in a finally block
    /\ Go(c, "ended")
    /\ result' = [result EXCEPT ![c] = how]
    /\ active' = None
    /\ is_entered' = (is_entered /\ how # "returned")

\* The end of the generator, through its finally block.
Finish(c, how) ==
    /\ Go(c, "ended")
    /\ result' = [result EXCEPT ![c] = how]
    /\ active' = None
    /\ is_entered' = FALSE

\* A call that is refused before its try block.
Refuse(c, how) ==
    /\ Go(c, "ended")
    /\ result' = [result EXCEPT ![c] = how]
    /\ UNCHANGED <<active, is_entered>>

NoFarewell == <<>>                        \* mutant: trusts the exception alone

\* What thread_destruct puts last in the queue of the thread it gives up.
Farewell == <<[type |-> "Terminate"]>>

\* thread_destruct after the messages msgs: the queues are dropped, and the
\* thread is left to find the Terminate or be hit by the exception.
Destructed(msgs) ==
    [t \in Thread |-> IF t = thread /\ at[t] # "ended"
                      THEN queue_out[t] \o msgs \o Farewell ELSE queue_out[t]]

Interrupted == async \cup {t \in Thread \cap {thread} : at[t] # "ended"}

\* thread_restart between putting before to the old thread and after to the new
\* one, which waits on two new queues.
Restart(before, after) ==
    /\ LET new == CHOOSE t \in Free : TRUE
       IN  /\ thread' = new
           /\ queue_out' = [Destructed(before) EXCEPT ![new] = after]
           /\ queue_in' = [t \in Thread |->
                            IF t \in {thread, new} THEN <<>> ELSE queue_in[t]]
           /\ at' = [at EXCEPT ![new] = "get"]
           /\ job' = [job EXCEPT ![new] = None]
    /\ async' = Interrupted

\* The thread a suspended call waits for is given up.
Lose == lost' = lost \cup Suspended

\* No restart: msgs are put to the thread there is, which may have ended.
Put(msgs) ==
    /\ queue_out' = [queue_out EXCEPT ![thread] = @ \o msgs]
    /\ UNCHANGED <<thread, async, remote>>

\* The end of a call in race2; in race the packet is taken and that is all.
Leave ==
    IF config.race2 THEN Restart(<<>>, <<>>)
    ELSE /\ queue_in' = [queue_in EXCEPT ![thread] = Tail(@)]
         /\ UNCHANGED <<thread, queue_out, async, at, job>>

-----------------------------------------------------------------------------
(* The caller.                                                             *)

NeverBusy == FALSE                        \* mutant

\* Another call is on its way.
Busy == is_entered

\* The caller's first next() on the generator.  race2 restarts the thread
\* before it looks whether a call is running.
Start(c) ==
    /\ active = None /\ pc[c] = "new"
    /\ config.reentrant \/ Suspended = {}
    /\ Room(IF ~config.race2 THEN 0 ELSE IF Busy THEN 1 ELSE 2)
    /\ IF Busy \/ (thread = None /\ ~config.race2)
       THEN /\ Refuse(c, IF config.race2 \/ thread # None
                         THEN "ReentryError" ELSE "AssertionError")
            /\ IF config.race2 THEN Restart(<<>>, <<>>) /\ Lose
               ELSE UNCHANGED <<thread, queue_out, async, remote, lost>>
       ELSE /\ is_entered' = TRUE
            /\ active' = c
            /\ Go(c, "get")
            /\ UNCHANGED <<result, lost>>
            /\ LET call == <<[type |-> "Call", call |-> c]>>
               IN  IF config.race2 THEN Restart(<<>>, call) ELSE Put(call)
    /\ UNCHANGED <<config, received>>

GetYield(c) ==
    /\ pc[c] = "get" /\ queue_in[thread] # <<>>
    /\ LET packet == Head(queue_in[thread])
       IN  /\ packet.type = "Yield"
           /\ received' = [received EXCEPT ![c] =
                    Append(@, [call |-> packet.call, label |-> packet.label])]
    /\ queue_in' = [queue_in EXCEPT ![thread] = Tail(@)]
    /\ Go(c, "yielded")
    /\ active' = None
    /\ UNCHANGED <<config, lost, result, is_entered, thread, queue_out, at, job, async>>

GetEnd(c) ==
    /\ pc[c] = "get" /\ queue_in[thread] # <<>>
    /\ LET type == Head(queue_in[thread]).type
       IN  \/ type = "Return" /\ Finish(c, "returned")
           \/ type = "Raise" /\ Finish(c, "raised")
    /\ Leave
    /\ UNCHANGED <<config, lost, received>>

TimeoutNever(c) == FALSE /\ UNCHANGED vars    \* mutant: no time-out

TimeoutKeeps(c) ==                        \* mutant: trusts Exit, keeps the thread
    /\ config.race2
    /\ pc[c] = "get" /\ queue_in[thread] = <<>>
    /\ Put(<<[type |-> "Exit"]>>)
    /\ Finish(c, "RemoteTimeoutError")
    /\ UNCHANGED <<config, lost, received>>

\* queue_in.get(timeout=read_timeout) raises Empty; race has no time-out.
Timeout(c) ==
    /\ config.race2
    /\ pc[c] = "get" /\ queue_in[thread] = <<>>
    /\ Restart(<<[type |-> "Exit"]>>, <<>>)
    /\ Finish(c, "RemoteTimeoutError")
    /\ UNCHANGED <<config, lost, received>>

\* The caller resumes the generator: by next(), by throw() or by close().
Resume(c, type) ==
    /\ active = None /\ pc[c] = "yielded" /\ thread # None
    /\ IF type = "Raise" /\ config.race2
       THEN /\ Restart(<<[type |-> type]>>, <<>>)
            /\ Finish(c, "stopped")
       ELSE /\ Put(<<[type |-> type]>>)
            /\ active' = c
            /\ Go(c, IF type = "Exit" THEN "get exit" ELSE "get")
            /\ UNCHANGED <<result, is_entered>>
    /\ UNCHANGED <<config, lost, received>>

\* Whichever it is, it finds no queue after a close of the ThreadGenerator.
ResumeClosed(c) ==
    /\ active = None /\ pc[c] = "yielded" /\ thread = None
    /\ Finish(c, "AttributeError")
    /\ UNCHANGED <<config, lost, received, thread, queue_out, remote, async>>

\* The answer to Exit, for which there is no time-out.
GetExit(c) ==
    /\ pc[c] = "get exit" /\ queue_in[thread] # <<>>
    /\ IF Head(queue_in[thread]).type = "Exit"
       THEN Leave /\ Finish(c, "closed")
       ELSE /\ Finish(c, "AssertionError")
            /\ queue_in' = [queue_in EXCEPT ![thread] = Tail(@)]
            /\ UNCHANGED <<thread, queue_out, async, at, job>>
    /\ UNCHANGED <<config, lost, received>>

CallStep(c) == GetYield(c) \/ GetEnd(c) \/ Timeout(c) \/ GetExit(c)

\* open()
Open ==
    /\ active = None /\ thread = None
    /\ Room(1)
    /\ Restart(<<>>, <<>>)
    /\ UNCHANGED <<config, lost, caller>>

\* close()
Close ==
    /\ active = None /\ thread # None
    /\ config.closing \/ Suspended = {}
    /\ thread' = None
    /\ queue_out' = Destructed(<<>>)
    /\ async' = Interrupted
    /\ Lose
    /\ UNCHANGED <<config, caller, remote>>

-----------------------------------------------------------------------------
(* A thread.                                                               *)

\* thread_main returns: nobody reads t's queue any more, and what an abandoned
\* thread has put neither.
End(t) ==
    /\ at' = [at EXCEPT ![t] = "ended"]
    /\ job' = [job EXCEPT ![t] = None]
    /\ async' = async \ {t}
    /\ queue_in' = IF t = thread THEN queue_in ELSE [queue_in EXCEPT ![t] = <<>>]
    /\ queue_out' = [queue_out EXCEPT ![t] = <<>>]

\* What t puts and where it goes on.
Send(t, msg, where) ==
    /\ queue_in' = [queue_in EXCEPT ![t] = Append(@, msg)]
    /\ at' = [at EXCEPT ![t] = where]

Took(t) == queue_out' = [queue_out EXCEPT ![t] = Tail(@)]

\* thread_main takes a packet: a call, Terminate, or one it cannot make sense of.
MainGet(t) ==
    /\ at[t] = "get" /\ queue_out[t] # <<>>
    /\ IF Head(queue_out[t]).type = "Call"
       THEN /\ Took(t)
            /\ at' = [at EXCEPT ![t] = "fun"]
            /\ job' = [job EXCEPT ![t] = [call |-> Head(queue_out[t]).call, label |-> 1]]
            /\ UNCHANGED <<queue_in, async>>
       ELSE End(t)
    /\ UNCHANGED <<config, lost, caller, thread>>

\* thread_yield puts the label.
FunYield(t) ==
    /\ at[t] = "fun" /\ job[t].label <= MaxItems
    /\ Send(t, [type |-> "Yield", call |-> job[t].call, label |-> job[t].label], "yield")
    /\ job' = [job EXCEPT ![t].label = @ + 1]
    /\ UNCHANGED <<config, lost, caller, thread, queue_out, async>>

\* The function returns, or raises an error of its own.
FunEnd(t) ==
    /\ at[t] = "fun"
    /\ \E type \in {"Return", "Raise"} :
            Send(t, [type |-> type, call |-> job[t].call], "get")
    /\ job' = [job EXCEPT ![t] = None]
    /\ UNCHANGED <<config, lost, caller, thread, queue_out, async>>

ReportItself(type) == type                \* mutant: does not wrap the exception

\* What thread_main reports of an exception that ends the function.
Report(type) == IF type = "Exit" THEN "Exit" ELSE "Raise"

PassSilently(t, type) ==                  \* mutant: Exit is not answered
    IF type \in {"Terminate", "Exit"}
    THEN End(t)
    ELSE /\ Send(t, [type |-> Report(type), call |-> job[t].call], "get")
         /\ job' = [job EXCEPT ![t] = None]
         /\ Took(t)
         /\ UNCHANGED async

\* The function lets an exception of kind type pass.
Pass(t, type) ==
    IF type = "Terminate"
    THEN End(t)
    ELSE /\ Send(t, [type |-> Report(type), call |-> job[t].call], "get")
         /\ job' = [job EXCEPT ![t] = None]
         /\ Took(t)
         /\ UNCHANGED async

CatchAny(t, type) ==                      \* mutant: Exit is an Exception
    /\ config.stubborn \/ type # "Terminate"
    /\ at' = [at EXCEPT ![t] = "fun"]
    /\ Took(t)
    /\ UNCHANGED <<queue_in, job, async>>

\* It catches it and runs on.  Exit and Terminate are BaseExceptions.
Catch(t, type) ==
    /\ config.stubborn \/ type \notin {"Exit", "Terminate"}
    /\ at' = [at EXCEPT ![t] = "fun"]
    /\ Took(t)
    /\ UNCHANGED <<queue_in, job, async>>

\* thread_yield takes the answer, and raises all but a Yield: a Call as a
\* NotImplementedError.
YieldGet(t) ==
    /\ at[t] = "yield" /\ queue_out[t] # <<>>
    /\ LET type == Head(queue_out[t]).type
       IN  IF type = "Yield"
           THEN /\ Took(t)
                /\ at' = [at EXCEPT ![t] = "fun"]
                /\ UNCHANGED <<queue_in, job, async>>
           ELSE Pass(t, type) \/ Catch(t, type)
    /\ UNCHANGED <<config, lost, caller, thread>>

\* The Terminate of thread_raise hits a thread that runs.  One that sleeps in a
\* queue is hit once a packet has woken it up, which is lost or not.
Interrupt(t) ==
    /\ t \in async
    /\ at[t] = "fun" \/ queue_out[t] # <<>>
    /\ \/ End(t)
       \/ /\ config.stubborn /\ at[t] # "get"
          /\ async' = async \ {t}
          /\ at' = [at EXCEPT ![t] = "fun"]
          /\ UNCHANGED queue_out \/ (at[t] = "yield" /\ Took(t))
          /\ UNCHANGED <<queue_in, job>>
    /\ UNCHANGED <<config, lost, caller, thread>>

Loop(t) == MainGet(t) \/ YieldGet(t)

Fun(t) == FunYield(t) \/ FunEnd(t)

Next ==
    \/ \E c \in Call : \/ Start(c) \/ CallStep(c) \/ ResumeClosed(c)
                       \/ \E type \in {"Yield", "Raise", "Exit"} : Resume(c, type)
    \/ Open \/ Close
    \/ \E t \in Thread : Loop(t) \/ Fun(t) \/ Interrupt(t)

\* The caller and the threads' loops run on.  The user's function may hang for
\* ever, where no exception reaches it, and a call need not be resumed.
Spec ==
    /\ Init /\ [][Next]_vars
    /\ \A c \in Call : WF_vars(CallStep(c))
    /\ \A t \in Thread : WF_vars(Loop(t))

\* The user's functions go on to their next label or their end.
FunctionsGoOn == \A t \in Thread : WF_vars(Fun(t))

-----------------------------------------------------------------------------
(* Properties.                                                             *)

Waiting == {c \in Call : pc[c] \in {"get", "get exit"}}

\* A call's function cannot outlive it in the thread of the next call: in race
\* that takes functions that let BaseExceptions pass; in race2 every call has a
\* thread and queues of its own.
Separate == config.race2 \/ ~config.stubborn

\* A caller gets the labels of its own call, each once and in order, and never
\* another call's outcome: no packet of an abandoned or a failed call reaches it.
OwnPackets ==
    Separate =>
        /\ \A c \in Call : received[c] =
                [i \in DOMAIN received[c] |-> [call |-> c, label |-> i]]
        /\ \A c \in Waiting : \A i \in DOMAIN queue_in[thread] :
                queue_in[thread][i].call = c

\* For a suspended call a function waits in the thread, its own if it can, until
\* the thread is given up under it: by a close, or in race2 by a second call,
\* which restarts the thread before it is refused (thread.py:201).  Nothing else
\* a call does, and no time-out, takes the thread away from another.
SuspendedIsServed ==
    \A c \in Suspended \ lost :
        /\ thread # None /\ at[thread] = "yield"
        /\ queue_out[thread] = <<>> /\ queue_in[thread] = <<>>
        /\ Separate => job[thread].call = c

\* Caller and thread take turns: at most one packet is on its way or being
\* handled.
TakeTurns ==
    thread # None =>
        Len(queue_out[thread]) + Len(queue_in[thread])
            + (IF at[thread] = "fun" THEN 1 ELSE 0) <= 1

\* The generator is entered exactly while one call is on its way.
EnteredByOne ==
    Cardinality(Suspended \cup Waiting) = (IF is_entered THEN 1 ELSE 0)

\* With a time-out a call that waits for a label goes on, even if the function
\* hangs.
LabelsAwaited ==
    \A c \in Call : config.race2 /\ pc[c] = "get" ~> pc[c] # "get"

\* The call lost its thread while it was suspended, was resumed after that, and
\* waits without a time-out for an answer that another thread does not know of.
Deserted(c) ==
    /\ c \in lost
    /\ pc[c] = "get exit" \/ (pc[c] = "get" /\ ~config.race2)

\* If functions go on, whoever calls gets the thread of control back, except in
\* a call that lost its thread and that no time-out helps (thread.py:224).
CallerComesBack ==
    FunctionsGoOn =>
        (active # None ~> active = None \/ \E c \in Call : Deserted(c))

\* An abandoned thread ends, whether it sleeps in a queue or runs, if its
\* function lets Terminate pass.
ThreadsEnd ==
    FunctionsGoOn =>
        \A t \in Thread : ~config.stubborn /\ t \in Abandoned ~> t \notin Abandoned
=============================================================================
