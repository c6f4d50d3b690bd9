-------------------------- MODULE RemoteGenerator --------------------------
(***************************************************************************)
(* RemoteGenerator and RemoteGeneratorClient: a generator that runs in a   *)
(* child process and is iterated from the parent.  Parent and child talk   *)
(* over two multiprocessing queues of capacity one, in_queue to the child  *)
(* and out_queue back.  A call of the client is a generator in the         *)
(* parent; the parent has one thread, so at most one call runs at a time   *)
(* and the others wait at their yield.                                     *)
(*                                                                         *)
(* The two generations of the package differ in how a call ends:           *)
(* race.generator.remote only releases the client, and                     *)
(* race2.multiprocessing.remote also sends the child a Terminate.          *)
(***************************************************************************)
EXTENDS Naturals, Sequences

CONSTANTS
    Call,               \* calls of clients of one RemoteGenerator
    Client,
    ClientOf,           \* the client each call belongs to
    User,               \* the parent's thread outside any call
    None,               \* no queue, no process, nobody
    MaxItems,           \* bound: labels a function yields
    CloseAnytime,       \* TRUE: users close() even while calls are suspended
    TerminateOnExit     \* TRUE: race2, FALSE: race

ASSUME CallAssumption == ClientOf \in [Call -> Client] /\ User \notin Call
ASSUME BoundAssumption == MaxItems \in Nat
ASSUME GenerationAssumption == TerminateOnExit \in BOOLEAN /\ CloseAnytime \in BOOLEAN

VARIABLES
    active,     \* who holds the parent's thread: a call, User, or None
    pc,         \* where each call is
    semaphore,  \* of each client
    received,   \* labels each call has yielded to its caller
    result,     \* how a call ended
    process,    \* instance.process is not None
    closing,    \* the user is in close()
    in_queue, out_queue,    \* or None, without a process
    child,      \* the child: waits in "get", is "busy", has "exited", or None
    task,       \* the message a busy child handles
    iter_obj    \* [call, next label] of the child's iterator, or None

parent == <<active, pc, semaphore, received, result, closing>>
channel == <<process, in_queue, out_queue>>
remote == <<child, task, iter_obj>>
vars == <<parent, channel, remote>>

Ends == {"returned", "raised", "stopped", "ReentryError", "RemoteTimeoutError",
         "AttributeError", "AssertionError"}
Pcs == {"new", "put reset", "get reset", "terminate reset", "put push", "get",
        "terminate", "yielded", "finally", "ended", "failed"}

ToChild == [type : {"Push", "Terminate"}] \cup [type : {"Reset"}, call : Call]
ToParent == [type : {"ResetOk", "Stop", "Except"}]
            \cup [type : {"Next"}, call : Call, label : Nat]
Iterator == [call : Call, label : Nat]

ASSUME NoneAssumption ==
    /\ None \notin Call \cup {User} \cup Ends \cup {"get", "busy", "exited"}
    /\ None \notin Seq(ToChild) \cup Seq(ToParent) \cup ToChild \cup Iterator

TypeOK ==
    /\ active \in Call \cup {User, None}
    /\ pc \in [Call -> Pcs]
    /\ semaphore \in [Client -> {0, 1}]
    /\ received \in [Call -> Seq(Iterator)]
    /\ result \in [Call -> Ends \cup {None}]
    /\ process \in BOOLEAN /\ closing \in BOOLEAN
    /\ in_queue \in Seq(ToChild) \cup {None}
    /\ out_queue \in Seq(ToParent) \cup {None}
    /\ child \in {"get", "busy", "exited", None}
    /\ task \in ToChild \cup {None}
    /\ iter_obj \in Iterator \cup {None}

Init ==
    /\ active = None
    /\ pc = [c \in Call |-> "new"]
    /\ semaphore = [k \in Client |-> 0]
    /\ received = [c \in Call |-> <<>>]
    /\ result = [c \in Call |-> None]
    /\ process = FALSE /\ closing = FALSE
    /\ in_queue = None /\ out_queue = None
    /\ child = None /\ task = None /\ iter_obj = None

Go(c, where) == pc' = [pc EXCEPT ![c] = where]

\* The generator of the call is over, and its caller has the thread.
Over(c, where, how) ==
    /\ pc' = [pc EXCEPT ![c] = where]
    /\ result' = [result EXCEPT ![c] = how]
    /\ active' = None

Finish(c, how) == Over(c, "ended", how)

\* Over before its try block, and so without the finally block.
FailReset(c, how) == Over(c, "failed", how)

\* put blocks while the queue's one place is taken.
Put(msg) == in_queue = <<>> /\ in_queue' = <<msg>>

\* _process_ensure_running: the child starts with a copy of an instance whose
\* iter_obj was never set.
EnsureRunning ==
    IF process
    THEN UNCHANGED <<channel, remote>>
    ELSE /\ process' = TRUE
         /\ in_queue' = <<>> /\ out_queue' = <<>>
         /\ child' = "get" /\ task' = None /\ iter_obj' = None

\* _process_terminate: a Terminate is put first, which blocks; the child is then
\* killed and the queues are dropped with whatever they hold.
Terminate ==
    /\ in_queue = <<>>
    /\ process' = FALSE
    /\ in_queue' = None /\ out_queue' = None
    /\ child' = None /\ task' = None /\ iter_obj' = None

-----------------------------------------------------------------------------
(* The parent: a call of the client.                                       *)

NeverBusy(c) == FALSE                     \* mutant

\* The client is already iterating.
Busy(c) == semaphore[ClientOf[c]] # 0

\* The caller's first next() on the generator.
Start(c) ==
    /\ active = None /\ pc[c] = "new"
    /\ IF Busy(c)
       THEN /\ Finish(c, "ReentryError")
            /\ UNCHANGED <<semaphore, channel, remote>>
       ELSE /\ active' = c
            /\ semaphore' = [semaphore EXCEPT ![ClientOf[c]] = @ + 1]
            /\ EnsureRunning
            /\ Go(c, "put reset")
            /\ UNCHANGED result
    /\ UNCHANGED <<received, closing>>

PutReset(c) ==
    /\ pc[c] = "put reset"
    /\ Put([type |-> "Reset", call |-> c])
    /\ Go(c, "get reset")
    /\ UNCHANGED <<active, semaphore, received, result, closing, process,
                   out_queue, remote>>

\* An answer to Reset.  A failure leaves the client's semaphore taken.
GetReset(c) ==
    /\ pc[c] = "get reset"
    /\ out_queue # <<>>
    /\ out_queue' = Tail(out_queue)
    /\ CASE Head(out_queue).type = "Except" -> FailReset(c, "raised")
         [] Head(out_queue).type = "ResetOk" ->
                Go(c, "put push") /\ UNCHANGED <<result, active>>
         [] OTHER -> FailReset(c, "AssertionError")
    /\ UNCHANGED <<semaphore, received, closing, process, in_queue, remote>>

PutPush(c) ==
    /\ pc[c] = "put push" /\ in_queue # None
    /\ Put([type |-> "Push"])
    /\ Go(c, "get")
    /\ UNCHANGED <<active, semaphore, received, result, closing, process,
                   out_queue, remote>>

\* The RemoteGenerator was closed while the call waited at its yield.
PutPushClosed(c) ==
    /\ pc[c] = "put push" /\ in_queue = None
    /\ Go(c, "finally")
    /\ result' = [result EXCEPT ![c] = "AttributeError"]
    /\ UNCHANGED <<active, semaphore, received, closing, channel, remote>>

Get(c) ==
    /\ pc[c] = "get"
    /\ out_queue # <<>>
    /\ out_queue' = Tail(out_queue)
    /\ LET msg == Head(out_queue)
       IN  IF msg.type = "Next"
           THEN /\ Go(c, "yielded")
                /\ active' = None
                /\ received' = [received EXCEPT ![c] =
                        Append(@, [call |-> msg.call, label |-> msg.label])]
                /\ UNCHANGED result
           ELSE /\ Go(c, "finally")
                /\ result' = [result EXCEPT ![c] =
                        CASE msg.type = "Stop" -> "returned"
                          [] msg.type = "Except" -> "raised"
                          [] OTHER -> "AssertionError"]
                /\ UNCHANGED <<active, received>>
    /\ UNCHANGED <<semaphore, closing, process, in_queue, remote>>

TimeoutNever(c) == FALSE /\ UNCHANGED vars    \* mutant: read_timeout = None

TimeoutRetries(c) ==                      \* mutant: asks again
    /\ out_queue = <<>>
    /\ \/ pc[c] = "get reset" /\ Go(c, "put reset")
       \/ pc[c] = "get" /\ Go(c, "put push")
    /\ UNCHANGED <<active, semaphore, received, result, closing, channel, remote>>

\* get(timeout=read_timeout) gives up: the child is to be stopped.
Timeout(c) ==
    /\ out_queue = <<>>
    /\ \/ pc[c] = "get reset" /\ Go(c, "terminate reset")
       \/ pc[c] = "get" /\ Go(c, "terminate")
    /\ UNCHANGED <<active, semaphore, received, result, closing, channel, remote>>

\* Only the second get is inside the try whose finally frees the client.
TimedOut(c) ==
    /\ Terminate
    /\ \/ /\ pc[c] = "terminate reset"
          /\ FailReset(c, "RemoteTimeoutError")
       \/ /\ pc[c] = "terminate"
          /\ Go(c, "finally")
          /\ result' = [result EXCEPT ![c] = "RemoteTimeoutError"]
          /\ UNCHANGED active
    /\ UNCHANGED <<semaphore, received, closing>>

\* The caller resumes the generator at its yield.
Resume(c) ==
    /\ active = None /\ pc[c] = "yielded"
    /\ active' = c
    /\ Go(c, "put push")
    /\ UNCHANGED <<semaphore, received, result, closing, channel, remote>>

\* The caller throws Stop into it, or drops it.
Throw(c) ==
    /\ active = None /\ pc[c] = "yielded"
    /\ active' = c
    /\ Go(c, "finally")
    /\ result' = [result EXCEPT ![c] = "stopped"]
    /\ UNCHANGED <<semaphore, received, closing, channel, remote>>

ReleasedOnReturn(c) ==                    \* mutant: not in the finally block
    IF result[c] = "returned"
    THEN [semaphore EXCEPT ![ClientOf[c]] = @ - 1] ELSE semaphore

Released(c) == [semaphore EXCEPT ![ClientOf[c]] = @ - 1]

OutcomeSwallowed(c) == "returned"         \* mutant: returns from the finally block

Outcome(c) == result[c]

\* The finally block.  Without queues the put fails before the client is freed,
\* and its error replaces whatever ended the call.
Finally(c) ==
    /\ pc[c] = "finally"
    /\ IF TerminateOnExit /\ in_queue = None
       THEN /\ Finish(c, "AttributeError")
            /\ UNCHANGED <<semaphore, in_queue>>
       ELSE /\ Finish(c, Outcome(c))
            /\ semaphore' = Released(c)
            /\ IF TerminateOnExit THEN Put([type |-> "Terminate"])
               ELSE UNCHANGED in_queue
    /\ UNCHANGED <<received, closing, process, out_queue, remote>>

CallStep(c) ==
    /\ active = c
    /\ \/ PutReset(c) \/ GetReset(c) \/ PutPush(c) \/ PutPushClosed(c) \/ Get(c)
       \/ Timeout(c) \/ TimedOut(c) \/ Finally(c)

-----------------------------------------------------------------------------
(* The parent: open and close, between calls.                              *)

Open ==
    /\ active = None /\ ~process
    /\ EnsureRunning
    /\ UNCHANGED parent

Close ==
    /\ active = None /\ process
    /\ CloseAnytime \/ \A c \in Call : pc[c] # "yielded"
    /\ active' = User
    /\ closing' = TRUE
    /\ UNCHANGED <<pc, semaphore, received, result, channel, remote>>

Closed ==
    /\ closing
    /\ Terminate
    /\ active' = None
    /\ closing' = FALSE
    /\ UNCHANGED <<pc, semaphore, received, result>>

-----------------------------------------------------------------------------
(* The child.                                                              *)

ChildGet ==
    /\ child = "get" /\ in_queue # <<>>
    /\ in_queue' = Tail(in_queue)
    /\ IF Head(in_queue).type = "Terminate"
       THEN child' = "exited" /\ UNCHANGED task
       ELSE child' = "busy" /\ task' = Head(in_queue)
    /\ UNCHANGED <<parent, process, out_queue, iter_obj>>

Answer(msg) ==
    /\ out_queue = <<>>
    /\ out_queue' = <<msg>>
    /\ child' = "get" /\ task' = None
    /\ UNCHANGED <<parent, process, in_queue>>

\* fun(*args) returns an iterator, or raises.
ChildReset ==
    /\ child = "busy" /\ task.type = "Reset"
    /\ \/ /\ Answer([type |-> "ResetOk"])
          /\ iter_obj' = [call |-> task.call, label |-> 0]
       \/ /\ Answer([type |-> "Except"])
          /\ UNCHANGED iter_obj

\* next(iter_obj): a label, the end, or an exception.
ChildPush ==
    /\ child = "busy" /\ task.type = "Push" /\ iter_obj # None
    /\ \/ /\ iter_obj.label < MaxItems
          /\ Answer([type |-> "Next", call |-> iter_obj.call,
                     label |-> iter_obj.label])
          /\ iter_obj' = [iter_obj EXCEPT !.label = @ + 1]
       \/ Answer([type |-> "Stop"]) /\ UNCHANGED iter_obj
       \/ Answer([type |-> "Except"]) /\ UNCHANGED iter_obj

\* A Push to a child that was never reset ends it.  Only the older generation
\* manages to report it: the newer one fails to build the Except.
ChildFails ==
    /\ child = "busy" /\ task.type = "Push" /\ iter_obj = None
    /\ child' = "exited" /\ task' = None
    /\ IF TerminateOnExit THEN UNCHANGED out_queue
       ELSE out_queue = <<>> /\ out_queue' = <<[type |-> "Except"]>>
    /\ UNCHANGED <<parent, process, in_queue, iter_obj>>

Next ==
    \/ \E c \in Call : Start(c) \/ Resume(c) \/ Throw(c) \/ CallStep(c)
    \/ Open \/ Close \/ Closed
    \/ ChildGet \/ ChildReset \/ ChildPush \/ ChildFails

\* The parent's thread and the child's interpreter run on; the user's function
\* may hang for ever, and the caller need not resume a call.
Spec ==
    /\ Init /\ [][Next]_vars
    /\ \A c \in Call : WF_vars(CallStep(c))
    /\ WF_vars(Closed)
    /\ WF_vars(ChildGet)

-----------------------------------------------------------------------------
(* Properties.                                                             *)

\* A caller gets the labels of its own call, each once and in order, whatever
\* calls failed, timed out or were abandoned before: no answer to an earlier
\* call is left in a queue, and no later call takes over a child's iterator,
\* because the calls of one client exclude one another.
OwnLabelsInOrder ==
    \A c \in Call : \A i \in DOMAIN received[c] :
        received[c][i] = [call |-> c, label |-> i - 1]

\* Parent and child never talk at the same time: at most one message is on its
\* way or being handled, so the queues' one place is enough.
Lockstep ==
    process /\ active # User =>
        Len(in_queue) + Len(out_queue) + (IF child = "busy" THEN 1 ELSE 0) <= 1

\* A client is taken only by a call in progress, or by one that failed in its
\* Reset, which the code never frees.  However else a call ends, by a return, an
\* exception, a time-out, a Stop thrown into it or a close() under it, the client
\* can be called again: test_half_then_one, race_tests/generator/test_remote.py:74,
\* "must set semaphore count to 0".  In the newer generation a call that finds the
\* queues gone in its finally block keeps the client too.
ClientFreed ==
    \A k \in Client :
        semaphore[k] = 1 =>
            \E c \in Call :
                /\ ClientOf[c] = k
                /\ \/ pc[c] \notin {"new", "ended"}
                   \/ TerminateOnExit /\ result[c] = "AttributeError"

\* A call that ran out of time tells its caller so: test_deadlock,
\* race_tests/generator/test_remote.py:130, expects RemoteTimeoutError of it.
TimeoutsReported ==
    [][\A c \in Call :
          \/ pc[c] \in {"terminate reset", "terminate"} /\ pc'[c] # pc[c]
          \/ result[c] = "RemoteTimeoutError"
          => result'[c] = "RemoteTimeoutError"]_vars

\* Whoever has the parent's thread, a caller waiting for a label or a user in
\* close(), gets it back, even if the function hangs: nobody is left blocked on
\* a queue.
ThreadComesBack == active # None ~> active = None
=============================================================================
