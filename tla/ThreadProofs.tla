---------------------------- MODULE ThreadProofs ----------------------------
(***************************************************************************)
(* Theorems of ThreadGenerator.tla, for any calls, any finite number of    *)
(* places for threads, any number of labels, and functions and users of    *)
(* any kind, in both generations.                                          *)
(***************************************************************************)
EXTENDS ThreadGenerator, FiniteSetTheorems, TLAPS

-----------------------------------------------------------------------------
(* The inductive invariant.                                                *)

InProgress == Suspended \cup Waiting

\* One call is in progress at most, and it has the caller's thread unless it is
\* suspended.
OneCall ==
    /\ \A c \in Call : pc[c] \in {"get", "get exit"} <=> active = c
    /\ \A c, d \in InProgress : c = d
    /\ is_entered <=> InProgress # {}

Results == \A c \in Call : result[c] # None => pc[c] = "ended"

CallerTypeOK ==
    /\ config \in Settings
    /\ active \in Call \cup {None}
    /\ pc \in [Call -> {"new", "get", "yielded", "get exit", "ended"}]
    /\ received \in [Call -> Seq(Labels)]
    /\ result \in [Call -> Ends \cup {None}]
    /\ is_entered \in BOOLEAN

CallerInv == CallerTypeOK /\ OneCall /\ Results

\* A thread that runs a function has a job; one that is to be interrupted has
\* been abandoned.
Jobs == \A t \in Thread : at[t] \in {"fun", "yield"} => job[t] # None
Hit == \A t \in async : at[t] # "ended" /\ t # thread

ThreadsTypeOK ==
    /\ thread \in Thread \cup {None}
    /\ queue_out \in [Thread -> Seq(ToThread)]
    /\ queue_in \in [Thread -> Seq(ToCaller)]
    /\ at \in [Thread -> {"get", "fun", "yield", "ended"}]
    /\ job \in [Thread -> Labels \cup {None}]
    /\ async \subseteq Thread

ThreadsInv == ThreadsTypeOK /\ Jobs /\ Hit

\* A call in progress leaves a place for the thread that ends it.
Roomy == config.race2 /\ is_entered => Free # {}

Outcomes == [type : {"Return", "Raise", "Exit"}, call : Call]
Yields == [type : {"Yield"}, call : Call, label : Nat]

\* Caller and thread take turns: no packet while no call runs, then the caller's,
\* which the thread works on, ends over or answers.
Idle(t) == at[t] \in {"get", "yield"} /\ queue_out[t] = <<>> /\ queue_in[t] = <<>>
Asked(t) ==
    /\ at[t] \in {"get", "yield"} /\ queue_in[t] = <<>>
    /\ \E p \in ToThread : queue_out[t] = <<p>>
Working(t) == at[t] \in {"fun", "ended"} /\ queue_out[t] = <<>> /\ queue_in[t] = <<>>
Answered(t) ==
    /\ queue_out[t] = <<>>
    /\ \/ at[t] = "get" /\ \E q \in Outcomes : queue_in[t] = <<q>>
       \/ at[t] = "yield" /\ \E q \in Yields : queue_in[t] = <<q>>

Turns ==
    /\ active # None => thread # None
    /\ thread # None =>
            IF active = None THEN Idle(thread)
            ELSE Asked(thread) \/ Working(thread) \/ Answered(thread)

IInv == CallerInv /\ ThreadsInv /\ Roomy /\ Turns

-----------------------------------------------------------------------------
(* What a step does to the caller's side.                                  *)

\* Who is in progress.
LEMMA WhoRuns ==
    ASSUME CallerInv
    PROVE  /\ active = None => Waiting = {} /\ (is_entered <=> Suspended # {})
           /\ \A c \in Call : active = c => Waiting = {c} /\ Suspended = {} /\ is_entered
           /\ \A c \in Suspended : Suspended = {c} /\ Waiting = {} /\ is_entered /\ active = None
<1>1. Waiting = {c \in Call : active = c}
  BY DEF CallerInv, OneCall, Waiting
<1>2. active = None => Waiting = {}
  BY <1>1, NoneAssumption
<1>3. ASSUME NEW c \in Call, active = c PROVE Waiting = {c} /\ Suspended = {} /\ is_entered
  BY <1>1, <1>3 DEF CallerInv, OneCall, InProgress, Suspended
<1>4. ASSUME NEW c \in Suspended
      PROVE  Suspended = {c} /\ Waiting = {} /\ is_entered /\ active = None
  <2>1. Suspended = {c} /\ is_entered
    BY DEF CallerInv, OneCall, InProgress
  <2>2. \A d \in Call : active # d
    BY <1>3, <2>1
  <2> QED
    BY <1>1, <2>1, <2>2 DEF CallerInv, CallerTypeOK
<1> QED
  BY <1>2, <1>3, <1>4 DEF CallerInv, OneCall, InProgress

\* A call begins.
LEMMA CallerStarts ==
    ASSUME CallerInv, active = None, ~is_entered, NEW c \in Call, pc[c] = "new",
           pc' = [pc EXCEPT ![c] = "get"], active' = c, is_entered' = TRUE,
           UNCHANGED <<config, received, result>>
    PROVE  CallerInv' /\ Suspended' = {} /\ Waiting' = {c}
<1>1. Waiting = {} /\ Suspended = {}
  BY WhoRuns
<1>2. pc'[c] = "get" /\ \A d \in Call : d # c => pc'[d] = pc[d]
  BY DEF CallerInv, CallerTypeOK
<1>3. Suspended' = {} /\ Waiting' = {c}
  BY <1>1, <1>2 DEF Suspended, Waiting
<1>4. OneCall'
  BY <1>1, <1>2, <1>3 DEF OneCall, InProgress, Waiting
<1>5. CallerTypeOK'
  BY DEF CallerInv, CallerTypeOK
<1>6. Results'
  BY <1>2 DEF CallerInv, Results
<1> QED
  BY <1>3, <1>4, <1>5, <1>6 DEF CallerInv

\* A call is refused.
LEMMA CallerRefuses ==
    ASSUME CallerInv, NEW c \in Call, pc[c] = "new", NEW how \in Ends, Refuse(c, how),
           UNCHANGED <<config, received>>
    PROVE  CallerInv' /\ Suspended' = Suspended /\ Waiting' = Waiting
<1>1. /\ pc' = [pc EXCEPT ![c] = "ended"] /\ result' = [result EXCEPT ![c] = how]
      /\ UNCHANGED <<active, is_entered>>
  BY DEF Refuse, Go
<1>2. pc'[c] = "ended" /\ \A d \in Call : d # c => pc'[d] = pc[d] /\ result'[d] = result[d]
  BY <1>1 DEF CallerInv, CallerTypeOK
<1>3. Suspended' = Suspended /\ Waiting' = Waiting
  BY <1>2 DEF Suspended, Waiting
<1>4. OneCall'
  BY <1>1, <1>2, <1>3 DEF CallerInv, OneCall, InProgress
<1>5. CallerTypeOK'
  BY <1>1 DEF CallerInv, CallerTypeOK
<1>6. Results'
  BY <1>2 DEF CallerInv, Results
<1> QED
  BY <1>3, <1>4, <1>5, <1>6 DEF CallerInv

\* A call ends.
LEMMA CallerFinishes ==
    ASSUME CallerInv, NEW c \in Call, c \in InProgress, NEW how \in Ends, Finish(c, how),
           UNCHANGED <<config, received>>
    PROVE  /\ CallerInv' /\ Suspended' = {} /\ Waiting' = {}
           /\ active' = None /\ is_entered' = FALSE
<1>1. /\ pc' = [pc EXCEPT ![c] = "ended"] /\ result' = [result EXCEPT ![c] = how]
      /\ active' = None /\ is_entered' = FALSE
  BY DEF Finish, Go
<1>2. pc'[c] = "ended" /\ \A d \in Call : d # c => pc'[d] = pc[d] /\ result'[d] = result[d]
  BY <1>1 DEF CallerInv, CallerTypeOK
<1>3. Suspended' = {} /\ Waiting' = {}
  BY <1>2 DEF Suspended, Waiting, CallerInv, OneCall, InProgress
<1>4. OneCall'
  BY <1>1, <1>2, <1>3, NoneAssumption DEF OneCall, InProgress, Waiting
<1>5. CallerTypeOK'
  BY <1>1 DEF CallerInv, CallerTypeOK
<1>6. Results'
  BY <1>2 DEF CallerInv, Results
<1> QED
  BY <1>1, <1>3, <1>4, <1>5, <1>6 DEF CallerInv

\* A call yields.
LEMMA CallerYields ==
    ASSUME CallerInv, NEW c \in Call, active = c,
           pc' = [pc EXCEPT ![c] = "yielded"], active' = None,
           UNCHANGED <<config, result, is_entered>>, received' \in [Call -> Seq(Labels)]
    PROVE  CallerInv' /\ Suspended' = {c} /\ Waiting' = {}
<1>1. Waiting = {c} /\ Suspended = {} /\ is_entered
  BY WhoRuns
<1>2. pc'[c] = "yielded" /\ \A d \in Call : d # c => pc'[d] = pc[d]
  BY DEF CallerInv, CallerTypeOK
<1>3. Suspended' = {c} /\ Waiting' = {}
  BY <1>1, <1>2 DEF Suspended, Waiting
<1>4. OneCall'
  BY <1>1, <1>2, <1>3, NoneAssumption DEF OneCall, InProgress, Waiting
<1>5. CallerTypeOK'
  BY DEF CallerInv, CallerTypeOK
<1>6. Results'
  BY <1>1, <1>2 DEF CallerInv, Results, Waiting
<1> QED
  BY <1>3, <1>4, <1>5, <1>6 DEF CallerInv

\* A call is resumed.
LEMMA CallerResumes ==
    ASSUME CallerInv, NEW c \in Call, active = None, pc[c] = "yielded",
           NEW where \in {"get", "get exit"},
           pc' = [pc EXCEPT ![c] = where], active' = c,
           UNCHANGED <<config, received, result, is_entered>>
    PROVE  CallerInv' /\ Suspended' = {} /\ Waiting' = {c}
<1>1. Waiting = {} /\ Suspended = {c} /\ is_entered
  BY WhoRuns DEF Suspended
<1>2. pc'[c] = where /\ \A d \in Call : d # c => pc'[d] = pc[d]
  BY DEF CallerInv, CallerTypeOK
<1>3. Suspended' = {} /\ Waiting' = {c}
  BY <1>1, <1>2 DEF Suspended, Waiting
<1>4. OneCall'
  BY <1>1, <1>2, <1>3 DEF OneCall, InProgress, Waiting
<1>5. CallerTypeOK'
  BY DEF CallerInv, CallerTypeOK
<1>6. Results'
  BY <1>2 DEF CallerInv, Results
<1> QED
  BY <1>3, <1>4, <1>5, <1>6 DEF CallerInv

-----------------------------------------------------------------------------
(* Places for threads.                                                     *)

LEMMA FreeIsFinite == IsFiniteSet(Free) /\ Cardinality(Free) \in Nat
BY ThreadAssumption, FS_Subset, FS_CardinalityType, Free \in SUBSET Thread DEF Free

LEMMA OnePlace == Cardinality(Free) >= 1 => Free # {}
BY FreeIsFinite, FS_EmptySet

LEMMA TwoPlaces == \A t : Cardinality(Free) >= 2 => Free \ {t} # {}
<1> SUFFICES ASSUME NEW t, Cardinality(Free) >= 2 PROVE Free \ {t} # {}
  OBVIOUS
<1>1. IsFiniteSet(Free \ {t}) /\ Cardinality(Free \ {t}) >= 1
  BY FreeIsFinite, FS_RemoveElement
<1> QED
  BY <1>1, FS_EmptySet

LEMMA PlacesLeft ==
    ASSUME CallerInv, active = None, NEW n \in Nat, Room(n)
    PROVE  Cardinality(Free) >= n + (IF is_entered THEN 1 ELSE 0)
<1>1. CASE is_entered
  <2>1. PICK c \in Suspended : Suspended = {c}
    BY <1>1, WhoRuns
  <2> QED
    BY <1>1, <2>1, FS_Singleton DEF Room
<1>2. CASE ~is_entered
  BY <1>2, WhoRuns, FS_EmptySet, FreeIsFinite DEF Room
<1> QED
  BY <1>1, <1>2

-----------------------------------------------------------------------------
(* What a step does to the threads.                                        *)

LEMMA NoPacket == Len(<<>>) = 0 /\ \A S : <<>> \in Seq(S)
OBVIOUS

LEMMA OnePacket ==
    \A S : \A m \in S : /\ <<m>> \in Seq(S) /\ Len(<<m>>) = 1 /\ <<m>> # <<>>
                        /\ Head(<<m>>) = m /\ Tail(<<m>>) = <<>> /\ <<>> \o <<m>> = <<m>>
OBVIOUS

LEMMA SamePacket == \A p, q : <<p>> = <<q>> => p = q
OBVIOUS

LEMMA Packets ==
    /\ \A type \in {"Yield", "Raise", "Exit", "Terminate"} : [type |-> type] \in ToThread
    /\ \A c \in Call : [type |-> "Call", call |-> c] \in ToThread
    /\ Farewell \in Seq(ToThread)
BY DEF ToThread, Farewell

\* thread_destruct gives up the thread there is.
LEMMA GivesUp ==
    ASSUME ThreadsInv, NEW msgs \in Seq(ToThread)
    PROVE  /\ Destructed(msgs) \in [Thread -> Seq(ToThread)]
           /\ \A t \in Interrupted : t \in Thread /\ at[t] # "ended"
BY Packets DEF ThreadsInv, ThreadsTypeOK, Hit, Destructed, Interrupted

\* thread_restart: the thread after it is a free one, which waits.
LEMMA Restarted ==
    ASSUME ThreadsInv, Free # {}, NEW before \in Seq(ToThread), NEW after \in Seq(ToThread),
           Restart(before, after)
    PROVE  /\ ThreadsInv' /\ thread' \in Free /\ thread' # None /\ Free \ {thread'} \subseteq Free'
           /\ at'[thread'] = "get" /\ job'[thread'] = None
           /\ queue_out'[thread'] = after /\ queue_in'[thread'] = <<>>
<1> DEFINE new == CHOOSE t \in Free : TRUE
<1>1. new \in Thread /\ at[new] = "ended" /\ new # thread /\ new \in Free
  BY DEF Free
<1>2. /\ thread' = new
      /\ queue_out' = [Destructed(before) EXCEPT ![new] = after]
      /\ queue_in' = [t \in Thread |-> IF t \in {thread, new} THEN <<>> ELSE queue_in[t]]
      /\ at' = [at EXCEPT ![new] = "get"]
      /\ job' = [job EXCEPT ![new] = None]
      /\ async' = Interrupted
  BY DEF Restart
<1> HIDE DEF new
<1>3. ThreadsTypeOK'
  BY <1>1, <1>2, GivesUp, NoPacket DEF ThreadsInv, ThreadsTypeOK
<1>4. /\ at'[new] = "get" /\ job'[new] = None /\ queue_out'[new] = after /\ queue_in'[new] = <<>>
      /\ \A t \in Thread \ {new} : at'[t] = at[t] /\ job'[t] = job[t]
  BY <1>1, <1>2, GivesUp DEF ThreadsInv, ThreadsTypeOK
<1>5. Jobs' /\ Hit'
  BY <1>1, <1>2, <1>4, GivesUp DEF ThreadsInv, Jobs, Hit
<1>6. Free \ {new} \subseteq Free'
  BY <1>2, <1>4 DEF Free
<1> QED
  BY <1>1, <1>2, <1>3, <1>4, <1>5, <1>6, NoneAssumption DEF ThreadsInv

\* A packet is put to the thread there is.
LEMMA PutToThread ==
    ASSUME ThreadsInv, thread # None, Idle(thread), NEW p \in ToThread, Put(<<p>>)
    PROVE  /\ ThreadsInv' /\ Free' = Free /\ thread' = thread /\ Asked(thread)'
           /\ queue_out'[thread] = <<p>> /\ UNCHANGED <<at, job, queue_in>>
<1>1. /\ thread \in Thread /\ queue_out' = [queue_out EXCEPT ![thread] = @ \o <<p>>]
      /\ UNCHANGED <<thread, async, queue_in, at, job>>
  BY DEF Put, remote, ThreadsInv, ThreadsTypeOK
<1>2. queue_out[thread] \o <<p>> = <<p>> /\ <<p>> \in Seq(ToThread)
  BY OnePacket DEF Idle
<1>3. queue_out' = [queue_out EXCEPT ![thread] = <<p>>]
  BY <1>1, <1>2
<1>4. ThreadsTypeOK' /\ queue_out'[thread] = <<p>>
  BY <1>1, <1>2, <1>3 DEF ThreadsInv, ThreadsTypeOK
<1> QED
  BY <1>1, <1>4 DEF ThreadsInv, Jobs, Hit, Free, Asked, Idle

\* A packet is taken from the thread there is.
LEMMA TakenFromThread ==
    ASSUME ThreadsInv, thread # None, Turns, active # None, queue_in[thread] # <<>>,
           queue_in' = [queue_in EXCEPT ![thread] = Tail(@)],
           UNCHANGED <<thread, queue_out, async, at, job>>
    PROVE  ThreadsInv' /\ Free' = Free /\ Idle(thread)'
<1>1. thread \in Thread /\ Answered(thread)
  BY DEF Turns, Asked, Working, ThreadsInv, ThreadsTypeOK
<1>2. Tail(queue_in[thread]) = <<>>
  BY <1>1, OnePacket DEF Answered
<1>3. queue_in' = [queue_in EXCEPT ![thread] = <<>>]
  BY <1>2
<1>4. ThreadsTypeOK' /\ queue_in'[thread] = <<>>
  BY <1>1, <1>3, NoPacket DEF ThreadsInv, ThreadsTypeOK
<1> QED
  BY <1>1, <1>4 DEF ThreadsInv, Jobs, Hit, Free, Idle, Answered

\* A thread does something: the others do not, and it does not start anew.
Alive(t) ==
    /\ \A s \in Thread \ {t} :
            /\ at'[s] = at[s] /\ job'[s] = job[s]
            /\ queue_out'[s] = queue_out[s] /\ queue_in'[s] = queue_in[s]
    /\ UNCHANGED <<config, caller, thread>>

LEMMA Ended ==
    ASSUME ThreadsInv, NEW t \in Thread, at[t] # "ended", End(t),
           UNCHANGED <<config, caller, thread>>
    PROVE  /\ ThreadsInv' /\ Free \subseteq Free' /\ Alive(t)
           /\ at'[t] = "ended" /\ queue_out'[t] = <<>>
           /\ t = thread => queue_in'[t] = queue_in[t]
<1>1. ThreadsTypeOK'
  BY NoPacket DEF End, ThreadsInv, ThreadsTypeOK
<1>2. /\ at'[t] = "ended" /\ job'[t] = None /\ queue_out'[t] = <<>> /\ async' = async \ {t}
      /\ t = thread => queue_in'[t] = queue_in[t]
      /\ Alive(t)
  BY DEF End, Alive, ThreadsInv, ThreadsTypeOK
<1>3. Jobs' /\ Hit'
  BY <1>2 DEF Alive, ThreadsInv, ThreadsTypeOK, Jobs, Hit
<1>4. Free \subseteq Free'
  BY <1>2 DEF Alive, Free
<1> QED
  BY <1>1, <1>2, <1>3, <1>4 DEF ThreadsInv

LEMMA Moved ==
    ASSUME ThreadsInv, NEW t \in Thread, at[t] # "ended", Alive(t), ThreadsTypeOK',
           at'[t] # "ended", at'[t] \in {"fun", "yield"} => job'[t] # None,
           async' \subseteq async
    PROVE  ThreadsInv' /\ Free \subseteq Free'
<1>1. Jobs' /\ Hit'
  BY DEF Alive, ThreadsInv, ThreadsTypeOK, Jobs, Hit
<1>2. Free \subseteq Free'
  BY DEF Alive, Free
<1> QED
  BY <1>1, <1>2 DEF ThreadsInv

\* What t does with packet p from its caller.
Calls(t, p) ==
    /\ at[t] = "get" /\ p.type = "Call"
    /\ at'[t] = "fun" /\ queue_in'[t] = queue_in[t]
    /\ job'[t] = [call |-> p.call, label |-> 1]
Dies(t, p) ==
    /\ \/ at[t] = "get" /\ p.type # "Call"
       \/ at[t] = "yield" /\ p.type = "Terminate"
    /\ at'[t] = "ended"
    /\ t = thread => queue_in'[t] = queue_in[t]
GoesOn(t, p) ==
    /\ at[t] = "yield" /\ (config.stubborn \/ p.type \notin {"Exit", "Terminate"})
    /\ at'[t] = "fun" /\ queue_in'[t] = queue_in[t] /\ job'[t] = job[t]
Reports(t, p) ==
    /\ at[t] = "yield" /\ p.type \notin {"Yield", "Terminate"}
    /\ at'[t] = "get"
    /\ queue_in'[t] = Append(queue_in[t], [type |-> Report(p.type), call |-> job[t].call])

\* A thread takes a packet of its caller's.
Takes(t, p) ==
    /\ queue_out'[t] = Tail(queue_out[t])
    /\ Calls(t, p) \/ GoesOn(t, p) \/ Reports(t, p)

LEMMA LoopInv ==
    ASSUME ThreadsInv, NEW t \in Thread, Loop(t)
    PROVE  /\ queue_out[t] # <<>> /\ at[t] \in {"get", "yield"}
           /\ ThreadsInv' /\ Free \subseteq Free' /\ Alive(t)
           /\ LET p == Head(queue_out[t])
              IN  Takes(t, p) \/ (Dies(t, p) /\ queue_out'[t] = <<>>)
<1> DEFINE p == Head(queue_out[t])
<1>1. /\ queue_out[t] # <<>> /\ at[t] \in {"get", "yield"}
      /\ UNCHANGED <<config, caller, thread>>
  BY DEF Loop, MainGet, YieldGet
<1>2. p \in ToThread /\ Tail(queue_out[t]) \in Seq(ToThread)
  BY <1>1 DEF ThreadsInv, ThreadsTypeOK
<1>3. CASE /\ End(t)
           /\ \/ at[t] = "get" /\ p.type # "Call"
              \/ at[t] = "yield" /\ p.type = "Terminate"
  BY <1>1, <1>3, Ended DEF Dies
<1>4. CASE MainGet(t) /\ p.type = "Call"
  <2>1. /\ at[t] = "get" /\ Took(t) /\ at' = [at EXCEPT ![t] = "fun"]
        /\ job' = [job EXCEPT ![t] = [call |-> p.call, label |-> 1]]
        /\ UNCHANGED <<queue_in, async>>
    BY <1>4 DEF MainGet
  <2>2. [call |-> p.call, label |-> 1] \in Labels
    BY <1>2, <1>4 DEF ToThread, Labels
  <2>3. ThreadsTypeOK'
    BY <1>1, <1>2, <2>1, <2>2 DEF Took, ThreadsInv, ThreadsTypeOK
  <2>4. Alive(t) /\ Takes(t, p) /\ job'[t] # None
    BY <1>1, <1>4, <2>1, <2>2, NoneAssumption
       DEF Took, Alive, Takes, Calls, ThreadsInv, ThreadsTypeOK
  <2>5. ThreadsInv' /\ Free \subseteq Free'
    BY <1>1, <2>1, <2>3, <2>4, Moved DEF ThreadsInv, ThreadsTypeOK
  <2> QED
    BY <1>1, <2>4, <2>5
<1>5. ASSUME at[t] = "yield", at' = [at EXCEPT ![t] = "fun"], Took(t),
             UNCHANGED <<queue_in, job, async>>,
             config.stubborn \/ p.type \notin {"Exit", "Terminate"}
      PROVE  ThreadsInv' /\ Free \subseteq Free' /\ Alive(t) /\ Takes(t, p)
  <2>1. ThreadsTypeOK'
    BY <1>1, <1>2, <1>5 DEF Took, ThreadsInv, ThreadsTypeOK
  <2>2. Alive(t) /\ Takes(t, p)
    BY <1>1, <1>5 DEF Took, Alive, Takes, GoesOn, ThreadsInv, ThreadsTypeOK
  <2>3. job'[t] # None /\ at'[t] = "fun"
    BY <1>5 DEF ThreadsInv, ThreadsTypeOK, Jobs
  <2> QED
    BY <1>5, <2>1, <2>2, <2>3, Moved
<1>6. CASE at[t] = "yield" /\ Pass(t, p.type) /\ p.type \notin {"Yield", "Terminate"}
  <2> DEFINE q == [type |-> Report(p.type), call |-> job[t].call]
  <2>1. /\ queue_in' = [queue_in EXCEPT ![t] = Append(@, q)]
        /\ at' = [at EXCEPT ![t] = "get"]
        /\ job' = [job EXCEPT ![t] = None] /\ Took(t) /\ UNCHANGED async
    BY <1>6 DEF Pass, Send
  <2>2. q \in ToCaller
    BY <1>6 DEF Report, ToCaller, Labels, ThreadsInv, ThreadsTypeOK, Jobs
  <2>3. Append(queue_in[t], q) \in Seq(ToCaller)
    BY <2>2 DEF ThreadsInv, ThreadsTypeOK
  <2>4. ThreadsTypeOK'
    BY <1>1, <1>2, <2>1, <2>3 DEF Took, ThreadsInv, ThreadsTypeOK
  <2>5. Alive(t) /\ Takes(t, p)
    BY <1>1, <1>6, <2>1 DEF Took, Alive, Takes, Reports, ThreadsInv, ThreadsTypeOK
  <2>6. at'[t] = "get"
    BY <2>1 DEF ThreadsInv, ThreadsTypeOK
  <2> QED
    BY <1>1, <1>6, <2>1, <2>4, <2>5, <2>6, Moved
<1>7. CASE YieldGet(t)
  <2>1. CASE p.type = "Yield"
    BY <1>1, <1>5, <1>7, <2>1 DEF YieldGet
  <2>2. CASE p.type # "Yield" /\ Pass(t, p.type)
    BY <1>3, <1>6, <1>7, <2>2 DEF YieldGet, Pass
  <2>3. CASE p.type # "Yield" /\ Catch(t, p.type)
    BY <1>1, <1>5, <1>7, <2>3 DEF YieldGet, Catch
  <2> QED
    BY <1>7, <2>1, <2>2, <2>3 DEF YieldGet
<1>8. CASE MainGet(t)
  BY <1>3, <1>4, <1>8 DEF MainGet
<1> QED
  BY <1>7, <1>8 DEF Loop

\* A function yields its next label, or ends.
Tells(t) ==
    \/ /\ at'[t] = "yield" /\ job'[t] = [call |-> job[t].call, label |-> job[t].label + 1]
       /\ queue_in'[t] = Append(queue_in[t],
                [type |-> "Yield", call |-> job[t].call, label |-> job[t].label])
    \/ /\ at'[t] = "get"
       /\ \E type \in {"Return", "Raise"} :
            queue_in'[t] = Append(queue_in[t], [type |-> type, call |-> job[t].call])

LEMMA FunInv ==
    ASSUME ThreadsInv, NEW t \in Thread, Fun(t)
    PROVE  /\ at[t] = "fun" /\ job[t] \in Labels
           /\ ThreadsInv' /\ Free \subseteq Free' /\ Alive(t)
           /\ queue_out' = queue_out /\ Tells(t)
<1>1. /\ at[t] = "fun" /\ job[t] \in Labels /\ queue_in[t] \in Seq(ToCaller)
      /\ UNCHANGED <<config, caller, thread, queue_out, async>>
  BY DEF Fun, FunYield, FunEnd, ThreadsInv, ThreadsTypeOK, Jobs
<1>2. CASE FunYield(t)
  <2> DEFINE q == [type |-> "Yield", call |-> job[t].call, label |-> job[t].label]
             next == job[t].label + 1
  <2>1. q \in ToCaller /\ next \in Nat /\ Append(queue_in[t], q) \in Seq(ToCaller)
    BY <1>1 DEF ToCaller, Labels
  <2>2. /\ queue_in' = [queue_in EXCEPT ![t] = Append(@, q)]
        /\ at' = [at EXCEPT ![t] = "yield"]
        /\ job' = [job EXCEPT ![t].label = next]
    BY <1>2 DEF FunYield, Send
  <2> HIDE DEF next
  <2>3. job'[t] = [call |-> job[t].call, label |-> next]
    BY <1>1, <2>2 DEF Labels, ThreadsInv, ThreadsTypeOK
  <2>4. job'[t] \in Labels
    BY <1>1, <2>1, <2>3 DEF Labels
  <2>5. ThreadsTypeOK'
    BY <1>1, <2>1, <2>2, <2>4 DEF ThreadsInv, ThreadsTypeOK
  <2>6. Alive(t) /\ Tells(t) /\ at'[t] = "yield" /\ job'[t] # None
    BY <1>1, <2>2, <2>3, <2>4, NoneAssumption DEF Alive, Tells, ThreadsInv, ThreadsTypeOK, next
  <2> QED
    BY <1>1, <2>5, <2>6, Moved
<1>3. CASE FunEnd(t)
  <2>1. PICK type \in {"Return", "Raise"} :
            /\ queue_in' = [queue_in EXCEPT ![t] =
                    Append(@, [type |-> type, call |-> job[t].call])]
            /\ at' = [at EXCEPT ![t] = "get"]
            /\ job' = [job EXCEPT ![t] = None]
    BY <1>3 DEF FunEnd, Send
  <2>2. [type |-> type, call |-> job[t].call] \in ToCaller
    BY <1>1 DEF ToCaller, Labels
  <2>3. Append(queue_in[t], [type |-> type, call |-> job[t].call]) \in Seq(ToCaller)
    BY <1>1, <2>2
  <2>4. ThreadsTypeOK'
    BY <1>1, <2>1, <2>3 DEF ThreadsInv, ThreadsTypeOK
  <2>5. Alive(t) /\ Tells(t) /\ at'[t] = "get"
    BY <1>1, <2>1 DEF Alive, Tells, ThreadsInv, ThreadsTypeOK
  <2> QED
    BY <1>1, <2>4, <2>5, Moved
<1> QED
  BY <1>2, <1>3 DEF Fun

\* An exception hits a thread that was given up.
LEMMA InterruptInv ==
    ASSUME ThreadsInv, NEW t \in Thread, Interrupt(t)
    PROVE  t # thread /\ ThreadsInv' /\ Free \subseteq Free' /\ Alive(t)
<1>1. at[t] # "ended" /\ t # thread /\ UNCHANGED <<config, caller, thread>>
  BY DEF Interrupt, ThreadsInv, Hit
<1>2. CASE End(t)
  BY <1>1, <1>2, Ended
<1>3. CASE ~End(t)
  <2>1. /\ at[t] # "get" /\ async' = async \ {t} /\ at' = [at EXCEPT ![t] = "fun"]
        /\ UNCHANGED <<queue_in, job>>
        /\ queue_out' = queue_out \/ (Took(t) /\ (at[t] = "fun" \/ queue_out[t] # <<>>))
    BY <1>3 DEF Interrupt
  <2>2. queue_out' = queue_out \/ (Took(t) /\ queue_out[t] # <<>>)
    BY <1>3 DEF Interrupt
  <2>3. queue_out[t] # <<>> => Tail(queue_out[t]) \in Seq(ToThread)
    BY DEF ThreadsInv, ThreadsTypeOK
  <2>4. ThreadsTypeOK'
    BY <1>1, <2>1, <2>2, <2>3 DEF Took, ThreadsInv, ThreadsTypeOK
  <2>5. Alive(t) /\ at'[t] = "fun" /\ job'[t] # None
    BY <1>1, <2>1 DEF Took, Alive, ThreadsInv, ThreadsTypeOK, Jobs
  <2> QED
    BY <1>1, <2>1, <2>4, <2>5, Moved
<1> QED
  BY <1>2, <1>3

-----------------------------------------------------------------------------
(* Every step preserves the invariant.                                     *)

\* What the thread there is does in its turn.
LEMMA InTurn ==
    ASSUME IInv, thread # None, Loop(thread) \/ Fun(thread)
    PROVE  /\ thread \in Thread /\ active # None /\ Alive(thread) /\ queue_in[thread] = <<>>
           /\ queue_out'[thread] = <<>>
           /\ \/ /\ Asked(thread)
                 /\ \E p \in ToThread :
                        /\ queue_out[thread] = <<p>>
                        /\ \/ Calls(thread, p) \/ GoesOn(thread, p)
                           \/ Reports(thread, p) \/ Dies(thread, p)
              \/ at[thread] = "fun" /\ job[thread] \in Labels /\ Tells(thread)
<1>1. thread \in Thread /\ ThreadsInv /\ Turns
  BY DEF IInv, ThreadsInv, ThreadsTypeOK
<1>2. CASE Loop(thread)
  <2>1. /\ queue_out[thread] # <<>> /\ at[thread] \in {"get", "yield"} /\ Alive(thread)
        /\ LET p == Head(queue_out[thread])
           IN  Takes(thread, p) \/ (Dies(thread, p) /\ queue_out'[thread] = <<>>)
    BY <1>1, <1>2, LoopInv
  <2>2. active # None /\ Asked(thread)
    BY <1>1, <2>1 DEF Turns, Idle, Working, Answered
  <2>3. PICK p \in ToThread : queue_out[thread] = <<p>>
    BY <2>2 DEF Asked
  <2>4. Head(queue_out[thread]) = p /\ Tail(queue_out[thread]) = <<>>
    BY <2>3, OnePacket
  <2> QED
    BY <1>1, <2>1, <2>2, <2>3, <2>4 DEF Takes, Asked
<1>3. CASE Fun(thread)
  <2>1. at[thread] = "fun" /\ job[thread] \in Labels /\ Alive(thread) /\ Tells(thread)
        /\ queue_out' = queue_out
    BY <1>1, <1>3, FunInv
  <2>2. active # None /\ Working(thread)
    BY <1>1, <2>1 DEF Turns, Idle, Asked, Answered
  <2> QED
    BY <1>1, <2>1, <2>2 DEF Working
<1> QED
  BY <1>2, <1>3

LEMMA AppendOne == \A p : Append(<<>>, p) = <<p>>
OBVIOUS

LEMMA TurnPasses ==
    ASSUME IInv, thread # None, Loop(thread) \/ Fun(thread)
    PROVE  Working(thread)' \/ Answered(thread)'
<1>1. /\ thread \in Thread /\ Alive(thread) /\ queue_in[thread] = <<>>
      /\ queue_out'[thread] = <<>> /\ thread' = thread
      /\ at[thread] \in {"fun", "yield"} => job[thread] \in Labels
  BY InTurn DEF Alive, IInv, ThreadsInv, ThreadsTypeOK, Jobs
<1>2. CASE \E p \in ToThread : Calls(thread, p) \/ GoesOn(thread, p) \/ Dies(thread, p)
  BY <1>1, <1>2 DEF Calls, GoesOn, Dies, Working
<1>3. CASE \E p \in ToThread : Reports(thread, p)
  <2>1. PICK p \in ToThread : Reports(thread, p)
    BY <1>3
  <2>2. [type |-> Report(p.type), call |-> job[thread].call] \in Outcomes
    BY <1>1, <2>1 DEF Reports, Report, Outcomes, Labels
  <2> QED
    BY <1>1, <2>1, <2>2, AppendOne DEF Reports, Answered
<1>4. CASE Tells(thread) /\ job[thread] \in Labels
  <2>1. /\ [type |-> "Yield", call |-> job[thread].call, label |-> job[thread].label] \in Yields
        /\ \A type \in {"Return", "Raise"} :
                [type |-> type, call |-> job[thread].call] \in Outcomes
    BY <1>4 DEF Yields, Outcomes, Labels
  <2> QED
    BY <1>1, <1>4, <2>1, AppendOne DEF Tells, Answered
<1> QED
  BY <1>2, <1>3, <1>4, InTurn

LEMMA ThreadStepInv ==
    ASSUME IInv, NEW t \in Thread, Loop(t) \/ Fun(t) \/ Interrupt(t)
    PROVE  IInv'
<1>1. ThreadsInv' /\ Free \subseteq Free' /\ Alive(t)
  BY LoopInv, FunInv, InterruptInv DEF IInv
<1>2. UNCHANGED <<config, active, pc, received, result, is_entered, thread>>
  BY <1>1 DEF Alive, caller
<1>3. CallerInv'
  BY <1>2 DEF IInv, CallerInv, CallerTypeOK, OneCall, Results, InProgress, Suspended, Waiting
<1>4. Roomy'
  BY <1>1, <1>2 DEF IInv, Roomy
<1>5. CASE t = thread
  <2>1. thread # None /\ (Loop(thread) \/ Fun(thread))
    BY <1>5, InterruptInv, NoneAssumption DEF IInv
  <2>2. (Working(thread)' \/ Answered(thread)') /\ active # None
    BY <2>1, TurnPasses, InTurn
  <2>3. active' # None /\ thread' # None
    BY <1>2, <2>1, <2>2
  <2>4. Turns'
    BY <2>2, <2>3 DEF Turns
  <2> QED
    BY <1>1, <1>3, <1>4, <2>4 DEF IInv
<1>6. CASE t # thread
  <2>1. Turns'
    BY <1>1, <1>2, <1>6 DEF IInv, ThreadsInv, ThreadsTypeOK, Alive, Turns, Idle, Asked, Working,
                            Answered
  <2> QED
    BY <1>1, <1>3, <1>4, <2>1 DEF IInv
<1> QED
  BY <1>5, <1>6

\* A new thread waits for a call, or has one.
LEMMA RestartIdle ==
    ASSUME ThreadsInv, Free # {}, NEW before \in Seq(ToThread), Restart(before, <<>>),
           active' = None
    PROVE  ThreadsInv' /\ Turns' /\ thread' \in Free /\ Free \ {thread'} \subseteq Free'
<1>1. <<>> \in Seq(ToThread)
  BY NoPacket
<1> QED
  BY <1>1, Restarted DEF Turns, Idle

LEMMA RestartCall ==
    ASSUME ThreadsInv, Free # {}, NEW p \in ToThread, Restart(<<>>, <<p>>)
    PROVE  /\ ThreadsInv' /\ (Turns' \/ active' = None)
           /\ thread' \in Free /\ Free \ {thread'} \subseteq Free'
           /\ at'[thread'] = "get" /\ queue_out'[thread'] = <<p>> /\ queue_in'[thread'] = <<>>
<1>1. <<>> \in Seq(ToThread) /\ <<p>> \in Seq(ToThread)
  BY NoPacket, OnePacket
<1>2. /\ ThreadsInv' /\ thread' \in Free /\ thread' # None /\ Free \ {thread'} \subseteq Free'
      /\ at'[thread'] = "get" /\ queue_out'[thread'] = <<p>> /\ queue_in'[thread'] = <<>>
  BY <1>1, Restarted
<1>3. Turns' \/ active' = None
  BY <1>2 DEF Turns, Asked
<1> QED
  BY <1>2, <1>3

\* The call that runs, and its thread.
LEMMA InCall ==
    ASSUME IInv, NEW c \in Call, pc[c] \in {"get", "get exit"}
    PROVE  /\ active = c /\ active # None /\ c \in InProgress /\ is_entered
           /\ thread # None /\ thread \in Thread
<1>1. active = c /\ active # None
  BY NoneAssumption DEF IInv, CallerInv, OneCall
<1>2. c \in InProgress /\ is_entered
  BY DEF IInv, CallerInv, OneCall, InProgress, Waiting
<1> QED
  BY <1>1, <1>2 DEF IInv, Turns, ThreadsInv, ThreadsTypeOK

LEMMA PacketComes ==
    ASSUME IInv, NEW c \in Call, pc[c] \in {"get", "get exit"}, queue_in[thread] # <<>>
    PROVE  /\ \E q \in ToCaller : queue_in[thread] = <<q>> /\ Head(queue_in[thread]) = q
           /\ Answered(thread)
<1>1. thread \in Thread /\ queue_in[thread] \in Seq(ToCaller) /\ Answered(thread)
  BY InCall DEF IInv, Turns, Asked, Working, ThreadsInv, ThreadsTypeOK
<1>2. PICK q \in Outcomes \cup Yields : queue_in[thread] = <<q>>
  BY <1>1 DEF Answered
<1>3. q \in ToCaller /\ Head(queue_in[thread]) = q
  BY <1>2, OnePacket DEF Outcomes, Yields, ToCaller
<1> QED
  BY <1>1, <1>2, <1>3

LEMMA StartInv == ASSUME IInv, NEW c \in Call, Start(c) PROVE IInv'
<1>1. /\ active = None /\ pc[c] = "new" /\ UNCHANGED <<config, received>>
      /\ CallerInv /\ ThreadsInv /\ config.race2 \in BOOLEAN
      /\ thread # None => thread \in Thread /\ Idle(thread)
  BY SettingsAssumption
     DEF Start, IInv, CallerInv, CallerTypeOK, ThreadsInv, ThreadsTypeOK, Turns
<1>2. Room(IF ~config.race2 THEN 0 ELSE IF Busy THEN 1 ELSE 2)
  BY DEF Start
<1>3. CASE Busy \/ (thread = None /\ ~config.race2)
  <2>1. PICK how \in {"ReentryError", "AssertionError"} : Refuse(c, how)
    BY <1>3 DEF Start
  <2>2. CallerInv' /\ active' = None /\ is_entered' = is_entered
    BY <1>1, <2>1, CallerRefuses DEF Refuse, Ends
  <2>3. CASE config.race2
    <3>1. is_entered /\ Cardinality(Free) >= 2
      BY <1>1, <1>2, <1>3, <2>3, PlacesLeft, FreeIsFinite DEF Busy
    <3>2. Restart(<<>>, <<>>) /\ Free # {}
      BY <1>3, <2>3, <3>1, OnePlace, FreeIsFinite DEF Start
    <3>3. ThreadsInv' /\ Turns' /\ Free' # {}
      BY <1>1, <2>2, <3>1, <3>2, RestartIdle, TwoPlaces, NoPacket
    <3> QED
      BY <2>2, <3>3 DEF IInv, Roomy
  <2>4. CASE ~config.race2
    <3>1. UNCHANGED <<thread, queue_out, async, queue_in, at, job>>
      BY <1>3, <2>4 DEF Start, remote
    <3>2. ThreadsInv' /\ Turns' /\ Roomy'
      BY <1>1, <2>2, <2>4, <3>1
         DEF IInv, ThreadsInv, ThreadsTypeOK, Jobs, Hit, Turns, Idle, Roomy
    <3> QED
      BY <2>2, <3>2 DEF IInv
  <2> QED
    BY <2>3, <2>4
<1>4. CASE ~(Busy \/ (thread = None /\ ~config.race2))
  <2> DEFINE p == [type |-> "Call", call |-> c]
  <2>1. /\ is_entered' = TRUE /\ active' = c /\ pc' = [pc EXCEPT ![c] = "get"]
        /\ UNCHANGED result /\ ~is_entered /\ active' # None
        /\ IF config.race2 THEN Restart(<<>>, <<p>>) ELSE Put(<<p>>) /\ thread # None
    BY <1>4, NoneAssumption DEF Start, Go, Busy
  <2>2. CallerInv'
    BY <1>1, <2>1, CallerStarts
  <2>3. p \in ToThread
    BY Packets
  <2>4. CASE config.race2
    <3>1. Room(2)
      BY <1>2, <2>1, <2>4 DEF Busy
    <3>2. Cardinality(Free) >= 2
      BY <1>1, <2>1, <3>1, PlacesLeft
    <3>3. Free # {}
      BY <3>2, FreeIsFinite, OnePlace
    <3>4. ThreadsInv' /\ Turns' /\ Free' # {}
      BY <1>1, <2>1, <2>3, <2>4, <3>2, <3>3, RestartCall, TwoPlaces
    <3> QED
      BY <2>2, <3>4 DEF IInv, Roomy
  <2>5. CASE ~config.race2
    <3>1. ThreadsInv' /\ thread' = thread /\ Asked(thread)'
      BY <1>1, <2>1, <2>3, <2>5, PutToThread
    <3>2. Turns' /\ Roomy'
      BY <1>1, <2>1, <2>5, <3>1 DEF Turns, Roomy
    <3> QED
      BY <2>2, <3>1, <3>2 DEF IInv
  <2> QED
    BY <2>4, <2>5
<1> QED
  BY <1>3, <1>4

LEMMA LeavesThread ==
    ASSUME IInv, NEW c \in Call, pc[c] \in {"get", "get exit"}, queue_in[thread] # <<>>,
           \/ Leave
           \/ /\ queue_in' = [queue_in EXCEPT ![thread] = Tail(@)]
              /\ UNCHANGED <<thread, queue_out, async, at, job>>,
           active' = None
    PROVE  ThreadsInv' /\ Turns' /\ (Restart(<<>>, <<>>) \/ Free' = Free)
<1>1. ThreadsInv /\ Turns /\ active # None /\ thread # None /\ is_entered
  BY InCall DEF IInv
<1>2. CASE config.race2 /\ Restart(<<>>, <<>>)
  <2>1. Free # {}
    BY <1>1, <1>2 DEF IInv, Roomy
  <2> QED
    BY <1>1, <1>2, <2>1, RestartIdle, NoPacket
<1>3. CASE /\ queue_in' = [queue_in EXCEPT ![thread] = Tail(@)]
           /\ UNCHANGED <<thread, queue_out, async, at, job>>
  <2>1. ThreadsInv' /\ Free' = Free /\ Idle(thread)'
    BY <1>1, <1>3, TakenFromThread
  <2>2. Turns'
    BY <2>1 DEF Turns
  <2> QED
    BY <2>1, <2>2
<1> QED
  BY <1>2, <1>3 DEF Leave

LEMMA GetYieldInv == ASSUME IInv, NEW c \in Call, GetYield(c) PROVE IInv'
<1>1. /\ pc[c] = "get" /\ queue_in[thread] # <<>> /\ active' = None /\ active = c
      /\ pc' = [pc EXCEPT ![c] = "yielded"]
      /\ queue_in' = [queue_in EXCEPT ![thread] = Tail(@)]
      /\ UNCHANGED <<config, result, is_entered, thread, queue_out, at, job, async>>
  BY InCall DEF GetYield, Go
<1>2. PICK q \in ToCaller : Head(queue_in[thread]) = q
  BY <1>1, PacketComes
<1>3. /\ q.type = "Yield"
      /\ received' = [received EXCEPT ![c] =
                Append(@, [call |-> q.call, label |-> q.label])]
  BY <1>2 DEF GetYield
<1>4. [call |-> q.call, label |-> q.label] \in Labels
  BY <1>2, <1>3 DEF ToCaller, Labels
<1>5. received' \in [Call -> Seq(Labels)]
  <2> DEFINE l == [call |-> q.call, label |-> q.label]
  <2>1. received \in [Call -> Seq(Labels)] /\ received[c] \in Seq(Labels)
    BY DEF IInv, CallerInv, CallerTypeOK
  <2>2. Append(received[c], l) \in Seq(Labels)
    BY <1>4, <2>1
  <2> QED
    BY <1>3, <2>1, <2>2
<1>6. CallerInv'
  BY <1>1, <1>5, CallerYields DEF IInv
<1>7. ThreadsInv' /\ Turns' /\ Free' = Free
  <2>1. thread # None /\ active # None
    BY <1>1, InCall
  <2>2. ThreadsInv' /\ Free' = Free /\ Idle(thread)'
    BY <1>1, <2>1, TakenFromThread DEF IInv
  <2> QED
    BY <1>1, <2>2 DEF Turns
<1>8. Roomy'
  BY <1>1, <1>7 DEF IInv, Roomy
<1> QED
  BY <1>6, <1>7, <1>8 DEF IInv

\* A call in progress ends.
LEMMA FinishInv ==
    ASSUME IInv, NEW c \in Call, c \in InProgress, NEW how \in Ends, Finish(c, how),
           UNCHANGED <<config, received>>, ThreadsInv', Turns'
    PROVE  IInv'
<1>1. CallerInv' /\ ~is_entered'
  BY CallerFinishes DEF IInv
<1> QED
  BY <1>1 DEF IInv, Roomy

LEMMA GetEndInv == ASSUME IInv, NEW c \in Call, GetEnd(c) PROVE IInv'
<1>1. /\ pc[c] = "get" /\ queue_in[thread] # <<>> /\ Leave /\ UNCHANGED <<config, received>>
      /\ Finish(c, "returned") \/ Finish(c, "raised")
  BY DEF GetEnd
<1>2. active' = None /\ c \in InProgress
  BY <1>1, InCall DEF Finish
<1>3. ThreadsInv' /\ Turns'
  BY <1>1, <1>2, LeavesThread
<1> QED
  BY <1>1, <1>2, <1>3, FinishInv DEF Ends

LEMMA GetExitInv == ASSUME IInv, NEW c \in Call, GetExit(c) PROVE IInv'
<1>1. /\ pc[c] = "get exit" /\ queue_in[thread] # <<>> /\ UNCHANGED <<config, received>>
      /\ Finish(c, "closed") \/ Finish(c, "AssertionError")
      /\ \/ Leave
         \/ /\ queue_in' = [queue_in EXCEPT ![thread] = Tail(@)]
            /\ UNCHANGED <<thread, queue_out, async, at, job>>
  BY DEF GetExit
<1>2. active' = None /\ c \in InProgress
  BY <1>1, InCall DEF Finish
<1>3. ThreadsInv' /\ Turns'
  BY <1>1, <1>2, LeavesThread
<1> QED
  BY <1>1, <1>2, <1>3, FinishInv DEF Ends

\* The thread is given up with a last message, and a new one waits.
LEMMA GivenUp ==
    ASSUME IInv, config.race2, is_entered, NEW type \in {"Exit", "Raise"},
           Restart(<<[type |-> type]>>, <<>>), active' = None
    PROVE  ThreadsInv' /\ Turns'
<1>1. Free # {}
  BY DEF IInv, Roomy
<1>2. <<[type |-> type]>> \in Seq(ToThread)
  BY Packets, OnePacket
<1> QED
  BY <1>1, <1>2, RestartIdle DEF IInv

LEMMA TimeoutInv == ASSUME IInv, NEW c \in Call, Timeout(c) PROVE IInv'
<1>1. active' = None /\ c \in InProgress /\ is_entered
  BY InCall DEF Timeout, Finish
<1>2. ThreadsInv' /\ Turns'
  BY <1>1, GivenUp DEF Timeout
<1> QED
  BY <1>1, <1>2, FinishInv DEF Timeout, Ends

LEMMA ResumeInv ==
    ASSUME IInv, NEW c \in Call, NEW type \in {"Yield", "Raise", "Exit"}, Resume(c, type)
    PROVE  IInv'
<1>1. /\ active = None /\ pc[c] = "yielded" /\ thread # None /\ UNCHANGED <<config, received>>
      /\ c \in InProgress /\ is_entered /\ Idle(thread)
  BY WhoRuns DEF Resume, IInv, Turns, InProgress, Suspended
<1>2. CASE type = "Raise" /\ config.race2
  <2>1. Restart(<<[type |-> type]>>, <<>>) /\ Finish(c, "stopped")
    BY <1>2 DEF Resume
  <2>2. ThreadsInv' /\ Turns'
    BY <1>1, <1>2, <2>1, GivenUp DEF Finish
  <2> QED
    BY <1>1, <2>1, <2>2, FinishInv DEF Ends
<1>3. CASE ~(type = "Raise" /\ config.race2)
  <2> DEFINE where == IF type = "Exit" THEN "get exit" ELSE "get"
  <2>1. /\ Put(<<[type |-> type]>>) /\ active' = c /\ UNCHANGED <<result, is_entered>>
        /\ pc' = [pc EXCEPT ![c] = where]
    BY <1>3 DEF Resume, Go
  <2>2. CallerInv'
    BY <1>1, <2>1, CallerResumes DEF IInv
  <2>3. ThreadsInv' /\ Free' = Free /\ thread' = thread /\ Asked(thread)'
    BY <1>1, <2>1, Packets, PutToThread DEF IInv
  <2>4. active' # None
    BY <2>1, NoneAssumption
  <2>5. Turns' /\ Roomy'
    BY <1>1, <2>1, <2>3, <2>4 DEF IInv, Turns, Roomy
  <2> QED
    BY <2>2, <2>3, <2>5 DEF IInv
<1> QED
  BY <1>2, <1>3

LEMMA ResumeClosedInv == ASSUME IInv, NEW c \in Call, ResumeClosed(c) PROVE IInv'
<1>1. /\ pc[c] = "yielded" /\ thread = None /\ Finish(c, "AttributeError")
      /\ UNCHANGED <<config, received, thread, queue_out, queue_in, at, job, async>>
  BY DEF ResumeClosed, remote
<1>2. c \in InProgress /\ active' = None
  BY <1>1 DEF InProgress, Suspended, Finish
<1>3. ThreadsInv' /\ Turns'
  BY <1>1, <1>2 DEF IInv, ThreadsInv, ThreadsTypeOK, Jobs, Hit, Turns
<1> QED
  BY <1>1, <1>2, <1>3, FinishInv DEF Ends

LEMMA OpenInv == ASSUME IInv, Open PROVE IInv'
<1>1. /\ active = None /\ Restart(<<>>, <<>>) /\ Room(1)
      /\ UNCHANGED <<config, active, pc, received, result, is_entered>>
  BY DEF Open, caller
<1>2. CallerInv'
  BY <1>1 DEF IInv, CallerInv, CallerTypeOK, OneCall, Results, InProgress, Suspended, Waiting
<1>3. Cardinality(Free) >= 1 + (IF is_entered THEN 1 ELSE 0) /\ Cardinality(Free) \in Nat
  BY <1>1, PlacesLeft, FreeIsFinite DEF IInv
<1>4. Cardinality(Free) >= 1 /\ (is_entered => Cardinality(Free) >= 2)
  BY <1>3
<1>5. /\ ThreadsInv' /\ Turns' /\ Free \ {thread'} \subseteq Free'
  BY <1>1, <1>4, OnePlace, RestartIdle, NoPacket DEF IInv
<1>6. Roomy'
  BY <1>1, <1>4, <1>5, TwoPlaces DEF Roomy
<1> QED
  BY <1>2, <1>5, <1>6 DEF IInv

LEMMA CloseInv == ASSUME IInv, Close PROVE IInv'
<1>1. /\ thread' = None /\ queue_out' = Destructed(<<>>) /\ async' = Interrupted /\ active = None
      /\ UNCHANGED <<config, active, pc, received, result, is_entered, queue_in, at, job>>
  BY DEF Close, caller, remote
<1>2. CallerInv'
  BY <1>1 DEF IInv, CallerInv, CallerTypeOK, OneCall, Results, InProgress, Suspended, Waiting
<1>3. ThreadsTypeOK'
  BY <1>1, GivesUp, NoPacket DEF IInv, ThreadsInv, ThreadsTypeOK
<1>4. Jobs' /\ Hit'
  BY <1>1, GivesUp, NoPacket, NoneAssumption DEF IInv, ThreadsInv, Jobs, Hit
<1>5. Roomy' /\ Turns'
  <2>1. Free \subseteq Free'
    BY <1>1, NoneAssumption DEF Free
  <2> QED
    BY <1>1, <2>1 DEF IInv, Roomy, Turns
<1> QED
  BY <1>2, <1>3, <1>4, <1>5 DEF IInv, ThreadsInv

LEMMA InitInv == Init => IInv
<1> SUFFICES ASSUME Init PROVE IInv
  OBVIOUS
<1>1. CallerInv
  BY NoPacket, NoneAssumption
     DEF Init, CallerInv, CallerTypeOK, OneCall, Results, InProgress, Suspended, Waiting
<1>2. ThreadsInv
  BY NoPacket DEF Init, ThreadsInv, ThreadsTypeOK, Jobs, Hit
<1> QED
  BY <1>1, <1>2 DEF Init, IInv, Roomy, Turns

LEMMA NextInv == IInv /\ [Next]_vars => IInv'
<1> SUFFICES ASSUME IInv, [Next]_vars PROVE IInv'
  OBVIOUS
<1>1. CASE UNCHANGED vars
  BY <1>1 DEF vars, caller, remote, IInv, CallerInv, CallerTypeOK, OneCall, Results, InProgress,
              Suspended, Waiting, ThreadsInv, ThreadsTypeOK, Jobs, Hit, Roomy, Free, Turns, Idle,
              Asked, Working, Answered
<1>2. ASSUME NEW c \in Call, Start(c) \/ CallStep(c) \/ ResumeClosed(c) PROVE IInv'
  BY <1>2, StartInv, GetYieldInv, GetEndInv, TimeoutInv, GetExitInv, ResumeClosedInv DEF CallStep
<1>3. ASSUME NEW t \in Thread, Loop(t) \/ Fun(t) \/ Interrupt(t) PROVE IInv'
  BY <1>3, ThreadStepInv
<1> QED
  BY <1>1, <1>2, <1>3, ResumeInv, OpenInv, CloseInv DEF Next

LEMMA Invariance == Spec => []IInv
BY InitInv, NextInv, PTL DEF Spec

\* What becomes of the calls that lose their thread.
LEMMA LostStep == [Next]_vars => lost' = lost \/ lost' = lost \cup Suspended
<1> SUFFICES ASSUME [Next]_vars PROVE lost' = lost \/ lost' = lost \cup Suspended
  OBVIOUS
<1>1. CASE UNCHANGED vars
  BY <1>1 DEF vars
<1>2. CASE Next
  BY <1>2 DEF Next, Start, CallStep, GetYield, GetEnd, Timeout, GetExit, Resume, ResumeClosed,
              Open, Close, Loop, MainGet, YieldGet, Fun, FunYield, FunEnd, Interrupt, Lose
<1> QED
  BY <1>1, <1>2

\* Every reachable state is well-typed.
THEOREM TypeCorrect == Spec => []TypeOK
<1>1. IInv /\ lost \subseteq Call => TypeOK
  BY DEF IInv, CallerInv, CallerTypeOK, ThreadsInv, ThreadsTypeOK, TypeOK
<1>2. Init => lost \subseteq Call
  BY DEF Init
<1>3. lost \subseteq Call /\ [Next]_vars => (lost \subseteq Call)'
  BY LostStep DEF Suspended
<1> QED
  BY <1>1, <1>2, <1>3, Invariance, PTL DEF Spec

\* Caller and thread take turns: one packet at most is on its way to or from the
\* current thread, or being handled by it (queue_out and queue_in of thread.py).
THEOREM TakeTurnsAlways == Spec => []TakeTurns
<1>1. ASSUME IInv PROVE TakeTurns
  <2> SUFFICES ASSUME thread # None
               PROVE  Len(queue_out[thread]) + Len(queue_in[thread])
                        + (IF at[thread] = "fun" THEN 1 ELSE 0) <= 1
    BY DEF TakeTurns
  <2>1. \A p : Len(<<p>>) = 1
    OBVIOUS
  <2>2. Len(<<>>) = 0
    OBVIOUS
  <2>3. CASE Idle(thread)
    BY <2>2, <2>3 DEF Idle
  <2>4. CASE Asked(thread)
    BY <2>1, <2>2, <2>4 DEF Asked
  <2>5. CASE Working(thread)
    BY <2>2, <2>5 DEF Working
  <2>6. CASE Answered(thread)
    <3>1. Len(queue_out[thread]) = 0 /\ Len(queue_in[thread]) = 1 /\ at[thread] # "fun"
      BY <2>1, <2>2, <2>6 DEF Answered
    <3> QED
      BY <3>1
  <2> QED
    BY <1>1, <2>3, <2>4, <2>5, <2>6 DEF IInv, Turns
<1> QED
  BY <1>1, Invariance, PTL

\* The generator is marked as entered while a call is in progress, of which there
\* is one at most, and at no other time (race2's thread.py:204-206 and its finally block).
THEOREM EnteredByOneAlways == Spec => []EnteredByOne
<1>1. ASSUME IInv PROVE EnteredByOne
  <2>1. CASE is_entered
    <3>1. PICK c \in InProgress : InProgress = {c}
      BY <1>1, <2>1 DEF IInv, CallerInv, OneCall
    <3> QED
      BY <2>1, <3>1, FS_Singleton DEF EnteredByOne, InProgress
  <2>2. CASE ~is_entered
    BY <1>1, <2>2, FS_EmptySet DEF IInv, CallerInv, OneCall, EnteredByOne, InProgress
  <2> QED
    BY <2>1, <2>2
<1> QED
  BY <1>1, Invariance, PTL

-----------------------------------------------------------------------------
(* A suspended call has its thread.                                        *)

Served == \A c \in Suspended \ lost : thread # None /\ at[thread] = "yield"

LEMMA ServedKept ==
    ASSUME Served, lost \subseteq lost',
           Suspended' = {} \/ (Suspended' = Suspended /\ (Suspended # {} /\ thread # None /\
                at[thread] = "yield" => thread' # None /\ at'[thread'] = "yield"))
    PROVE  Served'
BY DEF Served

LEMMA ServedFinish ==
    ASSUME IInv, NEW c \in Call, c \in InProgress, NEW how \in Ends, Finish(c, how),
           UNCHANGED <<config, received>>
    PROVE  Served'
BY CallerFinishes DEF IInv, Served

LEMMA ServedStart == ASSUME IInv, Served, NEW c \in Call, Start(c) PROVE Served'
<1>1. active = None /\ pc[c] = "new" /\ UNCHANGED <<config, received>> /\ CallerInv
  BY DEF Start, IInv
<1>2. CASE Busy \/ (thread = None /\ ~config.race2)
  <2>1. PICK how \in {"ReentryError", "AssertionError"} : Refuse(c, how)
    BY <1>2 DEF Start
  <2>2. Suspended' = Suspended
    BY <1>1, <2>1, CallerRefuses DEF Ends
  <2>3. CASE ~config.race2
    BY <1>2, <2>2, <2>3, ServedKept DEF Start, remote
  <2>4. CASE config.race2
    BY <1>2, <2>2, <2>4 DEF Start, Lose, Served
  <2> QED
    BY <2>3, <2>4
<1>3. CASE ~(Busy \/ (thread = None /\ ~config.race2))
  <2>1. /\ is_entered' = TRUE /\ active' = c /\ pc' = [pc EXCEPT ![c] = "get"]
        /\ UNCHANGED result /\ ~is_entered
    BY <1>3 DEF Start, Go, Busy
  <2> QED
    BY <1>1, <2>1, CallerStarts DEF Served
<1> QED
  BY <1>2, <1>3

LEMMA ServedGetYield == ASSUME IInv, Served, NEW c \in Call, GetYield(c) PROVE Served'
<1>1. /\ pc[c] = "get" /\ queue_in[thread] # <<>> /\ Head(queue_in[thread]).type = "Yield"
      /\ UNCHANGED <<thread, at>>
  BY DEF GetYield
<1>2. PICK q \in ToCaller : queue_in[thread] = <<q>> /\ q.type = "Yield"
  BY <1>1, PacketComes
<1>3. at[thread] = "yield"
  BY <1>1, <1>2, PacketComes, SamePacket DEF Answered, Outcomes
<1> QED
  BY <1>1, <1>3, InCall DEF Served

LEMMA ServedResume ==
    ASSUME IInv, Served, NEW c \in Call, NEW type \in {"Yield", "Raise", "Exit"}, Resume(c, type)
    PROVE  Served'
<1>1. /\ active = None /\ pc[c] = "yielded" /\ UNCHANGED <<config, received>> /\ c \in InProgress
  BY DEF Resume, InProgress, Suspended
<1>2. CASE Finish(c, "stopped")
  BY <1>1, <1>2, ServedFinish DEF Ends
<1>3. CASE ~Finish(c, "stopped")
  <2> DEFINE where == IF type = "Exit" THEN "get exit" ELSE "get"
  <2>1. active' = c /\ UNCHANGED <<result, is_entered>> /\ pc' = [pc EXCEPT ![c] = where]
    BY <1>3 DEF Resume, Go
  <2> QED
    BY <1>1, <2>1, CallerResumes DEF Served, IInv
<1> QED
  BY <1>2, <1>3

LEMMA ServedStep == IInv /\ Served /\ [Next]_vars => Served'
<1> SUFFICES ASSUME IInv, Served, [Next]_vars PROVE Served'
  OBVIOUS
<1>1. CASE UNCHANGED vars
  BY <1>1 DEF vars, caller, remote, Served, Suspended
<1>2. ASSUME NEW c \in Call, GetEnd(c) \/ Timeout(c) \/ GetExit(c) \/ ResumeClosed(c) PROVE Served'
  <2>1. c \in InProgress /\ UNCHANGED <<config, received>>
    BY <1>2 DEF GetEnd, Timeout, GetExit, ResumeClosed, InProgress, Waiting, Suspended
  <2>2. \E how \in Ends : Finish(c, how)
    BY <1>2 DEF GetEnd, Timeout, GetExit, ResumeClosed, Ends
  <2> QED
    BY <2>1, <2>2, ServedFinish
<1>3. CASE Open
  <2>1. thread = None /\ UNCHANGED <<pc, lost>>
    BY <1>3 DEF Open, caller
  <2> QED
    BY <2>1 DEF Served, Suspended
<1>4. CASE Close
  <2>1. UNCHANGED pc /\ lost' = lost \cup Suspended
    BY <1>4 DEF Close, caller, Lose
  <2> QED
    BY <2>1 DEF Served, Suspended
<1>5. ASSUME NEW t \in Thread, Loop(t) \/ Fun(t) \/ Interrupt(t) PROVE Served'
  <2>1. Alive(t)
    BY <1>5, LoopInv, FunInv, InterruptInv DEF IInv
  <2>2. UNCHANGED <<pc, thread, lost>>
    BY <1>5, <2>1 DEF Alive, caller, Loop, MainGet, YieldGet, Fun, FunYield, FunEnd, Interrupt
  <2>3. Suspended # {} /\ thread # None => t # thread
    <3> SUFFICES ASSUME Suspended # {}, thread # None, t = thread PROVE FALSE
      OBVIOUS
    <3>1. active # None
      BY <1>5, InTurn, InterruptInv DEF IInv
    <3> QED
      BY <3>1, WhoRuns DEF IInv
  <2>4. Suspended' = Suspended
    BY <2>2 DEF Suspended
  <2>5. thread # None /\ t # thread => at'[thread] = at[thread]
    BY <2>1 DEF Alive, IInv, ThreadsInv, ThreadsTypeOK
  <2> QED
    BY <2>2, <2>3, <2>4, <2>5 DEF Served
<1> QED
  BY <1>1, <1>2, <1>3, <1>4, <1>5, ServedStart, ServedGetYield, ServedResume DEF Next, CallStep

-----------------------------------------------------------------------------
(* A call gets its own packets.                                            *)

NextLabel(c) == [call |-> c, label |-> Len(received[c]) + 1]
AfterLabel(c) == [call |-> c, label |-> Len(received[c]) + 2]

OwnReceived ==
    /\ \A c \in Call : pc[c] = "new" => received[c] = <<>>
    /\ \A c \in Call : \A i \in DOMAIN received[c] :
            received[c][i] = [call |-> c, label |-> i]

\* The thread there is waits in a yield for the suspended call, or, in race, for
\* nobody.
OwnYield ==
    thread # None /\ at[thread] = "yield" =>
        /\ \A c \in Suspended : job[thread] = NextLabel(c)
        /\ active = None /\ ~config.race2 => Suspended # {}

\* A call's packet to the thread, and one from the thread to the call.
OwnRequest(c, p) ==
    /\ p.type = "Call" =>
            p.call = c /\ received[c] = <<>> /\ at[thread] = "get" /\ pc[c] = "get"
    /\ at[thread] = "yield" => job[thread] = NextLabel(c)
    /\ ~config.race2 /\ pc[c] = "get exit" => p.type = "Exit"
OwnAnswer(c, q) ==
    /\ q.call = c
    /\ q.type = "Yield" => q.label = Len(received[c]) + 1 /\ job[thread] = AfterLabel(c)
    /\ ~config.race2 /\ pc[c] = "get exit" => q.type = "Exit"

OwnTurn ==
    \A c \in Waiting :
        /\ \A p \in ToThread : queue_out[thread] = <<p>> => OwnRequest(c, p)
        /\ at[thread] = "fun" => job[thread] = NextLabel(c) /\ (config.race2 \/ pc[c] = "get")
        /\ \A q \in ToCaller : queue_in[thread] = <<q>> => OwnAnswer(c, q)

OwnInv == OwnReceived /\ OwnYield /\ OwnTurn

\* The caller takes nothing, and no call runs afterwards.
LEMMA OwnKept ==
    ASSUME OwnReceived, received' = received,
           \A c \in Call : pc'[c] = "new" => pc[c] = "new"
    PROVE  OwnReceived'
BY DEF OwnReceived

\* After it no call is in progress.
LEMMA OwnFinish ==
    ASSUME IInv, OwnInv, NEW c \in Call, c \in InProgress, NEW how \in Ends, Finish(c, how),
           UNCHANGED <<config, received>>,
           config.race2 \/ (thread' # None => at'[thread'] # "yield")
    PROVE  OwnInv'
<1>1. Suspended' = {} /\ Waiting' = {} /\ pc' = [pc EXCEPT ![c] = "ended"]
  BY CallerFinishes DEF IInv, Finish, Go
<1>2. OwnReceived'
  BY <1>1, OwnKept DEF OwnInv, IInv, CallerInv, CallerTypeOK
<1>3. OwnYield'
  BY <1>1 DEF OwnYield
<1>4. OwnTurn'
  BY <1>1 DEF OwnTurn
<1> QED
  BY <1>2, <1>3, <1>4 DEF OwnInv

LEMMA OwnStart == ASSUME IInv, OwnInv, NEW c \in Call, Start(c) PROVE OwnInv'
<1>1. /\ active = None /\ pc[c] = "new" /\ UNCHANGED <<config, received>>
      /\ CallerInv /\ ThreadsInv /\ config.race2 \in BOOLEAN /\ Waiting = {}
      /\ thread # None => thread \in Thread /\ Idle(thread)
      /\ <<>> \in Seq(ToThread)
  BY SettingsAssumption, WhoRuns, NoPacket
     DEF Start, IInv, CallerInv, CallerTypeOK, ThreadsInv, ThreadsTypeOK, Turns
<1>2. CASE Busy \/ (thread = None /\ ~config.race2)
  <2>1. PICK how \in {"ReentryError", "AssertionError"} : Refuse(c, how)
    BY <1>2 DEF Start
  <2>2. /\ Suspended' = Suspended /\ Waiting' = {} /\ active' = None /\ config' = config
        /\ pc' = [pc EXCEPT ![c] = "ended"]
    BY <1>1, <2>1, CallerRefuses DEF Refuse, Ends, Go
  <2>3. OwnReceived' /\ OwnTurn'
    BY <1>1, <2>2, OwnKept DEF OwnInv, OwnTurn, CallerInv, CallerTypeOK
  <2>4. OwnYield'
    <3>1. CASE config.race2
      <4>1. /\ Free # {} /\ Restart(<<>>, <<>>)
        BY <1>1, <1>2, <3>1, PlacesLeft, OnePlace, FreeIsFinite DEF Start, Busy
      <4>2. at'[thread'] = "get"
        BY <1>1, <4>1, Restarted
      <4> QED
        BY <4>2 DEF OwnYield
    <3>2. CASE ~config.race2
      <4>1. UNCHANGED <<thread, at, job>>
        BY <1>2, <3>2 DEF Start, remote
      <4> QED
        BY <1>1, <2>2, <4>1 DEF OwnInv, OwnYield, NextLabel
    <3> QED
      BY <3>1, <3>2
  <2> QED
    BY <2>3, <2>4 DEF OwnInv
<1>3. CASE ~(Busy \/ (thread = None /\ ~config.race2))
  <2> DEFINE p == [type |-> "Call", call |-> c]
  <2>1. /\ is_entered' = TRUE /\ active' = c /\ pc' = [pc EXCEPT ![c] = "get"]
        /\ UNCHANGED result /\ ~is_entered /\ active' # None /\ pc'[c] = "get"
        /\ IF config.race2 THEN Restart(<<>>, <<p>>) ELSE Put(<<p>>) /\ thread # None
    BY <1>1, <1>3, NoneAssumption DEF Start, Go, Busy, CallerInv, CallerTypeOK
  <2>2. Suspended = {} /\ Suspended' = {} /\ Waiting' = {c} /\ p \in ToThread
    BY <1>1, <2>1, CallerStarts, WhoRuns, Packets
  <2>3. /\ at'[thread'] = "get" /\ queue_out'[thread'] = <<p>> /\ queue_in'[thread'] = <<>>
    <3>1. CASE config.race2
      <4>1. Room(2)
        BY <1>3, <3>1 DEF Start, Busy
      <4>2. Free # {}
        BY <1>1, <2>1, <4>1, PlacesLeft, FreeIsFinite, OnePlace
      <4> QED
        BY <1>1, <2>1, <2>2, <3>1, <4>2, RestartCall
    <3>2. CASE ~config.race2
      <4>1. /\ thread' = thread /\ queue_out'[thread] = <<p>> /\ UNCHANGED <<at, queue_in>>
        BY <1>1, <2>1, <2>2, <3>2, PutToThread
      <4>2. at[thread] = "get" /\ queue_in[thread] = <<>>
        BY <1>1, <2>1, <2>2, <3>2 DEF OwnInv, OwnYield, Idle
      <4> QED
        BY <4>1, <4>2
    <3> QED
      BY <3>1, <3>2
  <2>4. received'[c] = <<>>
    BY <1>1 DEF OwnInv, OwnReceived
  <2>5. OwnReceived'
    BY <1>1, <2>1, OwnKept DEF OwnInv, CallerInv, CallerTypeOK
  <2>6. OwnYield'
    BY <2>3 DEF OwnYield
  <2>7. OwnTurn'
    <3>1. \A r \in ToThread : queue_out'[thread'] = <<r>> => r = p
      BY <2>3, SamePacket
    <3>2. \A q : queue_in'[thread'] # <<q>>
      BY <2>3, OnePacket
    <3>3. ASSUME NEW r \in ToThread, queue_out'[thread'] = <<r>> PROVE OwnRequest(c, r)'
      <4>1. r.type = "Call" /\ r.call = c
        BY <3>1, <3>3
      <4> QED
        BY <2>1, <2>3, <2>4, <4>1 DEF OwnRequest
    <3>4. \A q : queue_in'[thread'] = <<q>> => FALSE
      BY <3>2
    <3> QED
      BY <2>2, <2>3, <3>3, <3>4 DEF OwnTurn
  <2> QED
    BY <2>5, <2>6, <2>7 DEF OwnInv
<1> QED
  BY <1>2, <1>3

\* A call takes its answer, and its thread has answered that.
LEMMA OwnComes ==
    ASSUME IInv, OwnInv, NEW c \in Call, pc[c] \in {"get", "get exit"}, queue_in[thread] # <<>>
    PROVE  \E q \in ToCaller :
            /\ Head(queue_in[thread]) = q /\ OwnAnswer(c, q)
            /\ q.type = "Yield" <=> at[thread] = "yield"
<1>1. PICK q \in ToCaller : queue_in[thread] = <<q>> /\ Head(queue_in[thread]) = q
  BY PacketComes
<1>2. OwnAnswer(c, q)
  BY <1>1 DEF OwnInv, OwnTurn, Waiting
<1>3. q.type = "Yield" <=> at[thread] = "yield"
  BY <1>1, PacketComes, SamePacket DEF Answered, Outcomes, Yields
<1> QED
  BY <1>1, <1>2, <1>3

LEMMA OneMore == \A n \in Nat : n + 1 + 1 = n + 2
OBVIOUS

LEMMA OwnGetYield == ASSUME IInv, OwnInv, NEW c \in Call, GetYield(c) PROVE OwnInv'
<1>1. /\ pc[c] = "get" /\ queue_in[thread] # <<>> /\ active' = None /\ active = c
      /\ pc' = [pc EXCEPT ![c] = "yielded"]
      /\ UNCHANGED <<config, result, is_entered, thread, queue_out, at, job, async>>
      /\ received \in [Call -> Seq(Labels)] /\ pc'[c] = "yielded"
  BY InCall DEF GetYield, Go, IInv, CallerInv, CallerTypeOK
<1>2. PICK q \in ToCaller : Head(queue_in[thread]) = q /\ OwnAnswer(c, q)
  BY <1>1, OwnComes
<1> DEFINE l == [call |-> q.call, label |-> q.label]
<1>3. /\ q.type = "Yield"
      /\ received' = [received EXCEPT ![c] = Append(@, l)]
  BY <1>2 DEF GetYield
<1>4. received'[c] = Append(received[c], l) /\ \A d \in Call \ {c} : received'[d] = received[d]
  BY <1>1, <1>3
<1>5. l = NextLabel(c) /\ job[thread] = AfterLabel(c)
  BY <1>2, <1>3 DEF OwnAnswer, NextLabel
<1>6. received[c] \in Seq(Labels) /\ Len(received[c]) \in Nat
  BY <1>1
<1>7. Len(received'[c]) = Len(received[c]) + 1
  BY <1>4, <1>6
<1>8. Suspended' = {c} /\ Waiting' = {}
  <2>1. received' \in [Call -> Seq(Labels)]
    BY GetYieldInv DEF IInv, CallerInv, CallerTypeOK
  <2> QED
    BY <1>1, <2>1, CallerYields DEF IInv
<1>9. OwnReceived'
  <2>1. ASSUME NEW d \in Call PROVE pc'[d] = "new" => received'[d] = <<>>
    BY <1>1, <1>4 DEF OwnInv, OwnReceived, IInv, CallerInv, CallerTypeOK
  <2>2. ASSUME NEW i \in DOMAIN received'[c]
        PROVE  received'[c][i] = [call |-> c, label |-> i]
    <3>1. i \in 1..Len(received[c]) \/ i = Len(received[c]) + 1
      BY <1>4, <1>6, <2>2
    <3>2. CASE i \in 1..Len(received[c])
      <4>1. i \in DOMAIN received[c] /\ received'[c][i] = received[c][i]
        BY <1>4, <1>6, <3>2
      <4> QED
        BY <4>1 DEF OwnInv, OwnReceived
    <3>3. CASE i = Len(received[c]) + 1
      <4>1. received'[c][i] = l
        BY <1>4, <1>6, <3>3
      <4> QED
        BY <1>5, <3>3, <4>1 DEF NextLabel
    <3> QED
      BY <3>1, <3>2, <3>3
  <2>3. ASSUME NEW d \in Call, d # c, NEW i \in DOMAIN received'[d]
        PROVE  received'[d][i] = [call |-> d, label |-> i]
    BY <1>4, <2>3 DEF OwnInv, OwnReceived
  <2> QED
    BY <2>1, <2>2, <2>3 DEF OwnReceived
<1>10. OwnYield'
  <2>1. Len(received'[c]) + 1 = Len(received[c]) + 2
    BY <1>6, <1>7
  <2>2. NextLabel(c)' = AfterLabel(c)
    BY <2>1 DEF NextLabel, AfterLabel
  <2> QED
    BY <1>1, <1>5, <1>8, <2>2 DEF OwnYield
<1>11. OwnTurn'
  BY <1>8 DEF OwnTurn
<1> QED
  BY <1>9, <1>10, <1>11 DEF OwnInv

LEMMA OwnLeaves ==
    ASSUME IInv, OwnInv, NEW c \in Call, GetEnd(c) \/ GetExit(c)
    PROVE  OwnInv'
<1>1. /\ pc[c] \in {"get", "get exit"} /\ queue_in[thread] # <<>>
      /\ UNCHANGED <<config, received>>
  BY DEF GetEnd, GetExit
<1>2. PICK q \in ToCaller :
        /\ Head(queue_in[thread]) = q /\ OwnAnswer(c, q)
        /\ q.type = "Yield" <=> at[thread] = "yield"
  BY <1>1, OwnComes
<1>3. c \in InProgress /\ \E how \in Ends : Finish(c, how)
  BY <1>1, InCall DEF GetEnd, GetExit, Ends
<1>4. CASE ~config.race2
  <2>1. q.type # "Yield"
    BY <1>2, <1>4 DEF GetEnd, GetExit, OwnAnswer
  <2>2. UNCHANGED <<thread, at>>
    BY <1>4 DEF GetEnd, GetExit, Leave
  <2> QED
    BY <1>1, <1>2, <1>3, <2>1, <2>2, OwnFinish
<1>5. CASE config.race2
  BY <1>1, <1>3, <1>5, OwnFinish
<1> QED
  BY <1>4, <1>5

LEMMA OwnTimeout ==
    ASSUME IInv, OwnInv, NEW c \in Call, Timeout(c) \/ ResumeClosed(c)
    PROVE  OwnInv'
<1>1. /\ c \in InProgress /\ UNCHANGED <<config, received>>
      /\ config.race2 \/ thread' = None
  BY DEF Timeout, ResumeClosed, InProgress, Waiting, Suspended
<1>2. \E how \in Ends : Finish(c, how)
  BY DEF Timeout, ResumeClosed, Ends
<1> QED
  BY <1>1, <1>2, OwnFinish

LEMMA OwnResume ==
    ASSUME IInv, OwnInv, NEW c \in Call, NEW type \in {"Yield", "Raise", "Exit"}, Resume(c, type)
    PROVE  OwnInv'
<1>1. /\ active = None /\ pc[c] = "yielded" /\ thread # None /\ UNCHANGED <<config, received>>
      /\ c \in InProgress /\ c \in Suspended /\ Idle(thread)
  BY WhoRuns DEF Resume, IInv, Turns, InProgress, Suspended
<1>2. CASE type = "Raise" /\ config.race2
  BY <1>1, <1>2, OwnFinish DEF Resume, Ends
<1>3. CASE ~(type = "Raise" /\ config.race2)
  <2> DEFINE where == IF type = "Exit" THEN "get exit" ELSE "get"
             p == [type |-> type]
  <2>1. /\ Put(<<p>>) /\ active' = c /\ UNCHANGED <<result, is_entered>>
        /\ pc' = [pc EXCEPT ![c] = where]
    BY <1>3 DEF Resume, Go
  <2>2. Suspended' = {} /\ Waiting' = {c}
    BY <1>1, <2>1, CallerResumes DEF IInv
  <2>3. /\ thread' = thread /\ queue_out'[thread] = <<p>> /\ UNCHANGED <<at, job, queue_in>>
    BY <1>1, <2>1, Packets, PutToThread DEF IInv
  <2>4. pc'[c] = where /\ OwnReceived'
    BY <1>1, <2>1, OwnKept DEF OwnInv, IInv, CallerInv, CallerTypeOK
  <2>5. OwnYield'
    BY <2>1, <2>2, NoneAssumption DEF OwnYield
  <2>6. NextLabel(c)' = NextLabel(c)
    BY <1>1 DEF NextLabel
  <2>7. ASSUME NEW r \in ToThread, queue_out'[thread'] = <<r>> PROVE OwnRequest(c, r)'
    <3>1. r = p
      BY <2>3, <2>7, SamePacket
    <3>2. at'[thread'] = "yield" => job'[thread'] = NextLabel(c)'
      BY <1>1, <2>3, <2>6 DEF OwnInv, OwnYield
    <3> QED
      BY <2>4, <3>1, <3>2 DEF OwnRequest
  <2>8. OwnTurn'
    <3>1. \A q : queue_in'[thread'] = <<q>> => FALSE
      BY <1>1, <2>3, OnePacket DEF Idle
    <3>2. at'[thread'] # "fun"
      BY <1>1, <2>3 DEF Idle
    <3> QED
      BY <2>2, <2>7, <3>1, <3>2 DEF OwnTurn
  <2> QED
    BY <2>4, <2>5, <2>8 DEF OwnInv
<1> QED
  BY <1>2, <1>3

LEMMA OwnOpenClose == ASSUME IInv, OwnInv, Open \/ Close PROVE OwnInv'
<1>1. active = None /\ UNCHANGED <<config, pc, received>>
  BY DEF Open, Close, caller
<1>2. Waiting' = {}
  BY <1>1, WhoRuns DEF IInv, Waiting
<1>3. thread' = None \/ at'[thread'] = "get"
  <2>1. CASE Open
    <3>1. Free # {}
      BY <1>1, <2>1, PlacesLeft, FreeIsFinite, OnePlace DEF Open, IInv
    <3> QED
      BY <2>1, <3>1, Restarted, NoPacket DEF Open, IInv
  <2>2. CASE Close
    BY <2>2 DEF Close
  <2> QED
    BY <2>1, <2>2
<1>4. OwnReceived'
  BY <1>1, OwnKept DEF OwnInv
<1> QED
  BY <1>2, <1>3, <1>4 DEF OwnInv, OwnYield, OwnTurn

\* The thread there is works for the call that runs.
LEMMA OwnWork ==
    ASSUME IInv, OwnInv, Separate, thread # None, Loop(thread) \/ Fun(thread)
    PROVE  OwnInv'
<1>1. /\ thread \in Thread /\ active # None /\ Alive(thread) /\ queue_in[thread] = <<>>
      /\ queue_out'[thread] = <<>>
  BY InTurn
<1>2. UNCHANGED <<config, active, pc, received, result, is_entered, thread>>
  BY <1>1 DEF Alive, caller
<1>3. PICK c \in Call : active = c /\ Waiting = {c} /\ Suspended = {}
  BY <1>1, WhoRuns DEF IInv, CallerInv, CallerTypeOK
<1>4. Waiting' = {c} /\ Suspended' = {}
  BY <1>2, <1>3 DEF Waiting, Suspended
<1>5. NextLabel(c)' = NextLabel(c) /\ AfterLabel(c)' = AfterLabel(c)
  BY <1>2 DEF NextLabel, AfterLabel
<1>6. config.race2 \in BOOLEAN /\ config.stubborn \in BOOLEAN /\ (config.race2 \/ ~config.stubborn)
  BY SettingsAssumption DEF IInv, CallerInv, CallerTypeOK, Separate
<1>7. OwnReceived' /\ OwnYield'
  BY <1>1, <1>2, <1>4, OwnKept DEF OwnInv, OwnYield
<1>8. \A r : queue_out'[thread'] = <<r>> => FALSE
  BY <1>1, <1>2, OnePacket
\* It runs the function.
<1>9. ASSUME at'[thread] = "fun", queue_in'[thread] = <<>>, job'[thread] = NextLabel(c),
             config.race2 \/ pc[c] = "get"
      PROVE  OwnTurn'
  <2>1. \A q : queue_in'[thread'] = <<q>> => FALSE
    BY <1>2, <1>9, OnePacket
  <2> QED
    BY <1>2, <1>4, <1>5, <1>8, <1>9, <2>1 DEF OwnTurn
\* It answers.
<1>10. ASSUME NEW q, queue_in'[thread] = <<q>>, at'[thread] # "fun", q.call = c,
              q.type = "Yield" => q = [type |-> "Yield", call |-> c,
                                       label |-> Len(received[c]) + 1]
                                  /\ job'[thread] = AfterLabel(c),
              config.race2 \/ pc[c] = "get" \/ q.type = "Exit"
       PROVE  OwnTurn'
  <2>1. ASSUME NEW r \in ToCaller, queue_in'[thread'] = <<r>> PROVE OwnAnswer(c, r)'
    <3>1. r = q
      BY <1>2, <1>10, <2>1, SamePacket
    <3>2. q.type = "Yield" => q.label = Len(received[c]) + 1 /\ job'[thread'] = AfterLabel(c)'
      BY <1>2, <1>5, <1>10
    <3>3. ~config.race2 /\ pc[c] = "get exit" => q.type = "Exit"
      BY <1>10
    <3> QED
      BY <1>2, <1>10, <3>1, <3>2, <3>3 DEF OwnAnswer
  <2> QED
    BY <1>2, <1>4, <1>8, <1>10, <2>1 DEF OwnTurn
<1>11. CASE Asked(thread)
  <2>1. PICK p \in ToThread :
            /\ queue_out[thread] = <<p>>
            /\ \/ Calls(thread, p) \/ GoesOn(thread, p) \/ Reports(thread, p) \/ Dies(thread, p)
    BY <1>11, InTurn DEF Asked
  <2>2. OwnRequest(c, p)
    BY <1>3, <2>1 DEF OwnInv, OwnTurn
  <2>3. pc[c] \in {"get", "get exit"}
    BY <1>3 DEF Waiting
  <2>4. CASE Calls(thread, p)
    <3>1. p.call = c /\ Len(received[c]) = 0 /\ pc[c] = "get"
      BY <2>2, <2>4, NoPacket DEF Calls, OwnRequest
    <3>2. job'[thread] = NextLabel(c)
      BY <2>4, <3>1 DEF Calls, NextLabel
    <3> QED
      BY <1>1, <1>7, <1>9, <2>4, <3>1, <3>2 DEF Calls, OwnInv
  <2>5. CASE GoesOn(thread, p)
    <3>1. job'[thread] = NextLabel(c) /\ (config.race2 \/ pc[c] = "get")
      BY <1>6, <2>2, <2>3, <2>5 DEF GoesOn, OwnRequest
    <3> QED
      BY <1>1, <1>7, <1>9, <2>5, <3>1 DEF GoesOn, OwnInv
  <2>6. CASE Reports(thread, p)
    <3> DEFINE q == [type |-> Report(p.type), call |-> job[thread].call]
    <3>1. queue_in'[thread] = <<q>> /\ at'[thread] = "get"
      BY <1>1, <2>6, AppendOne DEF Reports
    <3>2. job[thread] = NextLabel(c)
      BY <2>2, <2>6 DEF Reports, OwnRequest
    <3>3. q.call = c
      BY <3>2 DEF NextLabel
    <3>4. q.type # "Yield" /\ (p.type = "Exit" => q.type = "Exit")
      BY DEF Report
    <3>5. config.race2 \/ pc[c] = "get" \/ q.type = "Exit"
      BY <2>2, <2>3, <3>4 DEF OwnRequest
    <3> HIDE DEF q
    <3> QED
      BY <1>7, <1>10, <3>1, <3>3, <3>4, <3>5 DEF OwnInv
  <2>7. CASE Dies(thread, p)
    <3>1. at'[thread'] # "fun" /\ queue_in'[thread'] = <<>>
      BY <1>1, <1>2, <2>7 DEF Dies
    <3>2. \A q : queue_in'[thread'] = <<q>> => FALSE
      BY <3>1, OnePacket
    <3> QED
      BY <1>4, <1>7, <1>8, <3>1, <3>2 DEF OwnTurn, OwnInv
  <2> QED
    BY <2>1, <2>4, <2>5, <2>6, <2>7
<1>12. CASE at[thread] = "fun" /\ job[thread] \in Labels /\ Tells(thread)
  <2>1. job[thread] = NextLabel(c) /\ (config.race2 \/ pc[c] = "get")
    BY <1>3, <1>12 DEF OwnInv, OwnTurn
  <2>2. Len(received[c]) \in Nat
    <3>1. received[c] \in Seq(Labels)
      BY DEF IInv, CallerInv, CallerTypeOK
    <3> QED
      BY <3>1
  <2> DEFINE n == Len(received[c]) + 1
  <2>3. job[thread].call = c /\ job[thread].label = n
    BY <2>1 DEF NextLabel
  <2>4. job[thread].label + 1 = Len(received[c]) + 2
    BY <2>2, <2>3
  <2>5. CASE at'[thread] = "yield"
    <3> DEFINE q == [type |-> "Yield", call |-> c, label |-> n]
    <3>1. queue_in'[thread] = <<q>> /\ job'[thread] = AfterLabel(c)
      BY <1>1, <1>12, <2>3, <2>4, <2>5, AppendOne DEF Tells, AfterLabel
    <3>2. q.call = c /\ q.type = "Yield" /\ q = [type |-> "Yield", call |-> c, label |-> n]
      OBVIOUS
    <3> HIDE DEF q
    <3>3. OwnTurn'
      BY <1>10, <2>1, <2>5, <3>1, <3>2
    <3> QED
      BY <1>7, <3>3 DEF OwnInv
  <2>6. CASE at'[thread] = "get"
    <3>1. PICK type \in {"Return", "Raise"} :
            queue_in'[thread] = <<[type |-> type, call |-> c]>>
      BY <1>1, <1>12, <2>3, <2>6, AppendOne DEF Tells
    <3> DEFINE q == [type |-> type, call |-> c]
    <3>2. queue_in'[thread] = <<q>> /\ q.call = c /\ q.type # "Yield"
      BY <3>1
    <3> HIDE DEF q
    <3>3. OwnTurn'
      BY <1>10, <2>1, <2>6, <3>2
    <3> QED
      BY <1>7, <3>3 DEF OwnInv
  <2> QED
    BY <1>12, <2>5, <2>6 DEF Tells
<1> QED
  BY <1>11, <1>12, InTurn

LEMMA OwnTurnKept ==
    ASSUME OwnTurn, Waiting' = Waiting, config' = config, pc' = pc, received' = received,
           Waiting # {} => /\ at'[thread'] = at[thread] /\ job'[thread'] = job[thread]
                           /\ queue_out'[thread'] = queue_out[thread]
                           /\ queue_in'[thread'] = queue_in[thread]
    PROVE  OwnTurn'
<1>1. ASSUME NEW c \in Waiting', NEW p \in ToThread, queue_out'[thread'] = <<p>>
      PROVE  OwnRequest(c, p)'
  <2>1. OwnRequest(c, p)
    BY <1>1 DEF OwnTurn
  <2> QED
    BY <1>1, <2>1 DEF OwnRequest, NextLabel
<1>2. ASSUME NEW c \in Waiting', NEW q \in ToCaller, queue_in'[thread'] = <<q>>
      PROVE  OwnAnswer(c, q)'
  <2>1. OwnAnswer(c, q)
    BY <1>2 DEF OwnTurn
  <2> QED
    BY <1>2, <2>1 DEF OwnAnswer, AfterLabel
<1>3. ASSUME NEW c \in Waiting', at'[thread'] = "fun"
      PROVE  job'[thread'] = NextLabel(c)' /\ (config.race2 \/ pc[c] = "get")'
  BY <1>3 DEF OwnTurn, NextLabel
<1> QED
  BY <1>1, <1>2, <1>3 DEF OwnTurn

LEMMA OwnThread ==
    ASSUME IInv, OwnInv, Separate, NEW t \in Thread, Loop(t) \/ Fun(t) \/ Interrupt(t)
    PROVE  OwnInv'
<1>1. CASE t = thread
  BY <1>1, OwnWork, InterruptInv, NoneAssumption DEF IInv
<1>2. CASE t # thread
  <2>1. Alive(t)
    BY LoopInv, FunInv, InterruptInv DEF IInv
  <2>2. UNCHANGED <<config, active, pc, received, thread>>
    BY <2>1 DEF Alive, caller
  <2>3. thread # None => /\ at'[thread] = at[thread] /\ job'[thread] = job[thread]
                         /\ queue_out'[thread] = queue_out[thread]
                         /\ queue_in'[thread] = queue_in[thread]
    BY <1>2, <2>1 DEF Alive, IInv, ThreadsInv, ThreadsTypeOK
  <2>4. Waiting # {} => thread # None
    BY InCall DEF Waiting
  <2>5. Waiting' = Waiting /\ Suspended' = Suspended
    BY <2>2 DEF Waiting, Suspended
  <2>6. OwnReceived'
    BY <2>2, OwnKept DEF OwnInv
  <2>7. OwnYield'
    BY <2>2, <2>3, <2>5 DEF OwnInv, OwnYield, NextLabel
  <2>8. OwnTurn'
    BY <2>2, <2>3, <2>4, <2>5, OwnTurnKept DEF OwnInv
  <2> QED
    BY <2>6, <2>7, <2>8 DEF OwnInv
<1> QED
  BY <1>1, <1>2

LEMMA OwnStep == IInv /\ OwnInv /\ Separate /\ [Next]_vars => OwnInv'
<1> SUFFICES ASSUME IInv, OwnInv, Separate, [Next]_vars PROVE OwnInv'
  OBVIOUS
<1>1. CASE UNCHANGED vars
  <2>1. UNCHANGED <<config, active, pc, received, thread, queue_out, queue_in, at, job>>
    BY <1>1 DEF vars, caller, remote
  <2>2. Suspended' = Suspended /\ Waiting' = Waiting
    BY <2>1 DEF Suspended, Waiting
  <2>3. OwnReceived' /\ OwnYield'
    BY <2>1, <2>2 DEF OwnInv, OwnReceived, OwnYield, NextLabel
  <2>4. OwnTurn'
    BY <2>1, <2>2, OwnTurnKept DEF OwnInv
  <2> QED
    BY <2>3, <2>4 DEF OwnInv
<1>2. ASSUME NEW c \in Call, Start(c) \/ CallStep(c) \/ ResumeClosed(c) PROVE OwnInv'
  BY <1>2, OwnStart, OwnGetYield, OwnLeaves, OwnTimeout DEF CallStep
<1>3. ASSUME NEW t \in Thread, Loop(t) \/ Fun(t) \/ Interrupt(t) PROVE OwnInv'
  BY <1>3, OwnThread
<1> QED
  BY <1>1, <1>2, <1>3, OwnResume, OwnOpenClose DEF Next

LEMMA MeetsOwn ==
    ASSUME IInv, OwnInv
    PROVE  /\ \A c \in Call : received[c] =
                    [i \in DOMAIN received[c] |-> [call |-> c, label |-> i]]
           /\ \A c \in Waiting : \A i \in DOMAIN queue_in[thread] :
                    queue_in[thread][i].call = c
<1>1. ASSUME NEW c \in Call
      PROVE  received[c] = [i \in DOMAIN received[c] |-> [call |-> c, label |-> i]]
  <2>1. received[c] \in Seq(Labels)
    BY DEF IInv, CallerInv, CallerTypeOK
  <2>2. received[c] = [i \in DOMAIN received[c] |-> received[c][i]]
    BY <2>1
  <2>3. \A i \in DOMAIN received[c] : received[c][i] = [call |-> c, label |-> i]
    BY DEF OwnInv, OwnReceived
  <2> QED
    BY <2>2, <2>3
<1>2. ASSUME NEW c \in Waiting, NEW i \in DOMAIN queue_in[thread]
      PROVE  queue_in[thread][i].call = c
  <2>1. queue_in[thread] # <<>> /\ c \in Call /\ pc[c] \in {"get", "get exit"}
    <3>1. DOMAIN <<>> = {}
      OBVIOUS
    <3>2. c \in Call /\ pc[c] \in {"get", "get exit"}
      BY DEF Waiting
    <3> QED
      BY <1>2, <3>1, <3>2
  <2>2. PICK q \in ToCaller : queue_in[thread] = <<q>>
    BY <2>1, PacketComes
  <2>3. q.call = c
    BY <2>2 DEF OwnInv, OwnTurn, OwnAnswer
  <2>4. DOMAIN <<q>> = {1} /\ <<q>>[1] = q
    OBVIOUS
  <2>5. i = 1
    BY <1>2, <2>2, <2>4
  <2> QED
    BY <2>2, <2>3, <2>4, <2>5
<1> QED
  BY <1>1, <1>2

LEMMA InitOwn == Init => OwnInv /\ Served
<1> SUFFICES ASSUME Init PROVE OwnInv /\ Served
  OBVIOUS
<1>1. OwnReceived
  BY DEF Init, OwnReceived
<1> QED
  BY <1>1 DEF Init, OwnInv, OwnYield, OwnTurn, Served, Suspended, Waiting

LEMMA SeparateKept == IInv /\ [Next]_vars => config' = config
<1> SUFFICES ASSUME [Next]_vars PROVE config' = config
  OBVIOUS
<1>1. CASE UNCHANGED vars
  BY <1>1 DEF vars
<1>2. CASE Next
  BY <1>2 DEF Next, Start, CallStep, GetYield, GetEnd, Timeout, GetExit, Resume, ResumeClosed,
              Open, Close, Loop, MainGet, YieldGet, Fun, FunYield, FunEnd, Interrupt
<1> QED
  BY <1>1, <1>2

LEMMA OwnAlways == Spec => [](IInv /\ (Separate => OwnInv))
<1>1. Init => IInv /\ (Separate => OwnInv)
  BY InitInv, InitOwn
<1>2. IInv /\ (Separate => OwnInv) /\ [Next]_vars => IInv' /\ (Separate => OwnInv)'
  BY NextInv, SeparateKept, OwnStep DEF Separate
<1> QED
  BY <1>1, <1>2, PTL DEF Spec

\* A caller gets its own function's labels, each once and in order, and no other
\* call's packet (the two queues of thread.py that every call of race2 replaces),
\* whichever calls time out, are abandoned, refused or closed: of race only if
\* its functions let BaseExceptions pass.
THEOREM OwnPacketsAlways == Spec => []OwnPackets
<1>1. IInv /\ (Separate => OwnInv) => OwnPackets
  BY MeetsOwn DEF OwnPackets
<1> QED
  BY <1>1, OwnAlways, PTL

\* A suspended call has a function that waits for it in the thread, until a close
\* or, in race2, a call that is refused (thread.py:201) gives the thread up under it:
\* no other call, time-out, throw or packet does.
THEOREM SuspendedIsServedAlways == Spec => []SuspendedIsServed
<1>1. ASSUME IInv, Served, Separate => OwnInv PROVE SuspendedIsServed
  <2> SUFFICES ASSUME NEW c \in Suspended \ lost
               PROVE  /\ thread # None /\ at[thread] = "yield"
                      /\ queue_out[thread] = <<>> /\ queue_in[thread] = <<>>
                      /\ Separate => job[thread].call = c
    BY DEF SuspendedIsServed
  <2>1. thread # None /\ at[thread] = "yield"
    BY <1>1 DEF Served
  <2>2. Idle(thread)
    BY <1>1, <2>1, WhoRuns DEF IInv, Turns
  <2>3. Separate => job[thread] = NextLabel(c)
    BY <1>1, <2>1 DEF OwnInv, OwnYield
  <2> QED
    BY <2>1, <2>2, <2>3 DEF Idle, NextLabel
<1>2. Spec => []Served
  <2>1. Init => Served
    BY InitOwn
  <2> QED
    BY <2>1, ServedStep, Invariance, PTL DEF Spec
<1> QED
  BY <1>1, <1>2, OwnAlways, PTL

=============================================================================
