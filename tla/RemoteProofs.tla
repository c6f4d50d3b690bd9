---------------------------- MODULE RemoteProofs ----------------------------
(***************************************************************************)
(* Theorems of RemoteGenerator.tla, for any calls, clients, number of      *)
(* labels and generation of the package.                                   *)
(***************************************************************************)
EXTENDS RemoteGenerator, TLAPS

-----------------------------------------------------------------------------
(* The inductive invariant.                                                *)

Running == Pcs \ {"new", "yielded", "ended", "failed"}
InProgress(c) == pc[c] \notin {"new", "ended", "failed"}

\* Where a call waits for an answer, or has just stopped to wait for it.
Resetting(c) == pc[c] \in {"get reset", "terminate reset"}
Pushing(c) == pc[c] \in {"get", "terminate"}

\* The parent's thread is with the call that runs, or with the user in close().
OneThread ==
    /\ \A c \in Call : pc[c] \in Running <=> active = c
    /\ closing <=> active = User

\* A client's semaphore is taken by the one call of it that is in progress.
OneOfEachClient ==
    /\ \A c \in Call : InProgress(c) => semaphore[ClientOf[c]] = 1
    /\ \A c, d \in Call :
        InProgress(c) /\ InProgress(d) /\ ClientOf[c] = ClientOf[d] => c = d

Results ==
    \A c \in Call : result[c] # None => pc[c] \in {"finally", "ended", "failed"}

\* The request is on its way, the child works on it, its answer is on its way,
\* or the child ended over it without a word.
Exchange(request, answers) ==
    \/ in_queue = <<request>> /\ out_queue = <<>> /\ child \in {"get", "exited"}
    \/ in_queue = <<>> /\ out_queue = <<>> /\ child = "busy" /\ task = request
    \/ in_queue = <<>> /\ child # "busy" /\ \E a \in answers : out_queue = <<a>>
    \/ in_queue = <<>> /\ out_queue = <<>> /\ child = "exited"

Reset(c) == [type |-> "Reset", call |-> c]
Push == [type |-> "Push"]
NextAnswers == [type : {"Next"}, call : Call, label : Nat]

\* Nobody waits for an answer: at most a Terminate is on its way.
Quiet ==
    /\ in_queue \in {None, <<>>, <<[type |-> "Terminate"]>>}
    /\ out_queue \in {None, <<>>}
    /\ child # "busy"

\* The queues and the child are there as long as instance.process.
Linked ==
    /\ process <=> in_queue # None
    /\ process <=> out_queue # None
    /\ process <=> child # None

Protocol ==
    /\ Linked
    /\ \A c \in Call :
        /\ Resetting(c) => Exchange(Reset(c), [type : {"ResetOk", "Except"}])
        /\ Pushing(c) => Exchange(Push, [type : {"Stop", "Except"}] \cup NextAnswers)
    /\ (\A c \in Call : ~Resetting(c) /\ ~Pushing(c)) => Quiet

ParentTypeOK ==
    /\ active \in Call \cup {User, None}
    /\ pc \in [Call -> Pcs]
    /\ semaphore \in [Client -> {0, 1}]
    /\ result \in [Call -> Ends \cup {None}]
    /\ closing \in BOOLEAN

ChannelTypeOK ==
    /\ process \in BOOLEAN
    /\ in_queue \in Seq(ToChild) \cup {None}
    /\ out_queue \in Seq(ToParent) \cup {None}
    /\ child \in {"get", "busy", "exited", None}
    /\ task \in ToChild \cup {None}
    /\ iter_obj \in Iterator \cup {None}

ParentInv == ParentTypeOK /\ OneThread /\ OneOfEachClient /\ Results
ChannelInv == ChannelTypeOK /\ Protocol

IInv == ParentInv /\ ChannelInv /\ received \in [Call -> Seq(Iterator)]

-----------------------------------------------------------------------------


\* What SMT has to know of messages and of queues that hold one.
LEMMA Messages ==
    /\ \A c \in Call : Reset(c) \in ToChild /\ Reset(c).type = "Reset" /\ Reset(c).call = c
    /\ Push \in ToChild /\ Push.type = "Push"
    /\ [type |-> "Terminate"] \in ToChild /\ [type |-> "Terminate"].type = "Terminate"
    /\ [type : {"ResetOk", "Except"}] \subseteq ToParent
    /\ [type : {"Stop", "Except"}] \cup NextAnswers \subseteq ToParent
BY DEF Reset, Push, ToChild, ToParent, NextAnswers

LEMMA OneMessage ==
    ASSUME NEW S, NEW m \in S
    PROVE  <<m>> \in Seq(S) /\ <<m>> # <<>> /\ Head(<<m>>) = m /\ Tail(<<m>>) = <<>>
OBVIOUS

LEMMA NoMessage == \A S : <<>> \in Seq(S)
OBVIOUS

LEMMA NotNone ==
    /\ <<>> # None
    /\ \A m \in ToChild : <<m>> # None
    /\ \A m \in ToParent : <<m>> # None
<1>1. <<>> # None
  <2>1. <<>> \in Seq(ToChild)
    OBVIOUS
  <2> QED
    BY <2>1, NoneAssumption
<1>2. ASSUME NEW m \in ToChild PROVE <<m>> # None
  BY OneMessage, NoneAssumption
<1>3. ASSUME NEW m \in ToParent PROVE <<m>> # None
  <2>1. <<m>> \in Seq(ToParent)
    OBVIOUS
  <2> QED
    BY <2>1, NoneAssumption
<1> QED
  BY <1>1, <1>2, <1>3

LEMMA InitInv == Init => IInv /\ ClientFreed
<1> SUFFICES ASSUME Init PROVE IInv /\ ClientFreed
  OBVIOUS
<1>1. TypeOK
  <2>1. received \in [Call -> Seq(Iterator)]
    BY NoMessage DEF Init
  <2>2. pc \in [Call -> Pcs]
    BY DEF Init, Pcs
  <2>3. semaphore \in [Client -> {0, 1}]
    BY DEF Init
  <2>4. result \in [Call -> Ends \cup {None}]
    BY DEF Init
  <2>5. active \in Call \cup {User, None} /\ process \in BOOLEAN /\ closing \in BOOLEAN
    BY DEF Init
  <2> QED
    BY <2>1, <2>2, <2>3, <2>4, <2>5 DEF Init, TypeOK
<1>2. OneThread /\ OneOfEachClient /\ Results /\ ClientFreed
  BY CallAssumption, NoneAssumption
     DEF Init, OneThread, OneOfEachClient, Results, Running, InProgress, ClientFreed
<1>3. Protocol
  BY NoneAssumption DEF Init, Protocol, Linked, Resetting, Pushing, Quiet
<1> QED
  BY <1>1, <1>2, <1>3
     DEF IInv, TypeOK, ParentInv, ChannelInv, ParentTypeOK, ChannelTypeOK

-----------------------------------------------------------------------------
(* What a step does to the parent, and what to the channel.                *)

\* Only the call that has the thread is on its way.
LEMMA OnlyActive ==
    ASSUME ParentInv, NEW c \in Call, active \in {c, None, User},
           NEW d \in Call, d # c
    PROVE  pc[d] \in {"new", "yielded", "ended", "failed"} /\ ~Resetting(d) /\ ~Pushing(d)
BY NoneAssumption, CallAssumption
   DEF ParentInv, ParentTypeOK, OneThread, Running, Resetting, Pushing, Pcs

\* The call that has the thread goes on, yields or ends, and does not let go of
\* its client.
LEMMA CallMoves ==
    ASSUME ParentInv, NEW c \in Call, InProgress(c), active \in {c, None},
           NEW where \in Pcs \ {"new"}, pc' = [pc EXCEPT ![c] = where],
           active' = IF where \in Running THEN c ELSE None,
           semaphore' = semaphore, closing' = closing,
           \/ result' = result /\ result[c] = None
           \/ /\ where \in {"finally", "ended", "failed"}
              /\ \E how \in Ends : result' = [result EXCEPT ![c] = how]
    PROVE  ParentInv'
<1>1. \A d \in Call : d # c => pc'[d] = pc[d] /\ pc[d] \notin Running
  BY OnlyActive DEF ParentInv, ParentTypeOK, Running
<1>2. pc'[c] = where /\ pc' \in [Call -> Pcs]
  BY DEF ParentInv, ParentTypeOK
<1>3. ParentTypeOK'
  BY <1>2 DEF ParentInv, ParentTypeOK, Pcs
<1>4. OneThread'
  BY <1>1, <1>2, CallAssumption, NoneAssumption DEF ParentInv, ParentTypeOK, OneThread
<1>5. \A d \in Call : InProgress(d)' => InProgress(d)
  BY <1>1 DEF InProgress
<1>6. OneOfEachClient'
  BY <1>5 DEF ParentInv, OneOfEachClient
<1>7. Results'
  BY <1>1, <1>2 DEF ParentInv, ParentTypeOK, Results
<1> QED
  BY <1>3, <1>4, <1>6, <1>7 DEF ParentInv

\* The channel is quiet, and stays so if no call comes to wait.
LEMMA QuietChannel ==
    ASSUME ParentInv, ChannelInv, \A c \in Call : ~Resetting(c) /\ ~Pushing(c)
    PROVE  Quiet
BY DEF ChannelInv, Protocol

LEMMA StaysQuiet ==
    ASSUME \A c \in Call : ~Resetting(c)' /\ ~Pushing(c)',
           Quiet', Linked'
    PROVE  Protocol'
BY DEF Protocol

LEMMA EnsureRunningChannel ==
    ASSUME ChannelTypeOK, Quiet, Linked, EnsureRunning
    PROVE  ChannelTypeOK' /\ Quiet' /\ Linked'
<1>1. CASE process
  BY <1>1 DEF EnsureRunning, ChannelTypeOK, Quiet, Linked, channel, remote
<1>2. CASE ~process
  BY <1>2, NoMessage, NotNone, NoneAssumption DEF EnsureRunning, ChannelTypeOK, Quiet, Linked
<1> QED
  BY <1>1, <1>2

LEMMA StartInv == ASSUME IInv, NEW c \in Call, Start(c) PROVE IInv'
<1>1. /\ active = None /\ pc[c] = "new" /\ received' = received /\ closing' = closing
      /\ pc \in [Call -> Pcs] /\ result \in [Call -> Ends \cup {None}]
      /\ semaphore \in [Client -> {0, 1}] /\ ClientOf[c] \in Client
  BY CallAssumption DEF Start, IInv, ParentInv, ParentTypeOK
<1>2. \A d \in Call : ~Resetting(d) /\ ~Pushing(d) /\ pc[d] \notin Running
  BY <1>1, OnlyActive DEF IInv, Resetting, Pushing, Running
<1>3. ChannelTypeOK /\ Quiet /\ Linked
  BY <1>2, QuietChannel DEF IInv, ChannelInv, Protocol
<1>4. CASE Busy(c)
  <2>1. /\ pc' = [pc EXCEPT ![c] = "ended"] 
        /\ result' = [result EXCEPT ![c] = "ReentryError"]
        /\ active' = None
        /\ UNCHANGED <<semaphore, channel, remote>>
    BY <1>4 DEF Start, Finish, Over
  <2>2. ParentTypeOK'
    BY <1>1, <2>1 DEF IInv, ParentInv, ParentTypeOK, Pcs, Ends
  <2>3. OneThread' /\ OneOfEachClient' /\ Results'
    BY <1>1, <1>2, <2>1, CallAssumption, NoneAssumption
       DEF IInv, ParentInv, OneThread, OneOfEachClient, Results, Running, InProgress
  <2>4. ChannelTypeOK' /\ Quiet' /\ Linked'
    BY <1>3, <2>1 DEF ChannelTypeOK, Quiet, Linked, channel, remote
  <2>5. \A d \in Call : ~Resetting(d)' /\ ~Pushing(d)'
    BY <1>1, <1>2, <2>1 DEF Resetting, Pushing
  <2> QED
    BY <1>1, <2>2, <2>3, <2>4, <2>5, StaysQuiet DEF IInv, ParentInv, ChannelInv
<1>5. CASE ~Busy(c)
  <2>1. /\ pc' = [pc EXCEPT ![c] = "put reset"] 
        /\ result' = result
        /\ active' = c
        /\ EnsureRunning
    BY <1>5 DEF Start, Go
  <2>2. semaphore[ClientOf[c]] = 0 /\ semaphore' = [semaphore EXCEPT ![ClientOf[c]] = 1]
    <3>1. semaphore[ClientOf[c]] = 0
      BY <1>1, <1>5 DEF Busy
    <3>2. semaphore' = [semaphore EXCEPT ![ClientOf[c]] = semaphore[ClientOf[c]] + 1]
      BY <1>5 DEF Start
    <3> QED
      BY <3>1, <3>2
  <2>3. ParentTypeOK'
    BY <1>1, <2>1, <2>2 DEF IInv, ParentInv, ParentTypeOK, Pcs
  <2>4. OneThread' /\ Results'
    BY <1>1, <1>2, <2>1, CallAssumption, NoneAssumption
       DEF IInv, ParentInv, OneThread, Results, Running, Pcs
  <2>5. OneOfEachClient'
    <3>1. semaphore'[ClientOf[c]] = 1
      BY <1>1, <2>2
    <3>2. \A d \in Call : InProgress(d) => ClientOf[d] # ClientOf[c]
      BY <2>2 DEF IInv, ParentInv, OneOfEachClient
    <3>3. \A d \in Call : InProgress(d)' <=> d = c \/ InProgress(d)
      BY <1>1, <2>1 DEF InProgress
    <3>4. \A d \in Call : semaphore[ClientOf[d]] = 1 => semaphore'[ClientOf[d]] = 1
      BY <1>1, <2>2, CallAssumption
    <3> QED
      BY <3>1, <3>2, <3>3, <3>4 DEF IInv, ParentInv, OneOfEachClient
  <2>6. ChannelInv'
    <3>1. \A d \in Call : ~Resetting(d)' /\ ~Pushing(d)'
      BY <1>1, <1>2, <2>1 DEF Resetting, Pushing
    <3> QED
      BY <1>3, <2>1, <3>1, EnsureRunningChannel, StaysQuiet DEF ChannelInv
  <2> QED
    BY <1>1, <2>3, <2>4, <2>5, <2>6 DEF IInv, ParentInv
<1> QED
  BY <1>4, <1>5

\* The call that has the thread waits for an answer, and nobody else does.
LEMMA Asks ==
    ASSUME ParentInv', Linked', NEW c \in Call, active' = c,
           \/ Resetting(c)' /\ Exchange(Reset(c), [type : {"ResetOk", "Except"}])'
           \/ Pushing(c)'
              /\ Exchange(Push, [type : {"Stop", "Except"}] \cup NextAnswers)'
    PROVE  Protocol'
<1>1. \A d \in Call : d # c => ~Resetting(d)' /\ ~Pushing(d)'
  BY DEF ParentInv, ParentTypeOK, OneThread, Running, Resetting, Pushing, Pcs
<1>2. ~(Resetting(c)' /\ Pushing(c)')
  BY DEF Resetting, Pushing
<1> QED
  BY <1>1, <1>2 DEF Protocol

\* A message is put in an empty queue.
LEMMA PutMessage ==
    ASSUME ChannelTypeOK, Linked, NEW m \in ToChild, Put(m),
           UNCHANGED <<process, out_queue, remote>>
    PROVE  ChannelTypeOK' /\ Linked' /\ process /\ in_queue' = <<m>>
<1>1. in_queue = <<>> /\ in_queue' = <<m>> /\ <<m>> \in Seq(ToChild)
  BY OneMessage DEF Put
<1>2. process
  BY <1>1, NotNone DEF Linked
<1> QED
  BY <1>1, <1>2, NotNone, NoneAssumption DEF ChannelTypeOK, Linked, remote

LEMMA PutResetInv == ASSUME IInv, NEW c \in Call, active = c, PutReset(c) PROVE IInv'
<1>1. /\ pc[c] = "put reset" /\ pc' = [pc EXCEPT ![c] = "get reset"]
      /\ Put(Reset(c))
      /\ UNCHANGED <<active, semaphore, received, result, closing, process, out_queue, remote>>
  BY DEF PutReset, Go, Reset
<1>2. /\ \A d \in Call : ~Resetting(d) /\ ~Pushing(d)
      /\ InProgress(c) /\ result[c] = None
  BY <1>1, OnlyActive DEF IInv, ParentInv, Results, Resetting, Pushing, InProgress
<1>3. ParentInv'
  BY <1>1, <1>2, CallMoves DEF IInv, Running, Pcs
<1>4. Quiet /\ ChannelTypeOK /\ Linked
  BY <1>2, QuietChannel DEF IInv, ChannelInv, Protocol
<1>5. ChannelTypeOK' /\ Linked' /\ process /\ in_queue' = <<Reset(c)>>
  BY <1>1, <1>4, PutMessage, Messages
<1>6. out_queue' = <<>> /\ child' \in {"get", "exited"}
  BY <1>1, <1>4, <1>5 DEF Quiet, Linked, ChannelTypeOK, remote
<1>7. Protocol'
  <2>1. Resetting(c)' /\ Exchange(Reset(c), [type : {"ResetOk", "Except"}])'
    BY <1>1, <1>5, <1>6 DEF IInv, ParentInv, ParentTypeOK, Resetting, Exchange
  <2> QED
    BY <1>1, <1>3, <1>5, <2>1, Asks
<1> QED
  BY <1>1, <1>3, <1>5, <1>7 DEF IInv, ChannelInv

\* An answer is taken: the child has nothing left to do.
LEMMA TakeAnswer ==
    ASSUME NEW request, NEW answers, Exchange(request, answers), out_queue # <<>>
    PROVE  /\ in_queue = <<>> /\ child # "busy"
           /\ \E a \in answers : /\ out_queue = <<a>>
                                 /\ Head(out_queue) = a /\ Tail(out_queue) = <<>>
<1>1. in_queue = <<>> /\ child # "busy" /\ \E a \in answers : out_queue = <<a>>
  BY DEF Exchange
<1> QED
  BY <1>1, OneMessage

\* After that the channel is quiet.
LEMMA TakenAnswer ==
    ASSUME ChannelInv, in_queue = <<>>, child # "busy",
           NEW a \in ToParent, out_queue = <<a>>, out_queue' = <<>>,
           UNCHANGED <<process, in_queue, remote>>
    PROVE  ChannelTypeOK' /\ Linked' /\ Quiet'
BY NotNone, NoMessage DEF ChannelInv, ChannelTypeOK, Protocol, Linked, Quiet, remote

\* The answer to Reset is one GetReset expects.
LEMMA GetResetOutcome ==
    ASSUME IInv, NEW c \in Call, GetReset(c)
    PROVE  \E a \in [type : {"ResetOk", "Except"}] :
            /\ in_queue = <<>> /\ child # "busy" /\ out_queue = <<a>> /\ out_queue' = <<>>
            /\ \/ /\ pc' = [pc EXCEPT ![c] = "failed"] /\ active' = None
                  /\ result' = [result EXCEPT ![c] = "raised"]
               \/ /\ pc' = [pc EXCEPT ![c] = "put push"] /\ UNCHANGED <<result, active>>
                  /\ a = [type |-> "ResetOk"]
<1>1. pc[c] = "get reset" /\ out_queue # <<>> /\ out_queue' = Tail(out_queue)
  BY DEF GetReset
<1>2. Exchange(Reset(c), [type : {"ResetOk", "Except"}])
  BY <1>1 DEF IInv, ChannelInv, Protocol, Resetting
<1>3. PICK a \in [type : {"ResetOk", "Except"}] :
            /\ in_queue = <<>> /\ child # "busy" /\ out_queue = <<a>>
            /\ Head(out_queue) = a /\ Tail(out_queue) = <<>>
  BY <1>1, <1>2, TakeAnswer
<1>4. CASE a.type = "ResetOk"
  <2>1. a = [type |-> "ResetOk"]
    BY <1>4
  <2>2. pc' = [pc EXCEPT ![c] = "put push"] /\ UNCHANGED <<result, active>>
    BY <1>3, <1>4 DEF GetReset, Go
  <2> QED
    BY <1>1, <1>3, <2>1, <2>2
<1>5. CASE a.type = "Except"
  <2>1. /\ pc' = [pc EXCEPT ![c] = "failed"] /\ active' = None
        /\ result' = [result EXCEPT ![c] = "raised"]
    BY <1>3, <1>5 DEF GetReset, FailReset, Over
  <2> QED
    BY <1>1, <1>3, <2>1
<1> QED
  BY <1>4, <1>5

LEMMA GetResetInv == ASSUME IInv, NEW c \in Call, active = c, GetReset(c) PROVE IInv'
<1>1. /\ pc[c] = "get reset"
      /\ UNCHANGED <<semaphore, received, closing, process, in_queue, remote>>
  BY DEF GetReset
<1>2. PICK a \in [type : {"ResetOk", "Except"}] :
            /\ in_queue = <<>> /\ child # "busy" /\ out_queue = <<a>> /\ out_queue' = <<>>
            /\ \/ /\ pc' = [pc EXCEPT ![c] = "failed"] /\ active' = None
                  /\ result' = [result EXCEPT ![c] = "raised"]
               \/ pc' = [pc EXCEPT ![c] = "put push"] /\ UNCHANGED <<result, active>>
  BY GetResetOutcome
<1>3. InProgress(c) /\ result[c] = None
  BY <1>1 DEF IInv, ParentInv, Results, InProgress
<1>4. ParentInv'
  BY <1>1, <1>2, <1>3, CallMoves DEF IInv, Running, Pcs, Ends
<1>5. ChannelTypeOK' /\ Linked' /\ Quiet'
  BY <1>1, <1>2, TakenAnswer, Messages DEF IInv
<1>6. \A d \in Call : ~Resetting(d)' /\ ~Pushing(d)'
  BY <1>2, OnlyActive DEF IInv, ParentInv, ParentTypeOK, Resetting, Pushing
<1> QED
  BY <1>1, <1>4, <1>5, <1>6, StaysQuiet DEF IInv, ChannelInv

LEMMA PutPushInv == ASSUME IInv, NEW c \in Call, active = c, PutPush(c) PROVE IInv'
<1>1. /\ pc[c] = "put push" /\ pc' = [pc EXCEPT ![c] = "get"]
      /\ Put(Push)
      /\ UNCHANGED <<active, semaphore, received, result, closing, process, out_queue, remote>>
  BY DEF PutPush, Go, Push
<1>2. /\ \A d \in Call : ~Resetting(d) /\ ~Pushing(d)
      /\ InProgress(c) /\ result[c] = None
  BY <1>1, OnlyActive DEF IInv, ParentInv, Results, Resetting, Pushing, InProgress
<1>3. ParentInv'
  BY <1>1, <1>2, CallMoves DEF IInv, Running, Pcs
<1>4. Quiet /\ ChannelTypeOK /\ Linked
  BY <1>2, QuietChannel DEF IInv, ChannelInv, Protocol
<1>5. ChannelTypeOK' /\ Linked' /\ process /\ in_queue' = <<Push>>
  BY <1>1, <1>4, PutMessage, Messages
<1>6. out_queue' = <<>> /\ child' \in {"get", "exited"}
  BY <1>1, <1>4, <1>5 DEF Quiet, Linked, ChannelTypeOK, remote
<1>7. Protocol'
  <2>1. Pushing(c)' /\ Exchange(Push, [type : {"Stop", "Except"}] \cup NextAnswers)'
    BY <1>1, <1>5, <1>6 DEF IInv, ParentInv, ParentTypeOK, Pushing, Exchange
  <2> QED
    BY <1>1, <1>3, <1>5, <2>1, Asks
<1> QED
  BY <1>1, <1>3, <1>5, <1>7 DEF IInv, ChannelInv

\* A call moves while the channel is quiet and stays as it is.
LEMMA MovesAside ==
    ASSUME IInv, NEW c \in Call, active \in {c, None}, UNCHANGED <<channel, remote>>,
           ~Resetting(c), ~Pushing(c), 
           NEW where, pc' = [pc EXCEPT ![c] = where],
           where \notin {"get reset", "terminate reset", "get", "terminate"}
    PROVE  ChannelInv'
<1>1. \A d \in Call : ~Resetting(d) /\ ~Pushing(d)
  BY OnlyActive DEF IInv
<1>2. \A d \in Call : ~Resetting(d)' /\ ~Pushing(d)'
  BY <1>1 DEF IInv, ParentInv, ParentTypeOK, Resetting, Pushing
<1>3. Quiet /\ Linked /\ ChannelTypeOK
  BY <1>1, QuietChannel DEF IInv, ChannelInv, Protocol
<1>4. Quiet' /\ Linked' /\ ChannelTypeOK'
  BY <1>3 DEF Quiet, Linked, ChannelTypeOK, channel, remote
<1> QED
  BY <1>2, <1>4, StaysQuiet DEF ChannelInv

LEMMA PutPushClosedInv ==
    ASSUME IInv, NEW c \in Call, active = c, PutPushClosed(c) PROVE IInv'
<1>1. /\ pc[c] = "put push" /\ pc' = [pc EXCEPT ![c] = "finally"]
      /\ result' = [result EXCEPT ![c] = "AttributeError"]
      /\ UNCHANGED <<active, semaphore, received, closing, channel, remote>>
  BY DEF PutPushClosed, Go
<1>2. InProgress(c) /\ ~Resetting(c) /\ ~Pushing(c)
  BY <1>1 DEF InProgress, Resetting, Pushing
<1>3. ParentInv'
  BY <1>1, <1>2, CallMoves DEF IInv, Running, Pcs, Ends
<1>4. ChannelInv'
  BY <1>1, <1>2, MovesAside
<1> QED
  BY <1>1, <1>3, <1>4 DEF IInv

LEMMA ResumeInv == ASSUME IInv, NEW c \in Call, Resume(c) PROVE IInv'
<1>1. /\ active = None /\ active' = c
      /\ pc[c] = "yielded" /\ pc' = [pc EXCEPT ![c] = "put push"]
      /\ UNCHANGED <<semaphore, received, result, closing, channel, remote>>
  BY DEF Resume, Go
<1>2. InProgress(c) /\ ~Resetting(c) /\ ~Pushing(c) /\ result[c] = None
  BY <1>1 DEF IInv, ParentInv, Results, InProgress, Resetting, Pushing
<1>3. ParentInv'
  BY <1>1, <1>2, CallMoves DEF IInv, Running, Pcs
<1>4. ChannelInv'
  BY <1>1, <1>2, MovesAside
<1> QED
  BY <1>1, <1>3, <1>4 DEF IInv

LEMMA ThrowInv == ASSUME IInv, NEW c \in Call, Throw(c) PROVE IInv'
<1>1. /\ active = None /\ active' = c
      /\ pc[c] = "yielded" /\ pc' = [pc EXCEPT ![c] = "finally"]
      /\ result' = [result EXCEPT ![c] = "stopped"]
      /\ UNCHANGED <<semaphore, received, closing, channel, remote>>
  BY DEF Throw, Go
<1>2. InProgress(c) /\ ~Resetting(c) /\ ~Pushing(c)
  BY <1>1 DEF InProgress, Resetting, Pushing
<1>3. ParentInv'
  BY <1>1, <1>2, CallMoves DEF IInv, Running, Pcs, Ends
<1>4. ChannelInv'
  BY <1>1, <1>2, MovesAside
<1> QED
  BY <1>1, <1>3, <1>4 DEF IInv

\* The answer to Push is one Get expects.
LEMMA GetOutcome ==
    ASSUME IInv, NEW c \in Call, Get(c)
    PROVE  \E a \in [type : {"Stop", "Except"}] \cup NextAnswers :
            /\ in_queue = <<>> /\ child # "busy" /\ out_queue = <<a>> /\ out_queue' = <<>>
            /\ \/ /\ pc' = [pc EXCEPT ![c] = "yielded"] /\ active' = None
                  /\ result' = result /\ a \in NextAnswers
                  /\ received' = [received EXCEPT ![c] =
                        Append(received[c], [call |-> a.call, label |-> a.label])]
               \/ /\ pc' = [pc EXCEPT ![c] = "finally"] /\ active' = active
                  /\ \E how \in {"returned", "raised"} :
                        result' = [result EXCEPT ![c] = how]
                  /\ received' = received
<1>1. pc[c] = "get" /\ out_queue # <<>> /\ out_queue' = Tail(out_queue)
  BY DEF Get
<1>2. Exchange(Push, [type : {"Stop", "Except"}] \cup NextAnswers)
  BY <1>1 DEF IInv, ChannelInv, Protocol, Pushing
<1>3. PICK a \in [type : {"Stop", "Except"}] \cup NextAnswers :
            /\ in_queue = <<>> /\ child # "busy" /\ out_queue = <<a>>
            /\ Head(out_queue) = a /\ Tail(out_queue) = <<>>
  BY <1>1, <1>2, TakeAnswer
<1>4. CASE a.type = "Next"
  <2>1. /\ pc' = [pc EXCEPT ![c] = "yielded"] /\ active' = None /\ result' = result
        /\ received' = [received EXCEPT ![c] =
                Append(received[c], [call |-> a.call, label |-> a.label])]
    BY <1>3, <1>4 DEF Get, Go
  <2>2. a \in NextAnswers
    BY <1>4
  <2> QED
    BY <1>1, <1>3, <2>1, <2>2
<1>5. CASE a.type \in {"Stop", "Except"}
  <2>1. /\ pc' = [pc EXCEPT ![c] = "finally"] /\ active' = active /\ received' = received
        /\ result' = [result EXCEPT ![c] =
                IF a.type = "Stop" THEN "returned" ELSE "raised"]
    BY <1>3, <1>5 DEF Get, Go
  <2> QED
    BY <1>1, <1>3, <2>1
<1> QED
  BY <1>4, <1>5 DEF NextAnswers

LEMMA GetInv == ASSUME IInv, NEW c \in Call, active = c, Get(c) PROVE IInv'
<1>1. pc[c] = "get" /\ UNCHANGED <<semaphore, closing, process, in_queue, remote>>
  BY DEF Get
<1>2. PICK a \in [type : {"Stop", "Except"}] \cup NextAnswers :
            /\ in_queue = <<>> /\ child # "busy" /\ out_queue = <<a>> /\ out_queue' = <<>>
            /\ \/ /\ pc' = [pc EXCEPT ![c] = "yielded"] /\ active' = None
                  /\ result' = result /\ a \in NextAnswers
                  /\ received' = [received EXCEPT ![c] =
                        Append(received[c], [call |-> a.call, label |-> a.label])]
               \/ /\ pc' = [pc EXCEPT ![c] = "finally"] /\ active' = active
                  /\ \E how \in {"returned", "raised"} :
                        result' = [result EXCEPT ![c] = how]
                  /\ received' = received
  BY GetOutcome
<1>3. InProgress(c) /\ result[c] = None
  BY <1>1 DEF IInv, ParentInv, Results, InProgress
<1>4. ParentInv'
  <2>1. {"returned", "raised"} \subseteq Ends
    BY DEF Ends
  <2> QED
    BY <1>1, <1>2, <1>3, <2>1, CallMoves DEF IInv, Running, Pcs
<1>5. ChannelTypeOK' /\ Linked' /\ Quiet'
  BY <1>1, <1>2, TakenAnswer, Messages DEF IInv
<1>6. \A d \in Call : ~Resetting(d)' /\ ~Pushing(d)'
  BY <1>2, OnlyActive DEF IInv, ParentInv, ParentTypeOK, Resetting, Pushing
<1>7. received' \in [Call -> Seq(Iterator)]
  <2>1. CASE received' = received
    BY <2>1 DEF IInv
  <2>2. CASE /\ a \in NextAnswers
             /\ received' = [received EXCEPT ![c] =
                    Append(received[c], [call |-> a.call, label |-> a.label])]
    <3>1. [call |-> a.call, label |-> a.label] \in Iterator
      BY <2>2 DEF NextAnswers, Iterator
    <3>2. Append(received[c], [call |-> a.call, label |-> a.label]) \in Seq(Iterator)
      BY <3>1 DEF IInv
    <3> QED
      BY <2>2, <3>2 DEF IInv
  <2> QED
    BY <1>2, <2>1, <2>2
<1> QED
  BY <1>4, <1>5, <1>6, <1>7, StaysQuiet DEF IInv, ChannelInv

LEMMA TimeoutInv == ASSUME IInv, NEW c \in Call, active = c, Timeout(c) PROVE IInv'
<1>1. /\ \/ pc[c] = "get reset" /\ pc' = [pc EXCEPT ![c] = "terminate reset"]
         \/ pc[c] = "get" /\ pc' = [pc EXCEPT ![c] = "terminate"]
      /\ UNCHANGED <<active, semaphore, received, result, closing, channel, remote>>
  BY DEF Timeout, Go
<1>2. InProgress(c) /\ result[c] = None
  BY <1>1 DEF IInv, ParentInv, Results, InProgress
<1>3. ParentInv'
  BY <1>1, <1>2, CallMoves DEF IInv, Running, Pcs
<1>4. ChannelTypeOK' /\ Linked'
  BY <1>1 DEF IInv, ChannelInv, Protocol, ChannelTypeOK, Linked, channel, remote
<1>5. \/ Resetting(c)' /\ Exchange(Reset(c), [type : {"ResetOk", "Except"}])'
      \/ Pushing(c)' /\ Exchange(Push, [type : {"Stop", "Except"}] \cup NextAnswers)'
  <2>1. CASE pc[c] = "get reset"
    <3>1. pc'[c] = "terminate reset"
      BY <1>1, <2>1 DEF IInv, ParentInv, ParentTypeOK
    <3>2. Exchange(Reset(c), [type : {"ResetOk", "Except"}])
      BY <2>1 DEF IInv, ChannelInv, Protocol, Resetting
    <3> QED
      BY <1>1, <3>1, <3>2 DEF Resetting, Exchange, channel, remote
  <2>2. CASE pc[c] = "get"
    <3>1. pc'[c] = "terminate"
      BY <1>1, <2>2 DEF IInv, ParentInv, ParentTypeOK
    <3>2. Exchange(Push, [type : {"Stop", "Except"}] \cup NextAnswers)
      BY <2>2 DEF IInv, ChannelInv, Protocol, Pushing
    <3> QED
      BY <1>1, <3>1, <3>2 DEF Pushing, Exchange, channel, remote
  <2> QED
    BY <1>1, <2>1, <2>2
<1> QED
  BY <1>1, <1>3, <1>4, <1>5, Asks DEF IInv, ChannelInv

\* Without a process the channel is quiet.
LEMMA TerminateChannel ==
    ASSUME Terminate
    PROVE  ChannelTypeOK' /\ Linked' /\ Quiet'
BY NoneAssumption DEF Terminate, ChannelTypeOK, Linked, Quiet

LEMMA TimedOutInv == ASSUME IInv, NEW c \in Call, active = c, TimedOut(c) PROVE IInv'
<1>1. /\ Terminate /\ UNCHANGED <<semaphore, received, closing>>
      /\ result' = [result EXCEPT ![c] = "RemoteTimeoutError"]
      /\ \/ /\ pc[c] = "terminate reset" /\ pc' = [pc EXCEPT ![c] = "failed"]
            /\ active' = None
         \/ /\ pc[c] = "terminate" /\ pc' = [pc EXCEPT ![c] = "finally"]
            /\ active' = active
  BY DEF TimedOut, FailReset, Over, Go
<1>2. ParentInv'
  BY <1>1, CallMoves DEF IInv, InProgress, Running, Pcs, Ends
<1>3. \A d \in Call : ~Resetting(d)' /\ ~Pushing(d)'
  BY <1>1, OnlyActive DEF IInv, ParentInv, ParentTypeOK, Resetting, Pushing
<1> QED
  BY <1>1, <1>2, <1>3, TerminateChannel, StaysQuiet DEF IInv, ChannelInv

LEMMA FinallyInv == ASSUME IInv, NEW c \in Call, active = c, Finally(c) PROVE IInv'
<1>1. /\ pc[c] = "finally" /\ pc' = [pc EXCEPT ![c] = "ended"] /\ active' = None
      /\ UNCHANGED <<received, closing, process, out_queue, remote>>
  BY DEF Finally, Finish, Over
<1>2. InProgress(c) /\ ~Resetting(c) /\ ~Pushing(c)
  BY <1>1 DEF InProgress, Resetting, Pushing
<1>3. CASE TerminateOnExit /\ in_queue = None
  <2>1. result' = [result EXCEPT ![c] = "AttributeError"] /\ UNCHANGED <<semaphore, in_queue>>
    BY <1>3 DEF Finally, Finish, Over
  <2>2. ParentInv'
    BY <1>1, <1>2, <2>1, CallMoves DEF IInv, Running, Pcs, Ends
  <2>3. ChannelInv'
    BY <1>1, <1>2, <2>1, MovesAside DEF channel
  <2> QED
    BY <1>1, <2>2, <2>3 DEF IInv
<1>4. CASE ~(TerminateOnExit /\ in_queue = None)
  <2>1. /\ result' = [result EXCEPT ![c] = result[c]]
        /\ semaphore' = [semaphore EXCEPT ![ClientOf[c]] = semaphore[ClientOf[c]] - 1]
        /\ IF TerminateOnExit THEN Put([type |-> "Terminate"])
           ELSE UNCHANGED in_queue
    BY <1>4, Zenon DEF Finally, Finish, Over, Outcome, Released
  <2>2. semaphore[ClientOf[c]] = 1 /\ semaphore' = [semaphore EXCEPT ![ClientOf[c]] = 0]
    <3>1. semaphore[ClientOf[c]] = 1
      BY <1>2 DEF IInv, ParentInv, OneOfEachClient
    <3>2. semaphore[ClientOf[c]] - 1 = 0
      BY <3>1
    <3> QED
      BY <2>1, <3>1, <3>2
  <2>3. \A d \in Call : d # c => pc'[d] = pc[d] /\ pc[d] \notin Running
    BY <1>1, OnlyActive DEF IInv, ParentInv, ParentTypeOK, Running
  <2>4. pc'[c] = "ended" /\ result' = result
    BY <1>1, <2>1 DEF IInv, ParentInv, ParentTypeOK
  <2>5. ParentTypeOK'
    BY <1>1, <2>1, <2>2 DEF IInv, ParentInv, ParentTypeOK, Pcs
  <2>6. OneThread' /\ Results'
    BY <1>1, <2>3, <2>4, CallAssumption, NoneAssumption
       DEF IInv, ParentInv, OneThread, Results, Running
  <2>7. OneOfEachClient'
    <3>1. \A d \in Call : InProgress(d)' =>
                InProgress(d) /\ d # c /\ ClientOf[d] # ClientOf[c]
      BY <1>2, <2>3, <2>4 DEF InProgress, IInv, ParentInv, OneOfEachClient
    <3>2. \A d \in Call : ClientOf[d] # ClientOf[c] =>
                semaphore'[ClientOf[d]] = semaphore[ClientOf[d]]
      BY <2>2, CallAssumption DEF IInv, ParentInv, ParentTypeOK
    <3> QED
      BY <3>1, <3>2 DEF IInv, ParentInv, OneOfEachClient
  <2>8. ChannelInv'
    <3>1. CASE TerminateOnExit
      <4>1. Quiet /\ Linked /\ ChannelTypeOK
        BY <1>1, <1>2, OnlyActive, QuietChannel DEF IInv, ChannelInv, Protocol
      <4>2. ChannelTypeOK' /\ Linked' /\ in_queue' = <<[type |-> "Terminate"]>>
        BY <1>1, <2>1, <3>1, <4>1, Messages, PutMessage
      <4>3. Quiet'
        BY <1>1, <4>1, <4>2 DEF Quiet, remote
      <4>4. \A d \in Call : ~Resetting(d)' /\ ~Pushing(d)'
        BY <2>3, <2>4 DEF Resetting, Pushing, Running, Pcs
      <4> QED
        BY <4>2, <4>3, <4>4, StaysQuiet DEF ChannelInv
    <3>2. CASE ~TerminateOnExit
      BY <1>1, <1>2, <2>1, <3>2, MovesAside DEF channel
    <3> QED
      BY <3>1, <3>2
  <2> QED
    BY <1>1, <2>5, <2>6, <2>7, <2>8 DEF IInv, ParentInv
<1> QED
  BY <1>3, <1>4

LEMMA OpenInv == ASSUME IInv, Open PROVE IInv'
<1>1. /\ active = None /\ EnsureRunning
      /\ UNCHANGED <<active, pc, semaphore, received, result, closing>>
  BY DEF Open, parent
<1>2. ParentInv' /\ received' \in [Call -> Seq(Iterator)]
  BY <1>1 DEF IInv, ParentInv, ParentTypeOK, OneThread, OneOfEachClient, Results, InProgress
<1>3. \A d \in Call : ~Resetting(d) /\ ~Pushing(d)
  BY <1>1, NoneAssumption
     DEF IInv, ParentInv, ParentTypeOK, OneThread, Resetting, Pushing, Running, Pcs
<1>4. ChannelTypeOK' /\ Linked' /\ Quiet'
  BY <1>1, <1>3, QuietChannel, EnsureRunningChannel DEF IInv, ChannelInv, Protocol
<1>5. \A d \in Call : ~Resetting(d)' /\ ~Pushing(d)'
  BY <1>1, <1>3 DEF Resetting, Pushing
<1> QED
  BY <1>2, <1>4, <1>5, StaysQuiet DEF IInv, ChannelInv

LEMMA CloseInv == ASSUME IInv, Close PROVE IInv'
<1>1. /\ active = None /\ active' = User /\ closing' = TRUE
      /\ UNCHANGED <<pc, semaphore, received, result, channel, remote>>
  BY DEF Close
<1>2. \A d \in Call : pc[d] \notin Running
  BY <1>1, NoneAssumption DEF IInv, ParentInv, OneThread
<1>3. ParentInv'
  BY <1>1, <1>2, CallAssumption
     DEF IInv, ParentInv, ParentTypeOK, OneThread, OneOfEachClient, Results, InProgress
<1>4. ChannelInv'
  BY <1>1 DEF IInv, ChannelInv, ChannelTypeOK, Protocol, Linked, Exchange, Quiet,
              Resetting, Pushing, channel, remote
<1> QED
  BY <1>1, <1>3, <1>4 DEF IInv

LEMMA ClosedInv == ASSUME IInv, Closed PROVE IInv'
<1>1. /\ active = User /\ active' = None /\ closing' = FALSE /\ Terminate
      /\ UNCHANGED <<pc, semaphore, received, result>>
  BY DEF Closed, IInv, ParentInv, OneThread
<1>2. \A d \in Call : pc[d] \notin Running
  BY <1>1, CallAssumption DEF IInv, ParentInv, OneThread
<1>3. ParentInv'
  BY <1>1, <1>2, CallAssumption, NoneAssumption
     DEF IInv, ParentInv, ParentTypeOK, OneThread, OneOfEachClient, Results, InProgress
<1>4. \A d \in Call : ~Resetting(d)' /\ ~Pushing(d)'
  BY <1>1, <1>2 DEF IInv, ParentInv, ParentTypeOK, Resetting, Pushing, Running, Pcs
<1> QED
  BY <1>1, <1>3, <1>4, TerminateChannel, StaysQuiet DEF IInv, ChannelInv

-----------------------------------------------------------------------------
(* The child.                                                              *)

\* A step of the child leaves the parent alone, and carries on with the exchange
\* under way if there is one.
LEMMA ChildMoves ==
    ASSUME IInv, UNCHANGED <<parent, process>>, ChannelTypeOK', Linked',
           \A c \in Call : Resetting(c)
                => Exchange(Reset(c), [type : {"ResetOk", "Except"}])',
           \A c \in Call : Pushing(c)
                => Exchange(Push, [type : {"Stop", "Except"}] \cup NextAnswers)',
           Quiet => Quiet'
    PROVE  IInv'
<1>1. ParentInv' /\ received' \in [Call -> Seq(Iterator)]
  BY DEF parent, IInv, ParentInv, ParentTypeOK, OneThread, OneOfEachClient, Results, InProgress
<1>2. Protocol'
  BY DEF parent, IInv, ChannelInv, Protocol, Resetting, Pushing
<1> QED
  BY <1>1, <1>2 DEF IInv, ChannelInv

\* What an exchange, or none, makes of a message the child takes.
LEMMA ChildGetInv == ASSUME IInv, ChildGet PROVE IInv'
<1>1. /\ child = "get" /\ in_queue # <<>> /\ in_queue' = Tail(in_queue)
      /\ UNCHANGED <<parent, process, out_queue, iter_obj>>
  BY DEF ChildGet
<1>2. PICK m \in ToChild : in_queue = <<m>>
  BY <1>1, Messages, NoneAssumption
     DEF IInv, ChannelInv, Protocol, Linked, Exchange, Quiet
<1>3. in_queue' = <<>>
  BY <1>1, <1>2, OneMessage
<1>4. IF m.type = "Terminate" THEN child' = "exited" /\ task' = task
      ELSE child' = "busy" /\ task' = m
  BY <1>2, OneMessage DEF ChildGet
<1>5. ChannelTypeOK' /\ Linked'
  BY <1>1, <1>2, <1>3, <1>4, NoMessage, NotNone, NoneAssumption
     DEF IInv, ChannelInv, ChannelTypeOK, Protocol, Linked
<1>6. ASSUME NEW c \in Call, Resetting(c)
      PROVE  Exchange(Reset(c), [type : {"ResetOk", "Except"}])'
  <2>1. m = Reset(c) /\ out_queue = <<>>
    BY <1>1, <1>2, <1>6 DEF IInv, ChannelInv, Protocol, Exchange
  <2> QED
    BY <1>1, <1>3, <1>4, <2>1, Messages DEF Exchange
<1>7. ASSUME NEW c \in Call, Pushing(c)
      PROVE  Exchange(Push, [type : {"Stop", "Except"}] \cup NextAnswers)'
  <2>1. m = Push /\ out_queue = <<>>
    BY <1>1, <1>2, <1>7 DEF IInv, ChannelInv, Protocol, Exchange
  <2> QED
    BY <1>1, <1>3, <1>4, <2>1, Messages DEF Exchange
<1>8. Quiet => Quiet'
  BY <1>1, <1>2, <1>3, <1>4, NotNone, Messages DEF Quiet
<1> QED
  BY <1>1, <1>5, <1>6, <1>7, <1>8, ChildMoves

\* A busy child works on what the call that waits has asked for.
LEMMA BusyChild ==
    ASSUME IInv, child = "busy"
    PROVE  /\ in_queue = <<>> /\ out_queue = <<>> /\ process /\ task \in ToChild
           /\ \E c \in Call : \/ Resetting(c) /\ task = Reset(c)
                              \/ Pushing(c) /\ task = Push
<1>1. PICK c \in Call : Resetting(c) \/ Pushing(c)
  BY DEF IInv, ChannelInv, Protocol, Quiet
<1>2. /\ in_queue = <<>> /\ out_queue = <<>>
      /\ \/ Resetting(c) /\ task = Reset(c)
         \/ Pushing(c) /\ task = Push
  BY <1>1 DEF IInv, ChannelInv, Protocol, Exchange
<1> QED
  BY <1>2, NoneAssumption, Messages DEF IInv, ChannelInv, Protocol, Linked

\* Its answer is one of those the call can make sense of.
LEMMA AnswerInv ==
    ASSUME IInv, child = "busy", NEW m \in ToParent, Answer(m),
           iter_obj' \in Iterator \cup {None},
           task.type = "Reset" => m \in [type : {"ResetOk", "Except"}],
           task.type = "Push" => m \in [type : {"Stop", "Except"}] \cup NextAnswers
    PROVE  IInv'
<1>1. /\ out_queue' = <<m>> /\ child' = "get" /\ task' = None
      /\ UNCHANGED <<parent, process, in_queue>>
  BY DEF Answer
<1>2. in_queue = <<>> /\ process
  BY BusyChild
<1>3. ChannelTypeOK' /\ Linked'
  BY <1>1, <1>2, OneMessage, NotNone, NoneAssumption
     DEF IInv, ChannelInv, ChannelTypeOK, Protocol, Linked
<1>4. ASSUME NEW c \in Call, Resetting(c)
      PROVE  Exchange(Reset(c), [type : {"ResetOk", "Except"}])'
  <2>1. task = Reset(c)
    BY <1>4 DEF IInv, ChannelInv, Protocol, Exchange
  <2> QED
    BY <1>1, <1>2, <2>1, Messages DEF Exchange
<1>5. ASSUME NEW c \in Call, Pushing(c)
      PROVE  Exchange(Push, [type : {"Stop", "Except"}] \cup NextAnswers)'
  <2>1. task = Push
    BY <1>5 DEF IInv, ChannelInv, Protocol, Exchange
  <2> QED
    BY <1>1, <1>2, <2>1, Messages DEF Exchange
<1>6. ~Quiet
  BY DEF Quiet
<1> QED
  BY <1>1, <1>3, <1>4, <1>5, <1>6, ChildMoves

LEMMA ChildResetInv == ASSUME IInv, ChildReset PROVE IInv'
<1>1. child = "busy" /\ task.type = "Reset"
  BY DEF ChildReset
<1>2. task \in [type : {"Reset"}, call : Call] 
  BY <1>1, BusyChild DEF Reset, Push
<1>3. CASE Answer([type |-> "ResetOk"]) /\ iter_obj' = [call |-> task.call, label |-> 0]
  <2>1. iter_obj' \in Iterator
    BY <1>2, <1>3 DEF Iterator
  <2> QED
    BY <1>1, <1>3, <2>1, AnswerInv, Messages
<1>4. CASE Answer([type |-> "Except"]) /\ UNCHANGED iter_obj
  <2>1. iter_obj' \in Iterator \cup {None}
    BY <1>4 DEF IInv, ChannelInv, ChannelTypeOK
  <2> QED
    BY <1>1, <1>4, <2>1, AnswerInv, Messages
<1> QED
  BY <1>3, <1>4 DEF ChildReset

LEMMA ChildPushInv == ASSUME IInv, ChildPush PROVE IInv'
<1>1. child = "busy" /\ task.type = "Push" /\ iter_obj \in Iterator
  BY DEF ChildPush, IInv, ChannelInv, ChannelTypeOK
<1>2. ASSUME Answer([type |-> "Next", call |-> iter_obj.call, label |-> iter_obj.label]),
             iter_obj' = [iter_obj EXCEPT !.label = iter_obj.label + 1]
      PROVE  IInv'
  <2>1. /\ iter_obj' \in Iterator
        /\ [type |-> "Next", call |-> iter_obj.call, label |-> iter_obj.label] \in NextAnswers
    BY <1>1, <1>2 DEF Iterator, NextAnswers
  <2> QED
    BY <1>1, <1>2, <2>1, AnswerInv, Messages
<1>3. ASSUME NEW m \in [type : {"Stop", "Except"}], Answer(m), UNCHANGED iter_obj
      PROVE  IInv'
  BY <1>1, <1>3, AnswerInv, Messages
<1>4. [type |-> "Stop"] \in [type : {"Stop", "Except"}]
      /\ [type |-> "Except"] \in [type : {"Stop", "Except"}]
  OBVIOUS
<1> QED
  BY <1>2, <1>3, <1>4 DEF ChildPush

LEMMA ChildFailsInv == ASSUME IInv, ChildFails PROVE IInv'
<1>1. /\ child = "busy" /\ task.type = "Push" /\ child' = "exited" /\ task' = None
      /\ UNCHANGED <<parent, process, in_queue, iter_obj>>
      /\ \/ out_queue' = out_queue
         \/ out_queue' = <<[type |-> "Except"]>>
  BY DEF ChildFails
<1>2. in_queue = <<>> /\ out_queue = <<>> /\ process
  BY <1>1, BusyChild
<1>3. /\ [type |-> "Except"] \in [type : {"Stop", "Except"}] \cup NextAnswers
      /\ [type |-> "Except"] \in ToParent
  BY Messages
<1>4. ChannelTypeOK' /\ Linked'
  <2>1. out_queue' \in Seq(ToParent) /\ out_queue' # None
    BY <1>1, <1>2, <1>3, OneMessage, NotNone, NoMessage
  <2> QED
    BY <1>1, <1>2, <2>1, NotNone, NoneAssumption
       DEF IInv, ChannelInv, ChannelTypeOK, Protocol, Linked
<1>5. ASSUME NEW c \in Call, Resetting(c)
      PROVE  FALSE
  <2>1. task = Reset(c)
    BY <1>1, <1>5 DEF IInv, ChannelInv, Protocol, Exchange
  <2> QED
    BY <1>1, <2>1, Messages
<1>6. ASSUME NEW c \in Call, Pushing(c)
      PROVE  Exchange(Push, [type : {"Stop", "Except"}] \cup NextAnswers)'
  BY <1>1, <1>2, <1>3 DEF Exchange
<1>7. ~Quiet
  BY <1>1 DEF Quiet
<1> QED
  BY <1>1, <1>4, <1>5, <1>6, <1>7, ChildMoves

-----------------------------------------------------------------------------

LEMMA NextInv == IInv /\ [Next]_vars => IInv'
<1> SUFFICES ASSUME IInv, [Next]_vars PROVE IInv'
  OBVIOUS
<1>1. ASSUME NEW c \in Call, CallStep(c) PROVE IInv'
  BY <1>1, PutResetInv, GetResetInv, PutPushInv, PutPushClosedInv, GetInv, TimeoutInv,
     TimedOutInv, FinallyInv DEF CallStep
<1>2. CASE UNCHANGED vars
  BY <1>2 DEF vars, parent, channel, remote, IInv, ParentInv, ParentTypeOK, OneThread,
              OneOfEachClient, Results, InProgress, ChannelInv, ChannelTypeOK, Protocol,
              Linked, Exchange, Quiet, Resetting, Pushing
<1> QED
  BY <1>1, <1>2, StartInv, ResumeInv, ThrowInv, OpenInv, CloseInv, ClosedInv,
     ChildGetInv, ChildResetInv, ChildPushInv, ChildFailsInv DEF Next

LEMMA Invariance == Spec => []IInv
<1>1. Init => IInv
  BY InitInv
<1> QED
  BY <1>1, NextInv, PTL DEF Spec

\* Every variable has its type, whatever calls, clients and labels there are: in
\* particular a client's semaphore is never released twice.
THEOREM TypeCorrect == Spec => []TypeOK
<1>1. IInv => TypeOK
  BY DEF IInv, ParentInv, ParentTypeOK, ChannelInv, ChannelTypeOK, TypeOK
<1> QED
  BY <1>1, Invariance, PTL

LEMMA AtMostOne ==
    ASSUME NEW x \in {0, 1}, NEW y \in {0, 1}, NEW z \in {0, 1},
           x = 1 => y = 0 /\ z = 0, y = 1 => z = 0
    PROVE  x + y + z <= 1
OBVIOUS

\* Parent and child never talk at the same time, with any number of clients that
\* share the child, and in both generations.
THEOREM LockstepAlways == Spec => []Lockstep
<1>1. IInv => Lockstep
  <2> DEFINE busy == IF child = "busy" THEN 1 ELSE 0
  <2> SUFFICES ASSUME IInv, process PROVE Len(in_queue) + Len(out_queue) + busy <= 1
    BY DEF Lockstep
  <2>1. Len(<<>>) = 0 /\ \A m : Len(<<m>>) = 1
    OBVIOUS
  <2>2. busy \in {0, 1} /\ (child # "busy" => busy = 0)
    OBVIOUS
  <2> HIDE DEF busy
  <2>3. CASE Quiet
    <3>1. /\ in_queue \in {<<>>, <<[type |-> "Terminate"]>>}
          /\ out_queue = <<>> /\ child # "busy"
      BY <2>3 DEF Quiet, IInv, ChannelInv, Protocol, Linked
    <3>2. Len(in_queue) \in {0, 1} /\ Len(out_queue) = 0
      BY <2>1, <3>1
    <3> QED
      BY <2>2, <3>1, <3>2, AtMostOne
  <2>4. ASSUME NEW request, NEW answers, Exchange(request, answers)
        PROVE  Len(in_queue) + Len(out_queue) + busy <= 1
    <3>1. Exchange(request, answers)
      BY <2>4
    <3>2. \/ Len(in_queue) = 1 /\ Len(out_queue) = 0 /\ child # "busy"
          \/ Len(in_queue) = 0 /\ Len(out_queue) = 0
          \/ Len(in_queue) = 0 /\ Len(out_queue) = 1 /\ child # "busy"
      BY <2>1, <3>1 DEF Exchange
    <3> QED
      BY <2>2, <3>2, AtMostOne
  <2> QED
    BY <2>3, <2>4 DEF IInv, ChannelInv, Protocol
<1> QED
  BY <1>1, Invariance, PTL

-----------------------------------------------------------------------------
(* A client is freed.                                                      *)

Keeps(c) ==
    \/ pc[c] \notin {"new", "ended"}
    \/ TerminateOnExit /\ result[c] = "AttributeError"

\* A call that goes on, or fails where it does not free its client, keeps it.
LEMMA FreedKept ==
    ASSUME ClientFreed, semaphore' = semaphore,
           \A c \in Call : Keeps(c) => Keeps(c)'
    PROVE  ClientFreed'
BY DEF ClientFreed, Keeps

LEMMA FreedMoves ==
    ASSUME IInv, ClientFreed, semaphore' = semaphore, NEW c \in Call,
           NEW where \in Pcs \ {"new"}, pc' = [pc EXCEPT ![c] = where],
           result' = result \/ (\E how : result' = [result EXCEPT ![c] = how]),
           where # "ended" \/ (TerminateOnExit /\ result'[c] = "AttributeError")
    PROVE  ClientFreed'
<1>1. pc'[c] = where /\ \A d \in Call : d # c => pc'[d] = pc[d] /\ result'[d] = result[d]
  BY DEF IInv, ParentInv, ParentTypeOK
<1>2. Keeps(c) => Keeps(c)'
  BY <1>1 DEF Keeps, IInv, ParentInv, ParentTypeOK
<1>3. \A d \in Call : d # c /\ Keeps(d) => Keeps(d)'
  BY <1>1 DEF Keeps
<1> QED
  BY <1>2, <1>3, FreedKept

LEMMA FreedStep == IInv /\ ClientFreed /\ [Next]_vars => ClientFreed'
<1> SUFFICES ASSUME IInv, ClientFreed, [Next]_vars PROVE ClientFreed'
  OBVIOUS
<1>0. ASSUME UNCHANGED <<semaphore, pc, result>> PROVE ClientFreed'
  BY <1>0 DEF ClientFreed
<1>1. ASSUME NEW c \in Call, Start(c) PROVE ClientFreed'
  <2>1. CASE Busy(c)
    <3>1. ~Keeps(c) /\ semaphore' = semaphore
      BY <1>1, <2>1, NoneAssumption
         DEF Start, Keeps, IInv, ParentInv, ParentTypeOK, Results, Ends
    <3>2. \A d \in Call : d # c => pc'[d] = pc[d] /\ result'[d] = result[d]
      BY <1>1, <2>1 DEF Start, Finish, Over, IInv, ParentInv, ParentTypeOK
    <3> QED
      BY <3>1, <3>2, FreedKept DEF Keeps
  <2>2. CASE ~Busy(c)
    <3>1. pc' = [pc EXCEPT ![c] = "put reset"] /\ result' = result
      BY <1>1, <2>2 DEF Start, Go
    <3>2. \A k \in Client : k # ClientOf[c] => semaphore'[k] = semaphore[k]
      BY <1>1, <2>2 DEF Start, IInv, ParentInv, ParentTypeOK
    <3>3. \A d \in Call : Keeps(d) => Keeps(d)'
      BY <3>1 DEF Keeps, IInv, ParentInv, ParentTypeOK
    <3>4. Keeps(c)'
      BY <3>1 DEF Keeps, IInv, ParentInv, ParentTypeOK
    <3> QED
      BY <3>2, <3>3, <3>4 DEF ClientFreed, Keeps
  <2> QED
    BY <2>1, <2>2
<1>2. ASSUME NEW c \in Call,
             PutReset(c) \/ PutPush(c) \/ Timeout(c) \/ Resume(c) PROVE ClientFreed'
  BY <1>2, FreedMoves DEF PutReset, PutPush, Timeout, Resume, Go, Pcs
<1>3. ASSUME NEW c \in Call, PutPushClosed(c) \/ Throw(c) PROVE ClientFreed'
  BY <1>3, FreedMoves DEF PutPushClosed, Throw, Go, Pcs
<1>4. ASSUME NEW c \in Call, GetReset(c) PROVE ClientFreed'
  <2>1. semaphore' = semaphore
    BY <1>4 DEF GetReset
  <2> QED
    BY <1>4, <2>1, GetResetOutcome, FreedMoves DEF Pcs
<1>5. ASSUME NEW c \in Call, Get(c) PROVE ClientFreed'
  <2>1. semaphore' = semaphore
    BY <1>5 DEF Get
  <2> QED
    BY <1>5, <2>1, GetOutcome, FreedMoves DEF Pcs
<1>6. ASSUME NEW c \in Call, TimedOut(c) PROVE ClientFreed'
  BY <1>6, FreedMoves DEF TimedOut, FailReset, Over, Go, Pcs
<1>7. ASSUME NEW c \in Call, Finally(c) PROVE ClientFreed'
  <2>1. pc[c] = "finally" /\ pc' = [pc EXCEPT ![c] = "ended"]
    BY <1>7 DEF Finally, Finish, Over
  <2>2. CASE TerminateOnExit /\ in_queue = None
    <3>1. result' = [result EXCEPT ![c] = "AttributeError"] /\ semaphore' = semaphore
      BY <1>7, <2>2 DEF Finally, Finish, Over
    <3>2. result'[c] = "AttributeError"
      BY <3>1 DEF IInv, ParentInv, ParentTypeOK
    <3> QED
      BY <2>1, <2>2, <3>1, <3>2, FreedMoves DEF Pcs
  <2>3. CASE ~(TerminateOnExit /\ in_queue = None)
    <3>1. /\ result' = [result EXCEPT ![c] = result[c]]
          /\ semaphore' = [semaphore EXCEPT ![ClientOf[c]] = semaphore[ClientOf[c]] - 1]
      BY <1>7, <2>3, Zenon DEF Finally, Finish, Over, Outcome, Released
    <3>2. semaphore[ClientOf[c]] = 1
      BY <2>1 DEF IInv, ParentInv, OneOfEachClient, InProgress
    <3>3. semaphore[ClientOf[c]] - 1 = 0
      BY <3>2
    <3>4. \A k \in Client : semaphore'[k] = 1 => k # ClientOf[c] /\ semaphore[k] = 1
      BY <3>1, <3>3, CallAssumption DEF IInv, ParentInv, ParentTypeOK
    <3>5. \A d \in Call : d # c /\ Keeps(d) => Keeps(d)'
      BY <2>1, <3>1 DEF Keeps, IInv, ParentInv, ParentTypeOK
    <3> QED
      BY <3>4, <3>5 DEF ClientFreed, Keeps
  <2> QED
    BY <2>2, <2>3
<1> QED
  BY <1>0, <1>1, <1>2, <1>3, <1>4, <1>5, <1>6, <1>7
     DEF Next, CallStep, Open, Close, Closed, ChildGet, ChildReset, ChildPush, Answer,
         ChildFails, parent, vars

\* However a call that was reset ends, its client can be called again, with any
\* number of calls and clients; only the newer generation has an exception to it.
THEOREM ClientFreedAlways == Spec => []ClientFreed
<1>1. Init => ClientFreed
  BY InitInv
<1> QED
  BY <1>1, FreedStep, Invariance, PTL DEF Spec

-----------------------------------------------------------------------------
(* Timeouts are reported.                                                  *)

LEMMA ReportedStep ==
    ASSUME ~TerminateOnExit, IInv, [Next]_vars, NEW c \in Call,
           \/ pc[c] \in {"terminate reset", "terminate"} /\ pc'[c] # pc[c]
           \/ result[c] = "RemoteTimeoutError"
    PROVE  result'[c] = "RemoteTimeoutError"
<1>1. pc[c] \in {"terminate reset", "terminate", "finally", "ended", "failed"}
  BY NoneAssumption DEF IInv, ParentInv, Results, Ends
<1>2. ASSUME UNCHANGED <<pc, result>> PROVE result'[c] = "RemoteTimeoutError"
  BY <1>2
<1>3. ASSUME NEW d \in Call, d # c, NEW where, NEW how,
             pc' = [pc EXCEPT ![d] = where],
             result' = result \/ result' = [result EXCEPT ![d] = how]
      PROVE  result'[c] = "RemoteTimeoutError"
  BY <1>3 DEF IInv, ParentInv, ParentTypeOK
<1>4. ASSUME NEW d \in Call, Start(d) PROVE result'[c] = "RemoteTimeoutError"
  <2>1. d # c
    BY <1>1, <1>4 DEF Start
  <2> QED
    BY <1>3, <1>4, <2>1 DEF Start, Finish, Over, Go
<1>5. ASSUME NEW d \in Call, 
             \/ PutReset(d) \/ PutPush(d) \/ Timeout(d) \/ Resume(d)
             \/ PutPushClosed(d) \/ Throw(d)
      PROVE  result'[c] = "RemoteTimeoutError"
  <2>1. d # c
    BY <1>1, <1>5 DEF PutReset, PutPush, Timeout, Resume, PutPushClosed, Throw
  <2> QED
    BY <1>3, <1>5, <2>1
       DEF PutReset, PutPush, Timeout, Resume, PutPushClosed, Throw, Go
<1>6. ASSUME NEW d \in Call, GetReset(d) PROVE result'[c] = "RemoteTimeoutError"
  <2>1. d # c
    BY <1>1, <1>6 DEF GetReset
  <2> QED
    BY <1>3, <1>6, <2>1, GetResetOutcome
<1>7. ASSUME NEW d \in Call, Get(d) PROVE result'[c] = "RemoteTimeoutError"
  <2>1. d # c
    BY <1>1, <1>7 DEF Get
  <2> QED
    BY <1>3, <1>7, <2>1, GetOutcome
<1>8. ASSUME NEW d \in Call, TimedOut(d) PROVE result'[c] = "RemoteTimeoutError"
  <2>1. result' = [result EXCEPT ![d] = "RemoteTimeoutError"]
        /\ \E where : pc' = [pc EXCEPT ![d] = where]
    BY <1>8 DEF TimedOut, FailReset, Over, Go
  <2> QED
    BY <1>3, <2>1 DEF IInv, ParentInv, ParentTypeOK
<1>9. ASSUME NEW d \in Call, Finally(d) PROVE result'[c] = "RemoteTimeoutError"
  <2>1. /\ pc[d] = "finally" /\ pc' = [pc EXCEPT ![d] = "ended"]
        /\ result' = [result EXCEPT ![d] = result[d]]
    BY <1>9 DEF Finally, Finish, Over, Outcome
  <2> QED
    BY <2>1 DEF IInv, ParentInv, ParentTypeOK
<1> QED
  BY <1>2, <1>4, <1>5, <1>6, <1>7, <1>8, <1>9
     DEF Next, CallStep, Open, Close, Closed, ChildGet, ChildReset, ChildPush, Answer,
         ChildFails, parent, vars

\* In the older generation a call that ran out of time tells its caller so. In the
\* newer one the finally block may replace the error by another.
THEOREM TimeoutsReportedAlways == ~TerminateOnExit /\ Spec => TimeoutsReported
<1> SUFFICES ASSUME ~TerminateOnExit PROVE Spec => TimeoutsReported
  OBVIOUS
<1>1. IInv /\ [Next]_vars =>
        [\A c \in Call :
            \/ pc[c] \in {"terminate reset", "terminate"} /\ pc'[c] # pc[c]
            \/ result[c] = "RemoteTimeoutError"
            => result'[c] = "RemoteTimeoutError"]_vars
  BY ReportedStep
<1> QED
  BY <1>1, Invariance, PTL DEF Spec, TimeoutsReported

-----------------------------------------------------------------------------
(* A caller gets the labels of its own call.                               *)

\* No call begins before the one before it has ended, as where every use of
\* RemoteGenerator has a process of an Execution of its own. One client ensures
\* it; client() gives each caller another one, and ensures nothing.
Alone == \A c, d \in Call : InProgress(c) /\ InProgress(d) => c = d

OneClient == \A c, d \in Call : ClientOf[c] = ClientOf[d]

LEMMA OneClientAlone == OneClient /\ IInv => Alone
BY DEF OneClient, IInv, ParentInv, OneOfEachClient, Alone

\* Until its Reset is answered a call has no labels; from then on the child's
\* iterator, if there is one, is the call's own, and stands behind the label that
\* is on its way, or else behind the last one received.
OwnIterator(c) ==
    /\ pc[c] \in {"new", "put reset", "get reset", "terminate reset"} => received[c] = <<>>
    /\ pc[c] = "get reset" /\ out_queue = <<[type |-> "ResetOk"]>>
            => iter_obj = [call |-> c, label |-> 0]
    /\ pc[c] \in {"put push", "get", "terminate", "yielded"} =>
        /\ \A m \in NextAnswers : out_queue = <<m>> =>
            /\ m = [type |-> "Next", call |-> c, label |-> Len(received[c])]
            /\ iter_obj = [call |-> c, label |-> Len(received[c]) + 1]
        /\ (\A m \in NextAnswers : out_queue # <<m>>) /\ iter_obj # None =>
            iter_obj = [call |-> c, label |-> Len(received[c])]

OwnLabels(c) ==
    \A i \in DOMAIN received[c] : received[c][i] = [call |-> c, label |-> i - 1]

OwnInv == \A c \in Call : OwnIterator(c) /\ OwnLabels(c)

\* A queue of one message holds no other.
LEMMA SameMessage ==
    /\ \A a, b : <<a>> = <<b>> => a = b
    /\ \A m \in NextAnswers : m.type = "Next" /\ <<>> # <<m>>
    /\ [type |-> "ResetOk"].type = "ResetOk" /\ [type |-> "Except"].type = "Except"
    /\ [type |-> "Stop"].type = "Stop"
<1>1. ASSUME NEW a, NEW b, <<a>> = <<b>> PROVE a = b
  BY <1>1
<1> QED
  BY <1>1 DEF NextAnswers

\* Calls that are over, or not begun, need nothing of the channel.
LEMMA OwnAside ==
    ASSUME OwnInv, received' = received, NEW c \in Call,
           pc'[c] \in {"new", "ended", "failed", "finally"}, pc'[c] = "new" => pc[c] = "new"
    PROVE  OwnIterator(c)' /\ OwnLabels(c)'
BY DEF OwnInv, OwnIterator, OwnLabels

\* Nor does a call notice what leaves the answers and the iterator alone.
LEMMA OwnSame ==
    ASSUME OwnInv, UNCHANGED <<received, out_queue, iter_obj>>, NEW c \in Call,
           \/ pc'[c] = pc[c]
           \/ pc[c] \in {"new", "put reset", "get reset"}
              /\ pc'[c] \in {"put reset", "terminate reset"}
           \/ pc[c] \in {"put push", "get", "yielded"}
              /\ pc'[c] \in {"put push", "get", "terminate", "yielded"}
    PROVE  OwnIterator(c)' /\ OwnLabels(c)'
BY DEF OwnInv, OwnIterator, OwnLabels

\* Only the call that moves is in progress.
LEMMA OwnOthers ==
    ASSUME IInv, OwnInv, Alone, Alone', NEW c \in Call, InProgress(c) \/ InProgress(c)',
           NEW where, pc' = [pc EXCEPT ![c] = where], 
           NEW d \in Call, d # c, received'[d] = received[d]
    PROVE  OwnIterator(d)' /\ OwnLabels(d)'
<1>1. pc'[d] = pc[d]
  BY DEF IInv, ParentInv, ParentTypeOK
<1>2. pc[d] \in {"new", "ended", "failed"}
  BY <1>1 DEF Alone, InProgress
<1> QED
  BY <1>1, <1>2 DEF OwnInv, OwnIterator, OwnLabels

LEMMA OwnStart ==
    ASSUME IInv, OwnInv, Alone, Alone', NEW c \in Call, Start(c) PROVE OwnInv'
<1>1. received' = received /\ pc[c] = "new" /\ pc \in [Call -> Pcs]
  BY DEF Start, IInv, ParentInv, ParentTypeOK
<1>2. CASE Busy(c)
  <2>1. pc' = [pc EXCEPT ![c] = "ended"] /\ UNCHANGED <<out_queue, iter_obj>>
    BY <1>2 DEF Start, Finish, Over, channel, remote
  <2> QED
    BY <1>1, <2>1, OwnAside, OwnSame DEF OwnInv
<1>3. CASE ~Busy(c)
  <2>1. pc' = [pc EXCEPT ![c] = "put reset"]
    BY <1>3 DEF Start, Go
  <2>2. OwnIterator(c)' /\ OwnLabels(c)'
    BY <1>1, <2>1 DEF OwnInv, OwnIterator, OwnLabels
  <2>3. InProgress(c)'
    BY <1>1, <2>1 DEF InProgress
  <2> QED
    BY <1>1, <2>1, <2>2, <2>3, OwnOthers DEF OwnInv
<1> QED
  BY <1>2, <1>3

LEMMA OwnPutReset ==
    ASSUME IInv, OwnInv, Alone, Alone', NEW c \in Call, active = c, PutReset(c) PROVE OwnInv'
<1>1. /\ pc[c] = "put reset" /\ pc' = [pc EXCEPT ![c] = "get reset"]
      /\ UNCHANGED <<received, out_queue, iter_obj>> /\ InProgress(c)
  BY DEF PutReset, Go, remote, InProgress
<1>2. Quiet
  BY <1>1, OnlyActive, QuietChannel DEF IInv, Resetting, Pushing
<1>3. out_queue # <<[type |-> "ResetOk"]>>
  BY <1>2, NotNone, Messages DEF Quiet
<1>4. OwnIterator(c)' /\ OwnLabels(c)'
  BY <1>1, <1>3 DEF OwnInv, OwnIterator, OwnLabels, IInv, ParentInv, ParentTypeOK
<1> QED
  BY <1>1, <1>4, OwnOthers DEF OwnInv

LEMMA OwnGetReset ==
    ASSUME IInv, OwnInv, Alone, Alone', NEW c \in Call, GetReset(c) PROVE OwnInv'
<1>1. pc[c] = "get reset" /\ received' = received /\ iter_obj' = iter_obj /\ InProgress(c)
  BY DEF GetReset, remote, InProgress
<1>2. PICK a \in [type : {"ResetOk", "Except"}] :
            /\ out_queue = <<a>> /\ out_queue' = <<>>
            /\ \/ pc' = [pc EXCEPT ![c] = "failed"]
               \/ pc' = [pc EXCEPT ![c] = "put push"] /\ a = [type |-> "ResetOk"]
  BY GetResetOutcome
<1>3. CASE pc' = [pc EXCEPT ![c] = "failed"]
  BY <1>1, <1>3, OwnAside, OwnOthers DEF OwnInv, IInv, ParentInv, ParentTypeOK
<1>4. CASE pc' = [pc EXCEPT ![c] = "put push"] /\ a = [type |-> "ResetOk"]
  <2>1. received[c] = <<>> /\ iter_obj = [call |-> c, label |-> 0] /\ Len(received[c]) = 0
    <3>1. received[c] = <<>> /\ out_queue = <<[type |-> "ResetOk"]>>
      BY <1>1, <1>2, <1>4 DEF OwnInv, OwnIterator
    <3>2. iter_obj = [call |-> c, label |-> 0]
      BY <1>1, <3>1 DEF OwnInv, OwnIterator
    <3>3. Len(<<>>) = 0
      OBVIOUS
    <3> QED
      BY <3>1, <3>2, <3>3
  <2>2. pc'[c] = "put push" /\ OwnLabels(c)'
    BY <1>1, <1>4 DEF OwnInv, OwnLabels, IInv, ParentInv, ParentTypeOK
  <2>3. OwnIterator(c)'
    BY <1>1, <1>2, <2>1, <2>2, SameMessage DEF OwnIterator
  <2> QED
    BY <1>1, <1>4, <2>2, <2>3, OwnOthers DEF OwnInv
<1> QED
  BY <1>2, <1>3, <1>4

LEMMA OwnGet ==
    ASSUME IInv, OwnInv, Alone, Alone', NEW c \in Call, Get(c) PROVE OwnInv'
<1>1. pc[c] = "get" /\ iter_obj' = iter_obj /\ InProgress(c)
  BY DEF Get, remote, InProgress
<1>2. PICK a \in [type : {"Stop", "Except"}] \cup NextAnswers :
            /\ out_queue = <<a>> /\ out_queue' = <<>>
            /\ \/ /\ pc' = [pc EXCEPT ![c] = "yielded"] /\ a \in NextAnswers
                  /\ received' = [received EXCEPT ![c] =
                        Append(received[c], [call |-> a.call, label |-> a.label])]
               \/ pc' = [pc EXCEPT ![c] = "finally"] /\ received' = received
  BY GetOutcome
<1>3. CASE pc' = [pc EXCEPT ![c] = "finally"] /\ received' = received
  BY <1>1, <1>3, OwnAside, OwnOthers DEF OwnInv, IInv, ParentInv, ParentTypeOK
<1>4. CASE /\ pc' = [pc EXCEPT ![c] = "yielded"] /\ a \in NextAnswers
           /\ received' = [received EXCEPT ![c] =
                Append(received[c], [call |-> a.call, label |-> a.label])]
  <2> DEFINE n == Len(received[c])
             x == [call |-> a.call, label |-> a.label]
  <2>1. received[c] \in Seq(Iterator) /\ x \in Iterator
    BY <1>4 DEF IInv, Iterator, NextAnswers
  <2>2. /\ a = [type |-> "Next", call |-> c, label |-> n]
        /\ iter_obj = [call |-> c, label |-> n + 1]
    BY <1>1, <1>2, <1>4 DEF OwnInv, OwnIterator
  <2>3. received'[c] = Append(received[c], x) /\ x = [call |-> c, label |-> n]
    BY <1>4, <2>2 DEF IInv
  <2> HIDE DEF x
  <2>4. /\ n \in Nat /\ Len(received'[c]) = n + 1 /\ DOMAIN received'[c] = 1..(n + 1)
        /\ received'[c][n + 1] = x
        /\ \A i \in 1..n : received'[c][i] = received[c][i] /\ i \in DOMAIN received[c]
    BY <2>1, <2>3
  <2>5. OwnLabels(c)'
    <3> SUFFICES ASSUME NEW i \in 1..(n + 1)
                 PROVE  received'[c][i] = [call |-> c, label |-> i - 1]
      BY <2>4 DEF OwnLabels
    <3>1. CASE i \in 1..n
      BY <2>4, <3>1 DEF OwnInv, OwnLabels
    <3>2. CASE i = n + 1
      BY <2>3, <2>4, <3>2
    <3> QED
      BY <2>4, <3>1, <3>2
  <2>6. pc'[c] = "yielded"
    BY <1>4 DEF IInv, ParentInv, ParentTypeOK
  <2>7. OwnIterator(c)'
    BY <1>1, <1>2, <2>2, <2>4, <2>6, SameMessage DEF OwnIterator
  <2>8. \A d \in Call : d # c => received'[d] = received[d]
    BY <1>4 DEF IInv
  <2> QED
    BY <1>1, <1>4, <2>5, <2>7, <2>8, OwnOthers DEF OwnInv
<1> QED
  BY <1>2, <1>3, <1>4

\* The child's steps, while the call that waits is the only one in progress.
LEMMA OwnChild ==
    ASSUME IInv, OwnInv, Alone, UNCHANGED parent, NEW c \in Call, InProgress(c),
           OwnIterator(c)'
    PROVE  OwnInv'
<1>1. \A d \in Call : d # c => pc[d] \in {"new", "ended", "failed"}
  BY DEF Alone, InProgress
<1>2. ASSUME NEW d \in Call, d # c PROVE OwnIterator(d)'
  BY <1>1, <1>2 DEF OwnInv, OwnIterator, parent
<1>3. \A d \in Call : OwnLabels(d)'
  BY DEF OwnInv, OwnLabels, parent
<1> QED
  BY <1>2, <1>3 DEF OwnInv

LEMMA OwnChildReset ==
    ASSUME IInv, OwnInv, Alone, ChildReset PROVE OwnInv'
<1>1. child = "busy" /\ task.type = "Reset" /\ UNCHANGED parent
  BY DEF ChildReset, Answer
<1>2. PICK c \in Call : Resetting(c) /\ task = Reset(c)
  BY <1>1, BusyChild, Messages
<1>3. InProgress(c) /\ UNCHANGED <<pc, received>> /\ task.call = c
  BY <1>1, <1>2, Messages DEF Resetting, InProgress, parent
<1>4. received[c] = <<>>
  BY <1>2 DEF OwnInv, OwnIterator, Resetting
<1>5. /\ out_queue' = <<[type |-> "ResetOk"]>> => iter_obj' = [call |-> c, label |-> 0]
  <2>1. CASE Answer([type |-> "ResetOk"]) /\ iter_obj' = [call |-> task.call, label |-> 0]
    BY <1>3, <2>1
  <2>2. CASE Answer([type |-> "Except"])
    BY <2>2, SameMessage DEF Answer
  <2> QED
    BY <2>1, <2>2 DEF ChildReset
<1>6. OwnIterator(c)'
  BY <1>2, <1>3, <1>4, <1>5 DEF OwnIterator, Resetting
<1> QED
  BY <1>1, <1>3, <1>6, OwnChild

LEMMA OwnChildPush ==
    ASSUME IInv, OwnInv, Alone, ChildPush PROVE OwnInv'
<1>1. child = "busy" /\ task.type = "Push" /\ iter_obj # None /\ UNCHANGED parent
  BY DEF ChildPush, Answer
<1>2. PICK c \in Call : Pushing(c) /\ out_queue = <<>>
  BY <1>1, BusyChild, Messages
<1>3. InProgress(c) /\ UNCHANGED <<pc, received>>
  BY <1>1, <1>2 DEF Pushing, InProgress, parent
<1>4. iter_obj = [call |-> c, label |-> Len(received[c])]
  BY <1>1, <1>2, SameMessage DEF OwnInv, OwnIterator, Pushing
<1>5. ASSUME Answer([type |-> "Next", call |-> iter_obj.call, label |-> iter_obj.label]),
             iter_obj' = [iter_obj EXCEPT !.label = iter_obj.label + 1]
      PROVE  OwnIterator(c)'
  <2>1. /\ out_queue' = <<[type |-> "Next", call |-> c, label |-> Len(received[c])]>>
        /\ iter_obj' = [call |-> c, label |-> Len(received[c]) + 1]
    BY <1>4, <1>5 DEF Answer
  <2>2. [type |-> "Next", call |-> c, label |-> Len(received[c])] \in NextAnswers
    BY DEF NextAnswers, IInv
  <2> QED
    BY <1>2, <1>3, <2>1, <2>2, SameMessage DEF OwnIterator, Pushing
<1>6. ASSUME NEW m, m.type # "Next", Answer(m), UNCHANGED iter_obj
      PROVE  OwnIterator(c)'
  <2>1. \A n \in NextAnswers : out_queue' # <<n>>
    BY <1>6, SameMessage DEF Answer
  <2> QED
    BY <1>2, <1>3, <1>4, <1>6, <2>1 DEF OwnIterator, Pushing
<1>7. OwnIterator(c)'
  BY <1>5, <1>6, SameMessage DEF ChildPush
<1> QED
  BY <1>1, <1>3, <1>7, OwnChild

LEMMA OwnChildFails ==
    ASSUME IInv, OwnInv, Alone, ChildFails PROVE OwnInv'
<1>1. /\ child = "busy" /\ task.type = "Push" /\ iter_obj = None /\ iter_obj' = None
      /\ UNCHANGED parent
      /\ out_queue' = out_queue \/ out_queue' = <<[type |-> "Except"]>>
  BY DEF ChildFails
<1>2. PICK c \in Call : Pushing(c) /\ out_queue = <<>>
  BY <1>1, BusyChild, Messages
<1>3. InProgress(c) /\ UNCHANGED <<pc, received>>
  BY <1>1, <1>2 DEF Pushing, InProgress, parent
<1>4. \A n \in NextAnswers : out_queue' # <<n>>
  BY <1>1, <1>2, SameMessage
<1>5. OwnIterator(c)'
  BY <1>1, <1>2, <1>3, <1>4 DEF OwnIterator, Pushing
<1> QED
  BY <1>1, <1>3, <1>5, OwnChild

LEMMA OwnStep == IInv /\ OwnInv /\ Alone /\ Alone' /\ [Next]_vars => OwnInv'
<1> SUFFICES ASSUME IInv, OwnInv, Alone, Alone', [Next]_vars PROVE OwnInv'
  OBVIOUS
<1>1. ASSUME UNCHANGED <<pc, received, out_queue, iter_obj>> PROVE OwnInv'
  BY <1>1 DEF OwnInv, OwnIterator, OwnLabels
<1>2. ASSUME NEW c \in Call, NEW where, InProgress(c), pc' = [pc EXCEPT ![c] = where],
             received' = received,
             \/ where \in {"ended", "failed", "finally"}
             \/ /\ UNCHANGED <<out_queue, iter_obj>>
                /\ \/ pc[c] = "get reset" /\ where = "terminate reset"
                   \/ /\ pc[c] \in {"put push", "get", "yielded"}
                      /\ where \in {"put push", "get", "terminate", "yielded"}
      PROVE  OwnInv'
  <2>1. pc'[c] = where
    BY <1>2 DEF IInv, ParentInv, ParentTypeOK
  <2>2. OwnIterator(c)' /\ OwnLabels(c)'
    BY <1>2, <2>1, OwnAside, OwnSame
  <2> QED
    BY <1>2, <2>2, OwnOthers DEF OwnInv
<1>3. ASSUME NEW c \in Call,
             \/ PutPush(c) \/ PutPushClosed(c) \/ Timeout(c) \/ TimedOut(c)
             \/ Finally(c) \/ Resume(c) \/ Throw(c)
      PROVE  OwnInv'
  <2>1. InProgress(c)
    BY <1>3 DEF InProgress, PutPush, PutPushClosed, Timeout, TimedOut, Finally, Resume, Throw
  <2>2. CASE PutPush(c)
    BY <1>2, <2>1, <2>2 DEF PutPush, Go, remote
  <2>3. CASE PutPushClosed(c)
    BY <1>2, <2>1, <2>3 DEF PutPushClosed, Go
  <2>4. CASE Timeout(c)
    BY <1>2, <2>1, <2>4 DEF Timeout, Go, channel, remote
  <2>5. CASE TimedOut(c)
    BY <1>2, <2>1, <2>5 DEF TimedOut, Go, FailReset, Over
  <2>6. CASE Finally(c)
    BY <1>2, <2>1, <2>6 DEF Finally, Finish, Over
  <2>7. CASE Resume(c)
    BY <1>2, <2>1, <2>7 DEF Resume, Go, channel, remote
  <2>8. CASE Throw(c)
    BY <1>2, <2>1, <2>8 DEF Throw, Go
  <2> QED
    BY <1>3, <2>2, <2>3, <2>4, <2>5, <2>6, <2>7, <2>8
\* With a new child, or none, there is no iterator, and no call waits for it to
\* be reset.
<1>4. ASSUME UNCHANGED <<pc, received>>, iter_obj' = None, out_queue' \in {None, <<>>}
      PROVE  OwnInv'
  <2>1. out_queue' # <<[type |-> "ResetOk"]>> /\ \A m \in NextAnswers : out_queue' # <<m>>
    BY <1>4, NotNone, Messages, SameMessage
  <2> QED
    BY <1>4, <2>1 DEF OwnInv, OwnIterator, OwnLabels
<1>5. CASE Open
  BY <1>4, <1>5 DEF Open, EnsureRunning, parent
<1>6. CASE Closed
  BY <1>4, <1>6 DEF Closed, Terminate
<1>7. CASE Close
  BY <1>1, <1>7 DEF Close, channel, remote
<1>8. CASE ChildGet
  BY <1>1, <1>8 DEF ChildGet, parent
<1>9. CASE UNCHANGED vars
  BY <1>1, <1>9 DEF vars, parent, channel, remote
<1> QED
  BY <1>3, <1>5, <1>6, <1>7, <1>8, <1>9, OwnStart, OwnPutReset, OwnGetReset, OwnGet,
     OwnChildReset, OwnChildPush, OwnChildFails DEF Next, CallStep

\* While calls do not overlap, a caller gets the labels of its own call, each once
\* and in order, whatever calls failed, timed out or were abandoned before.
THEOREM OwnLabelsWhenAlone == Spec /\ []Alone => []OwnLabelsInOrder
<1>1. Init => OwnInv
  <2> SUFFICES ASSUME Init, NEW c \in Call PROVE OwnIterator(c) /\ OwnLabels(c)
    BY DEF OwnInv
  <2>1. pc[c] = "new" /\ received[c] = <<>> /\ DOMAIN <<>> = {}
    BY DEF Init
  <2> QED
    BY <2>1 DEF OwnIterator, OwnLabels
<1>2. OwnInv => OwnLabelsInOrder
  BY DEF OwnInv, OwnLabels, OwnLabelsInOrder
<1> QED
  BY <1>1, <1>2, OwnStep, Invariance, PTL DEF Spec

\* The calls of one client do not overlap: it refuses the second of them.
THEOREM OwnLabelsOfOneClient == OneClient /\ Spec => []OwnLabelsInOrder
<1> SUFFICES ASSUME OneClient PROVE Spec => []OwnLabelsInOrder
  OBVIOUS
<1>1. IInv => Alone
  BY OneClientAlone
<1> QED
  BY <1>1, OwnLabelsWhenAlone, Invariance, PTL
=============================================================================
