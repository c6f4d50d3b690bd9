-------------------------- MODULE ExecutionProofs --------------------------
(***************************************************************************)
(* Theorems of Execution.tla, for any ids, generators and number of steps. *)
(***************************************************************************)
EXTENDS Execution, TLAPS

-----------------------------------------------------------------------------
(* The three updates the tables undergo.                                   *)

\* The tables of a new Execution are empty.
LEMMA EmptyTable ==
    ASSUME NEW S, NEW T
    PROVE  <<>> \in PartialFun(S, T) /\ DOMAIN <<>> = {}
<1>1. <<>> \in [{} -> T]
  OBVIOUS
<1>2. {} \in SUBSET S
  OBVIOUS
<1> QED
  BY <1>1, <1>2 DEF PartialFun

\* Adding an entry keeps a table a table.
LEMMA PutTable ==
    ASSUME NEW S, NEW T, NEW f \in PartialFun(S, T), NEW x \in S, NEW v \in T
    PROVE  Put(f, x, v) \in PartialFun(S, T)
<1>1. DOMAIN f \subseteq S /\ f \in [DOMAIN f -> T]
  BY DEF PartialFun
<1>2. Put(f, x, v) \in [DOMAIN f \cup {x} -> T]
  BY <1>1 DEF Put
<1> QED
  BY <1>1, <1>2 DEF PartialFun

\* So does removing one.
LEMMA DropTable ==
    ASSUME NEW S, NEW T, NEW f \in PartialFun(S, T), NEW x
    PROVE  Drop(f, x) \in PartialFun(S, T)
<1>1. DOMAIN f \subseteq S /\ f \in [DOMAIN f -> T]
  BY DEF PartialFun
<1>2. Drop(f, x) \in [DOMAIN f \ {x} -> T]
  BY <1>1 DEF Drop
<1> QED
  BY <1>1, <1>2 DEF PartialFun

\* So does moving one to another key.
LEMMA RenameTable ==
    ASSUME NEW S, NEW T, NEW f \in PartialFun(S, T),
           NEW a \in DOMAIN f, NEW b \in S
    PROVE  Rename(f, a, b) \in PartialFun(S, T)
<1>1. DOMAIN f \subseteq S /\ f \in [DOMAIN f -> T]
  BY DEF PartialFun
<1>2. Rename(f, a, b) \in [(DOMAIN f \ {a}) \cup {b} -> T]
  BY <1>1 DEF Rename
<1> QED
  BY <1>1, <1>2 DEF PartialFun

\* What is in a table has its type.
LEMMA TableValue ==
    ASSUME NEW S, NEW T, NEW f \in PartialFun(S, T), NEW x \in DOMAIN f
    PROVE  x \in S /\ f[x] \in T
BY DEF PartialFun

-----------------------------------------------------------------------------

\* While next runs, it runs a process: without it, nothing bounds the key under
\* which the tables are updated.
InNext == phase \in {"body", "step", "terminate"} => current \in PID /\ running \in Gen

\* A new Execution has its types, and is not in next.
LEMMA TypeInit == Init => TypeOK /\ InNext
<1> SUFFICES ASSUME Init PROVE TypeOK /\ InNext
  OBVIOUS
<1>1. /\ curr_processes \in PartialFun(PID, Gen)
      /\ states \in PartialFun(PID, Labels)
      /\ handle_terminate_process \in PartialFun(PID, Gen)
      /\ rtn \in PartialFun(PID, Gen)
  BY EmptyTable DEF Init
<1>2. curr_path \in Seq(PID) /\ mishaps \subseteq Mishaps
  BY DEF Init
<1>3. life \in [Gen -> Lives] /\ handler \in [Gen -> Handlers]
  BY DEF Init, Lives, Handlers
<1> QED
  BY <1>1, <1>2, <1>3 DEF Init, TypeOK, InNext

\* Types: the label a process yields is recorded.
LEMMA RecordType ==
    ASSUME TypeOK, InNext, phase = "body", NEW label \in Labels, Record(label)
    PROVE  /\ curr_path' \in Seq(PID)
           /\ states' \in PartialFun(PID, Labels)
<1>1. current \in PID
  BY DEF InNext
<1>2. Put(states, current, label) \in PartialFun(PID, Labels)
  BY <1>1, PutTable DEF TypeOK
<1> QED
  BY <1>1, <1>2 DEF TypeOK, Record

\* Types: a handler is overwritten, or none.
LEMMA OverwrittenType ==
    ASSUME TypeOK, NEW p \in PID
    PROVE  Overwritten(p) \in [Gen -> Handlers]
BY DEF TypeOK, Overwritten, Handlers

\* Types: a process ends.
LEMMA EndType ==
    ASSUME TypeOK, InNext, NEW label \in Labels, NEW fate \in Lives,
           End(label, fate)
    PROVE  TypeOK' /\ InNext'
<1> USE DEF TypeOK, InNext
<1>1. rtn' \in PartialFun(PID, Gen)
  BY PutTable DEF End
<1>2. life' \in [Gen -> Lives]
  BY DEF End
<1>3. Drop(curr_processes, current) \in PartialFun(PID, Gen)
  BY DropTable
<1>6. mishaps' \subseteq Mishaps
  BY DEF End, Noted, Mishaps
<1>4. CASE current \in available_processes
  BY <1>1, <1>2, <1>3, <1>4, <1>6, RecordType DEF End, Record
<1>5. CASE current \notin available_processes
  BY <1>1, <1>2, <1>5, <1>6 DEF End
<1> QED
  BY <1>4, <1>5

\* Types: next is left.
LEMMA LeaveType ==
    ASSUME TypeOK, Leave,
           UNCHANGED <<curr_processes, states, handle_terminate_process, rtn,
                       curr_path, driver, life, handler, mishaps>>
    PROVE  TypeOK' /\ InNext'
<1>1. teardowns' \in Nat
  BY DEF Leave, Finish, TypeOK
<1>2. ended' \in BOOLEAN
  BY DEF Leave
<1>3. current' \in PID \cup {None} /\ running' \in Gen \cup {None}
  BY DEF Leave
<1>4. phase' \in {"idle", "teardown"}
  BY DEF Leave, Finish
<1> QED
  BY <1>1, <1>2, <1>3, <1>4 DEF TypeOK, InNext

\* Every step keeps the types, and next its process.
LEMMA TypeStep == TypeOK /\ InNext /\ [Next]_vars => TypeOK' /\ InNext'
<1> SUFFICES ASSUME TypeOK, InNext, [Next]_vars PROVE TypeOK' /\ InNext'
  OBVIOUS
<1> USE DEF TypeOK, InNext
<1>1. ASSUME NEW p \in PID, NEW g \in Gen, Construct(p, g)
      PROVE  TypeOK' /\ InNext'
  <2>1. Put(curr_processes, p, g) \in PartialFun(PID, Gen)
    BY PutTable
  <2>2. life' \in [Gen -> Lives]
    BY <1>1 DEF Construct, Lives
  <2>3. /\ curr_processes' = Put(curr_processes, p, g)
        /\ UNCHANGED <<states, handle_terminate_process, rtn, handler, teardowns, mishaps>>
        /\ UNCHANGED <<curr_path, phase, current, running, ended, driver>>
    BY <1>1 DEF Construct, control
  <2> QED
    BY <2>1, <2>2, <2>3
<1>2. ASSUME NEW p \in PID, NEW g \in Gen, add_process(p, g)
      PROVE  TypeOK' /\ InNext'
  <2>1. /\ Put(curr_processes, p, g) \in PartialFun(PID, Gen)
        /\ Put(handle_terminate_process, p, g) \in PartialFun(PID, Gen)
    BY PutTable
  <2>2. Put(states, p, "Entry") \in PartialFun(PID, Labels)
    BY PutTable DEF Labels
  <2>3. CASE p \in available_processes
    BY <1>2, <2>3 DEF add_process, tables, history, Raise
  <2>4. CASE p \notin available_processes
    <3>1. handler' \in [Gen -> Handlers]
      BY <1>2, <2>4, OverwrittenType DEF add_process, Handlers
    <3>2. mishaps' \subseteq Mishaps
      BY <1>2, <2>4 DEF add_process, Mishaps
    <3> QED
      BY <1>2, <2>1, <2>2, <2>4, <3>1, <3>2 DEF add_process, Lives
  <2> QED
    BY <2>3, <2>4
<1>3. ASSUME NEW a \in PID, NEW b \in PID, rename_process(a, b)
      PROVE  TypeOK' /\ InNext'
  <2>1. /\ curr_processes' \in PartialFun(PID, Gen)
        /\ handle_terminate_process' \in PartialFun(PID, Gen)
        /\ states' \in PartialFun(PID, Labels)
    BY <1>3, RenameTable DEF rename_process, available_processes
  <2>2. phase' \in {phase, "crashed"} /\ mishaps' \subseteq Mishaps
    BY <1>3 DEF rename_process, Raise, Mishaps
  <2>3. handler' \in [Gen -> Handlers]
    BY <1>3, OverwrittenType DEF rename_process
  <2> QED
    BY <1>3, <2>1, <2>2, <2>3 DEF rename_process
<1>4. CASE Ready
  BY <1>4 DEF Ready, tables, history
<1>5. ASSUME NEW p \in PID, Resume(p) PROVE TypeOK' /\ InNext'
  <2>1. curr_processes[p] \in Gen
    BY <1>5, TableValue DEF Resume, available_processes
  <2> QED
    BY <1>5, <2>1 DEF Resume, tables, history
<1>6. ASSUME NEW p \in PID, ResumeUnavailable(p) PROVE TypeOK' /\ InNext'
  BY <1>6 DEF ResumeUnavailable, tables, history
<1>7. CASE Yield
  <2>1. curr_path' \in Seq(PID) /\ states' \in PartialFun(PID, Labels)
    BY <1>7, RecordType DEF Yield, Labels
  <2>2. mishaps' \subseteq Mishaps
    BY <1>7 DEF Yield, Noted, Mishaps
  <2> QED
    BY <1>7, <2>1, <2>2 DEF Yield, Record
<1>8. CASE End("Terminated", "returned")
  BY <1>8, EndType DEF Labels, Lives
<1>9. CASE End("raised", "raised")
  BY <1>9, EndType DEF Labels, Lives
<1>10. CASE Stepped
  <2>1. CASE ended /\ current \in DOMAIN handle_terminate_process
    <3>1. PopHandler \in PartialFun(PID, Gen)
      BY DropTable DEF PopHandler
    <3>2. handle_terminate_process[current] \in Gen
      BY <2>1, TableValue
    <3>3. handler' \in [Gen -> Handlers]
      BY <1>10, <2>1, <3>2 DEF Stepped, Handlers
    <3> QED
      BY <1>10, <2>1, <3>1, <3>3 DEF Stepped
  <2>2. CASE ~(ended /\ current \in DOMAIN handle_terminate_process)
    <3>1. Leave /\ UNCHANGED <<curr_processes, states, handle_terminate_process, rtn,
                               curr_path, driver, life, handler, mishaps>>
      BY <1>10, <2>2 DEF Stepped
    <3> QED
      BY <3>1, LeaveType
  <2> QED
    BY <2>1, <2>2
<1>11. CASE Handled
  <2>1. Leave /\ UNCHANGED <<curr_processes, states, handle_terminate_process, rtn,
                             curr_path, driver, life, handler, mishaps>>
    BY <1>11 DEF Handled, tables
  <2> QED
    BY <2>1, LeaveType
<1>12. CASE Stop
  BY <1>12 DEF Stop, tables, history
<1>13. ASSUME NEW p \in PID, Throw(p) PROVE TypeOK' /\ InNext'
  <2>1. Drop(curr_processes, p) \in PartialFun(PID, Gen)
    BY DropTable
  <2> QED
    BY <1>13, <2>1 DEF Throw, control, Lives
<1>14. ASSUME NEW p \in PID, ThrowFails(p) PROVE TypeOK' /\ InNext'
  BY <1>14 DEF ThrowFails, tables, history
<1>15. CASE Stopped
  BY <1>15 DEF Stopped, tables
<1>16. CASE Exhaust
  BY <1>16 DEF Exhaust, tables, history
<1>17. CASE RunEnds
  BY <1>17 DEF RunEnds, tables
<1>18. CASE UNCHANGED vars
  BY <1>18 DEF vars, tables, control, history
<1>19. CASE Escape
  BY <1>19 DEF Escape, tables, Lives
<1>20. CASE TornDown
  BY <1>20 DEF TornDown, tables, history
<1> QED
  BY <1>1, <1>2, <1>3, <1>4, <1>5, <1>6, <1>7, <1>8, <1>9, <1>10, <1>11, <1>12,
     <1>13, <1>14, <1>15, <1>16, <1>17, <1>18, <1>19, <1>20 DEF Next, Over

\* Every variable keeps its type: above all, the tables stay tables from process
\* ids to generators and labels through renames, re-used ids and endings.
THEOREM TypeCorrect == Spec => []TypeOK
BY TypeInit, TypeStep, PTL DEF Spec

-----------------------------------------------------------------------------
(* What every step does, whichever action it is.                           *)

\* How an Execution is driven never changes, and what user code has done is never
\* forgotten.
LEMMA Fixed == [Next]_vars => driver' = driver /\ mishaps \subseteq mishaps'
<1> DEFINE Goal == driver' = driver /\ mishaps \subseteq mishaps'
<1> SUFFICES ASSUME [Next]_vars PROVE Goal
  OBVIOUS
<1>1. ASSUME NEW p \in PID, NEW g \in Gen, Construct(p, g) \/ add_process(p, g)
      PROVE  Goal
  BY <1>1 DEF Construct, add_process, Raise, control, history
<1>2. ASSUME NEW a \in PID, NEW b \in PID, rename_process(a, b)
      PROVE  Goal
  BY <1>2 DEF rename_process, Raise, control
<1>3. CASE Ready \/ Escape \/ TornDown
  BY <1>3 DEF Ready, Escape, TornDown, history
<1>4. ASSUME NEW p \in PID,
             Resume(p) \/ ResumeUnavailable(p) \/ Throw(p) \/ ThrowFails(p)
      PROVE  Goal
  BY <1>4 DEF Resume, ResumeUnavailable, Throw, ThrowFails, control, history
<1>5. CASE Yield
  BY <1>5 DEF Yield, Record, Noted
<1>6. CASE End("Terminated", "returned") \/ End("raised", "raised")
  BY <1>6 DEF End, Record, Noted
<1>7. CASE Stepped \/ Handled
  BY <1>7 DEF Stepped, Handled, Leave
<1>8. CASE Stop \/ Stopped \/ Exhaust \/ RunEnds
  BY <1>8 DEF Stop, Stopped, Exhaust, RunEnds, history
<1>9. CASE UNCHANGED vars
  BY <1>9 DEF vars, control, history
<1> QED
  BY <1>1, <1>2, <1>3, <1>4, <1>5, <1>6, <1>7, <1>8, <1>9 DEF Next, Over

\* Next or user code is at work, or could be.
Running == phase \in {"setup", "idle", "body", "step", "terminate", "teardown"}

\* Which of the tables an action changes: the rest of Next leaves them alone.
Tabular ==
    \/ \E p \in PID, g \in Gen : Construct(p, g) \/ add_process(p, g)
    \/ \E a, b \in PID : rename_process(a, b)
    \/ End("Terminated", "returned")
    \/ End("raised", "raised")
    \/ Stepped
    \/ Escape
    \/ \E p \in PID : Throw(p)

\* The actions that leave the tables of processes and handlers alone change
\* only the phase.
LEMMA OtherActions ==
    ASSUME [Next]_vars, ~Tabular
    PROVE  /\ UNCHANGED <<curr_processes, handle_terminate_process, life, handler>>
           /\ \/ UNCHANGED <<phase, ended, current, running>>
              \/ /\ phase = "terminate" /\ phase' \in {"idle", "teardown"}
                 /\ ended' = FALSE
              \/ phase \in {"setup", "teardown"} /\ phase' = "idle" /\ ended' = ended
              \/ /\ phase = "idle" /\ phase' = "body" /\ ended' = ended
                 /\ current' \in DOMAIN curr_processes
                 /\ running' = curr_processes[current']
              \/ /\ phase = "body" /\ phase' = "step"
                 /\ UNCHANGED <<ended, current, running>>
              \/ phase' \in {"crashed", "stopping", "done"}
<1>1. CASE Ready \/ TornDown
  BY <1>1 DEF Ready, TornDown, tables, history
<1>2. ASSUME NEW p \in PID, Resume(p) \/ ResumeUnavailable(p) \/ ThrowFails(p)
      PROVE  /\ UNCHANGED <<curr_processes, handle_terminate_process, life, handler>>
             /\ \/ phase' = "crashed"
                \/ /\ phase = "idle" /\ phase' = "body" /\ ended' = ended
                   /\ current' \in DOMAIN curr_processes
                   /\ running' = curr_processes[current']
  BY <1>2 DEF Resume, ResumeUnavailable, ThrowFails, tables, history, available_processes
<1>3. CASE Yield
  BY <1>3 DEF Yield, Record
<1>4. CASE Handled
  BY <1>4 DEF Handled, Leave, Finish, tables
<1>5. CASE Stop \/ Stopped \/ Exhaust \/ RunEnds
  BY <1>5 DEF Stop, Stopped, Exhaust, RunEnds, tables, history
<1>6. CASE UNCHANGED vars
  BY <1>6 DEF vars, tables, control, history
<1> QED
  BY <1>1, <1>2, <1>3, <1>4, <1>5, <1>6 DEF Next, Tabular, Over

\* What renaming does to the two tables: nothing; a whole move; or, of a process
\* without a handler, half of one, after which only a body goes on.
LEMMA RenameCases ==
    ASSUME NEW a \in PID, NEW b \in PID, rename_process(a, b)
    PROVE  /\ UNCHANGED <<life, ended, current, running>>
           /\ phase' \in {phase, "crashed"} /\ InUserCode /\ phase # "setup"
           /\ \/ UNCHANGED <<curr_processes, handle_terminate_process, handler>>
              \/ /\ a \in DOMAIN curr_processes /\ b \notin DOMAIN curr_processes
                 /\ curr_processes' = Rename(curr_processes, a, b)
                 /\ \/ /\ a \in DOMAIN handle_terminate_process
                       /\ handle_terminate_process' = Rename(handle_terminate_process, a, b)
                       /\ handler' = Overwritten(b)
                    \/ /\ a \notin DOMAIN handle_terminate_process
                       /\ UNCHANGED <<handle_terminate_process, handler>>
                       /\ phase' = "body" \/ phase' = "crashed"
                       /\ phase' = "body" => phase = "body"
BY DEF rename_process, Raise, available_processes

-----------------------------------------------------------------------------
(* Handlers and the processes they belong to.                              *)

\* While handle_step runs, the one handler without a process is that of the
\* generator that has just ended.  What the phases outside next leave behind when
\* user code fails is of no interest.
OwnershipInv ==
    "astray" \notin mishaps =>
        /\ phase \in {"setup", "idle", "body", "teardown"} => ~ended
        /\ Running =>
              \A p \in DOMAIN handle_terminate_process :
                 \/ /\ p \in DOMAIN curr_processes
                    /\ handle_terminate_process[p] = curr_processes[p]
                 \/ /\ phase = "step" /\ ended /\ p = current
                    /\ p \notin DOMAIN curr_processes
                    /\ handle_terminate_process[p] = running

\* Every step keeps the handlers with the processes that set them.
LEMMA OwnershipStep ==
    TypeOK /\ InNext /\ OwnershipInv /\ [Next]_vars => OwnershipInv'
<1> SUFFICES ASSUME TypeOK, InNext, OwnershipInv, [Next]_vars,
                    "astray" \notin mishaps, "astray" \notin mishaps'
             PROVE  OwnershipInv'
  BY Fixed DEF OwnershipInv
<1> USE DEF OwnershipInv, Running
<1>1. ASSUME NEW p \in PID, NEW g \in Gen, Construct(p, g)
      PROVE  OwnershipInv'
  <2>1. p \notin DOMAIN handle_terminate_process
    BY <1>1 DEF Construct, available_processes
  <2>2. /\ UNCHANGED <<handle_terminate_process, phase, ended, current, running>>
        /\ curr_processes' = Put(curr_processes, p, g) /\ phase = "setup"
    BY <1>1 DEF Construct, control
  <2>3. /\ DOMAIN curr_processes' = DOMAIN curr_processes \cup {p}
        /\ curr_processes'[p] = g
        /\ \A y \in DOMAIN curr_processes \ {p} : curr_processes'[y] = curr_processes[y]
    BY <2>2 DEF Put
  <2> QED
    BY <2>1, <2>2, <2>3
<1>2. ASSUME NEW p \in PID, NEW g \in Gen, add_process(p, g)
      PROVE  OwnershipInv'
  <2>1. CASE p \in available_processes
    BY <1>2, <2>1 DEF add_process, Raise, tables
  <2>2. CASE p \notin available_processes
    <3>1. /\ curr_processes' = Put(curr_processes, p, g)
          /\ handle_terminate_process' = Put(handle_terminate_process, p, g)
          /\ UNCHANGED <<phase, ended, current, running>>
      BY <1>2, <2>2 DEF add_process
    <3>2. Running
      BY <1>2 DEF add_process, InUserCode
    <3>3. /\ DOMAIN curr_processes' = DOMAIN curr_processes \cup {p}
          /\ curr_processes'[p] = g
          /\ \A y \in DOMAIN curr_processes \ {p} : curr_processes'[y] = curr_processes[y]
      BY <3>1 DEF Put
    <3>4. /\ DOMAIN handle_terminate_process' = DOMAIN handle_terminate_process \cup {p}
          /\ handle_terminate_process'[p] = g
          /\ \A y \in DOMAIN handle_terminate_process \ {p} : handle_terminate_process'[y] = handle_terminate_process[y]
      BY <3>1 DEF Put
    <3> QED
      BY <3>1, <3>2, <3>3, <3>4
  <2> QED
    BY <2>1, <2>2
<1>3. ASSUME NEW a \in PID, NEW b \in PID, rename_process(a, b)
      PROVE  OwnershipInv'
  <2>1. UNCHANGED <<ended, current, running>> /\ phase' \in {phase, "crashed"} /\ Running
    BY <1>3, RenameCases DEF InUserCode
  <2>2. CASE UNCHANGED <<curr_processes, handle_terminate_process>>
    BY <2>1, <2>2
  <2>3. CASE /\ a \in DOMAIN handle_terminate_process
             /\ a \in DOMAIN curr_processes /\ b \notin DOMAIN curr_processes
             /\ curr_processes' = Rename(curr_processes, a, b)
             /\ handle_terminate_process' = Rename(handle_terminate_process, a, b)
    <3>1. /\ DOMAIN curr_processes' = (DOMAIN curr_processes \ {a}) \cup {b}
          /\ curr_processes'[b] = curr_processes[a]
          /\ \A y \in DOMAIN curr_processes \ {a, b} : curr_processes'[y] = curr_processes[y]
      BY <2>3 DEF Rename
    <3>2. /\ DOMAIN handle_terminate_process' = (DOMAIN handle_terminate_process \ {a}) \cup {b}
          /\ handle_terminate_process'[b] = handle_terminate_process[a]
          /\ \A y \in DOMAIN handle_terminate_process \ {a, b} : handle_terminate_process'[y] = handle_terminate_process[y]
      BY <2>3 DEF Rename
    <3> QED
      BY <2>1, <2>3, <3>1, <3>2
  <2>4. CASE /\ a \notin DOMAIN handle_terminate_process
             /\ a \in DOMAIN curr_processes /\ b \notin DOMAIN curr_processes
             /\ curr_processes' = Rename(curr_processes, a, b)
             /\ UNCHANGED handle_terminate_process
             /\ phase' = "body" => phase = "body"
             /\ phase' = "body" \/ phase' = "crashed"
    <3>1. CASE phase' = "crashed"
      BY <2>1, <3>1
    <3>2. CASE phase' = "body"
      <4>1. b \notin DOMAIN handle_terminate_process
        BY <2>4, <3>2
      <4>2. /\ DOMAIN curr_processes' = (DOMAIN curr_processes \ {a}) \cup {b}
            /\ curr_processes'[b] = curr_processes[a]
            /\ \A y \in DOMAIN curr_processes \ {a, b} : curr_processes'[y] = curr_processes[y]
        BY <2>4 DEF Rename
      <4> QED
        BY <2>1, <2>4, <3>2, <4>1, <4>2
    <3> QED
      BY <2>4, <3>1, <3>2
  <2> QED
    BY <1>3, <2>2, <2>3, <2>4, RenameCases
<1>4. ASSUME NEW label, NEW fate, End(label, fate)
      PROVE  OwnershipInv'
  <2>1. UNCHANGED <<handle_terminate_process, current, running>> /\ phase = "body"
    BY <1>4 DEF End
  <2>2. InPlace
    BY <1>4 DEF End, Noted
  <2>3. /\ curr_processes' = Drop(curr_processes, current)
        /\ phase' = "step" /\ ended' = TRUE
    BY <1>4, <2>2 DEF End, Record, InPlace
  <2>4. /\ DOMAIN curr_processes' = DOMAIN curr_processes \ {current}
        /\ \A y \in DOMAIN curr_processes \ {current} : curr_processes'[y] = curr_processes[y]
    BY <2>3 DEF Drop
  <2> QED
    BY <2>1, <2>2, <2>3, <2>4 DEF InPlace, available_processes
<1>5. CASE Stepped
  <2>1. CASE ended /\ current \in DOMAIN handle_terminate_process
    <3>1. /\ handle_terminate_process' = Drop(handle_terminate_process, current)
          /\ phase' = "terminate" /\ phase = "step"
          /\ UNCHANGED curr_processes
      BY <1>5, <2>1 DEF Stepped, PopHandler
    <3>2. /\ DOMAIN handle_terminate_process' = DOMAIN handle_terminate_process \ {current}
          /\ \A y \in DOMAIN handle_terminate_process \ {current} : handle_terminate_process'[y] = handle_terminate_process[y]
      BY <3>1 DEF Drop
    <3> QED
      BY <3>1, <3>2
  <2>2. CASE ~(ended /\ current \in DOMAIN handle_terminate_process)
    <3>1. /\ UNCHANGED <<handle_terminate_process, curr_processes>>
          /\ phase = "step" /\ ended' = FALSE /\ phase' # "step"
      BY <1>5, <2>2 DEF Stepped, Leave, Finish
    <3> QED
      BY <2>2, <3>1
  <2> QED
    BY <2>1, <2>2
<1>6. ASSUME NEW p \in PID, Throw(p) PROVE OwnershipInv'
  BY <1>6 DEF Throw, control
<1>7. CASE Escape
  BY <1>7 DEF Escape
<1>8. CASE ~Tabular
  <2>1. UNCHANGED <<curr_processes, handle_terminate_process>>
    BY <1>8, OtherActions
  <2>2. CASE UNCHANGED <<phase, ended, current, running>>
    BY <2>1, <2>2
  <2>3. CASE phase = "terminate" /\ phase' \in {"idle", "teardown"} /\ ended' = FALSE
    BY <2>1, <2>3
  <2>4. CASE /\ phase \in {"setup", "teardown", "idle"} /\ phase' \in {"idle", "body"}
             /\ ended' = ended
    BY <2>1, <2>4
  <2>5. CASE phase = "body" /\ phase' = "step" /\ UNCHANGED <<ended, current, running>>
    BY <2>1, <2>5
  <2>6. CASE phase' \in {"crashed", "stopping", "done"}
    BY <2>6
  <2> QED
    BY <1>8, <2>2, <2>3, <2>4, <2>5, <2>6, OtherActions
<1> QED
  BY <1>1, <1>2, <1>3, <1>4, <1>5, <1>6, <1>7, <1>8 DEF Tabular

\* The table of handlers and what became of each: what is in the table is filed, is
\* there once, and has not been forgotten; generators not added yet have none.
HandlersInv ==
    /\ \A g \in Gen : life[g] = "new" => handler[g] = "none"
    /\ \A p \in DOMAIN handle_terminate_process :
          handler[handle_terminate_process[p]] = "filed"
    /\ \A p, q \in DOMAIN handle_terminate_process :
          handle_terminate_process[p] = handle_terminate_process[q] => p = q
    /\ \A g \in Gen : handler[g] = "filed" =>
          \E p \in DOMAIN handle_terminate_process : handle_terminate_process[p] = g

\* No generator becomes new again.
LEMMA NeverNew ==
    ASSUME TypeOK, InNext, [Next]_vars, NEW g \in Gen, life'[g] = "new"
    PROVE  life[g] = "new"
<1> USE DEF TypeOK, InNext
<1>1. ASSUME NEW p \in PID, NEW h \in Gen, Construct(p, h) \/ add_process(p, h)
      PROVE  life[g] = "new"
  BY <1>1 DEF Construct, add_process, history
<1>2. ASSUME NEW label, NEW fate \in {"returned", "raised"}, End(label, fate)
      PROVE  life[g] = "new"
  BY <1>2 DEF End
<1>3. CASE Stepped \/ Escape
  BY <1>3 DEF Stepped, Escape
<1>4. ASSUME NEW p \in PID, Throw(p) PROVE life[g] = "new"
  BY <1>4 DEF Throw
<1>5. ASSUME NEW a \in PID, NEW b \in PID, rename_process(a, b) PROVE life[g] = "new"
  BY <1>5 DEF rename_process
<1>6. CASE ~Tabular
  BY <1>6, OtherActions
<1> QED
  BY <1>1, <1>2, <1>3, <1>4, <1>5, <1>6 DEF Tabular

\* Every step keeps the account of the handlers.
LEMMA HandlersStep ==
    TypeOK /\ InNext /\ HandlersInv /\ [Next]_vars => HandlersInv'
<1> SUFFICES ASSUME TypeOK, InNext, HandlersInv, [Next]_vars PROVE HandlersInv'
  OBVIOUS
<1> USE DEF HandlersInv
<1>0. /\ DOMAIN handle_terminate_process \subseteq PID
      /\ \A p \in DOMAIN handle_terminate_process : handle_terminate_process[p] \in Gen
      /\ handler \in [Gen -> Handlers]
      /\ life \in [Gen -> Lives]
  BY TableValue DEF TypeOK
<1>a. CASE UNCHANGED <<handle_terminate_process, handler>>
  BY <1>a, NeverNew
<1>1. ASSUME NEW p \in PID, NEW g \in Gen, Construct(p, g)
      PROVE  HandlersInv'
  BY <1>1, <1>a DEF Construct
<1>2. ASSUME NEW p \in PID, NEW g \in Gen, add_process(p, g)
      PROVE  HandlersInv'
  <2>1. CASE p \in available_processes
    BY <1>2, <1>a, <2>1 DEF add_process, tables, history
  <2>2. CASE p \notin available_processes
    <3>1. /\ handle_terminate_process' = Put(handle_terminate_process, p, g)
          /\ handler' = [Overwritten(p) EXCEPT ![g] = "filed"]
          /\ life[g] = "new" /\ life' = [life EXCEPT ![g] = "live"]
      BY <1>2, <2>2 DEF add_process
    <3>2. \A q \in DOMAIN handle_terminate_process : handle_terminate_process[q] # g
      BY <3>1
    <3>3. handler'[g] = "filed" /\ life'[g] = "live"
      BY <1>0, <3>1, OverwrittenType
    <3>4. \A h \in Gen : h # g => handler'[h] = Overwritten(p)[h] /\ life'[h] = life[h]
      BY <1>0, <3>1, OverwrittenType
    <3>5. \A h \in Gen : Overwritten(p)[h] # handler[h] =>
             /\ p \in DOMAIN handle_terminate_process
             /\ h = handle_terminate_process[p] /\ Overwritten(p)[h] = "overwritten"
      BY <1>0 DEF Overwritten
    <3>6. p \in DOMAIN handle_terminate_process =>
             Overwritten(p)[handle_terminate_process[p]] = "overwritten"
      BY <1>0 DEF Overwritten
    <3>7. \A h \in Gen : life[h] = "new" => handler[h] = "none"
      OBVIOUS
    <3>8. \A q \in DOMAIN handle_terminate_process \ {p} :
             handler'[handle_terminate_process[q]] = "filed"
      BY <1>0, <3>2, <3>4, <3>5
    <3>9. \A h \in Gen : life'[h] = "new" => handler'[h] = "none"
      BY <1>0, <3>3, <3>4, <3>5, <3>7
    <3>11. /\ DOMAIN handle_terminate_process' = DOMAIN handle_terminate_process \cup {p}
           /\ handle_terminate_process'[p] = g
           /\ \A y \in DOMAIN handle_terminate_process \ {p} : handle_terminate_process'[y] = handle_terminate_process[y]
      BY <3>1 DEF Put
    <3>10. \A h \in Gen : handler'[h] = "filed" =>
              \E q \in DOMAIN handle_terminate_process' : handle_terminate_process'[q] = h
      <4> SUFFICES ASSUME NEW h \in Gen, handler'[h] = "filed", h # g
                   PROVE  \E q \in DOMAIN handle_terminate_process' :
                             handle_terminate_process'[q] = h
        BY <3>11
      <4>1. handler[h] = "filed" /\ ~(p \in DOMAIN handle_terminate_process
                                      /\ h = handle_terminate_process[p])
        BY <3>4, <3>5, <3>6
      <4> QED
        BY <3>11, <4>1
    <3> QED
      BY <1>0, <3>2, <3>3, <3>8, <3>9, <3>10, <3>11
  <2> QED
    BY <2>1, <2>2
<1>3. ASSUME NEW a \in PID, NEW b \in PID, rename_process(a, b)
      PROVE  HandlersInv'
  <2>1. CASE /\ a \in DOMAIN handle_terminate_process
             /\ handle_terminate_process' = Rename(handle_terminate_process, a, b)
             /\ handler' = Overwritten(b) /\ a # b
    <3>1. \A h \in Gen : Overwritten(b)[h] # handler[h] =>
             /\ b \in DOMAIN handle_terminate_process
             /\ h = handle_terminate_process[b] /\ Overwritten(b)[h] = "overwritten"
      BY <1>0 DEF Overwritten
    <3>2. b \in DOMAIN handle_terminate_process =>
             Overwritten(b)[handle_terminate_process[b]] = "overwritten"
      BY <1>0 DEF Overwritten
    <3>3. UNCHANGED life
      BY <1>3, RenameCases
    <3>4. \A q \in DOMAIN handle_terminate_process \ {b} :
             handler'[handle_terminate_process[q]] = "filed"
      BY <1>0, <2>1, <3>1
    <3>7. /\ DOMAIN handle_terminate_process' = (DOMAIN handle_terminate_process \ {a}) \cup {b}
          /\ handle_terminate_process'[b] = handle_terminate_process[a]
          /\ \A y \in DOMAIN handle_terminate_process \ {a, b} : handle_terminate_process'[y] = handle_terminate_process[y]
      BY <2>1 DEF Rename
    <3>5. \A h \in Gen : handler'[h] = "filed" =>
              \E q \in DOMAIN handle_terminate_process' : handle_terminate_process'[q] = h
      <4> SUFFICES ASSUME NEW h \in Gen, handler'[h] = "filed"
                   PROVE  \E q \in DOMAIN handle_terminate_process' :
                             handle_terminate_process'[q] = h
        OBVIOUS
      <4>1. handler[h] = "filed" /\ ~(b \in DOMAIN handle_terminate_process
                                      /\ h = handle_terminate_process[b])
        BY <2>1, <3>1, <3>2
      <4>2. PICK q \in DOMAIN handle_terminate_process : handle_terminate_process[q] = h
        BY <4>1
      <4> QED
        BY <2>1, <3>7, <4>1, <4>2
    <3>6. \A h \in Gen : life'[h] = "new" => handler'[h] = "none"
      BY <1>0, <2>1, <3>1, <3>3
    <3> QED
      BY <1>0, <2>1, <3>4, <3>5, <3>6, <3>7
  <2> QED
    BY <1>3, <1>a, <2>1, RenameCases
<1>4. ASSUME NEW label, NEW fate, End(label, fate) PROVE HandlersInv'
  BY <1>4, <1>a DEF End
<1>5. CASE Stepped
  <2>1. CASE ended /\ current \in DOMAIN handle_terminate_process
    <3>1. /\ handle_terminate_process' = Drop(handle_terminate_process, current)
          /\ handler' = [handler EXCEPT ![handle_terminate_process[current]] = "called"]
          /\ UNCHANGED life
      BY <1>5, <2>1 DEF Stepped, PopHandler
    <3>2. /\ handler'[handle_terminate_process[current]] = "called"
          /\ \A h \in Gen : h # handle_terminate_process[current] => handler'[h] = handler[h]
      BY <1>0, <2>1, <3>1
    <3>3. /\ DOMAIN handle_terminate_process' = DOMAIN handle_terminate_process \ {current}
          /\ \A y \in DOMAIN handle_terminate_process \ {current} : handle_terminate_process'[y] = handle_terminate_process[y]
      BY <3>1 DEF Drop
    <3>4. \A p \in DOMAIN handle_terminate_process' :
             /\ p \in DOMAIN handle_terminate_process
             /\ handle_terminate_process'[p] = handle_terminate_process[p]
             /\ handle_terminate_process[p] # handle_terminate_process[current]
      BY <2>1, <3>3
    <3>5. \A g \in Gen : life'[g] = "new" => handler'[g] = "none"
      BY <1>0, <2>1, <3>1, <3>2
    <3>6. \A g \in Gen : handler'[g] = "filed" =>
             \E p \in DOMAIN handle_terminate_process' : handle_terminate_process'[p] = g
      BY <3>2, <3>3
    <3> QED
      BY <1>0, <3>2, <3>4, <3>5, <3>6
  <2>2. CASE ~(ended /\ current \in DOMAIN handle_terminate_process)
    BY <1>5, <1>a, <2>2 DEF Stepped
  <2> QED
    BY <2>1, <2>2
<1>6. CASE Escape \/ \E p \in PID : Throw(p)
  BY <1>6, <1>a DEF Throw, Escape, tables
<1>7. CASE ~Tabular
  BY <1>7, <1>a, OtherActions
<1> QED
  BY <1>1, <1>2, <1>3, <1>4, <1>5, <1>6, <1>7 DEF Tabular

\* Handlers stay with their generators, whatever is renamed, re-used, raised or
\* ended, and by whichever user code, and none is lost from the table
\* (abstract.py:50-92, 105-146).
THEOREM HandlerOwnershipAlways == Spec => []HandlerOwnership
<1>1. Init => OwnershipInv /\ HandlersInv
  BY EmptyTable DEF Init, OwnershipInv, HandlersInv
<1>2. OwnershipInv /\ HandlersInv => HandlerOwnership
  BY DEF OwnershipInv, HandlersInv, HandlerOwnership, Running, available_processes
<1> QED
  BY <1>1, <1>2, TypeInit, TypeStep, OwnershipStep, HandlersStep, PTL DEF Spec

-----------------------------------------------------------------------------
(* When handlers are called.                                               *)

\* The table holds live generators, each once.
ProcessesLive ==
    /\ \A p \in DOMAIN curr_processes : life[curr_processes[p]] = "live"
    /\ \A p, q \in DOMAIN curr_processes :
          curr_processes[p] = curr_processes[q] => p = q

\* While next works, what is in the table is alive, and what has ended is not in it.
FireInv ==
    "astray" \notin mishaps /\ Running =>
        /\ ProcessesLive
        /\ phase = "step" /\ ended => life[running] \in {"returned", "raised"}

\* A generator that was new is filed.
LEMMA LiveAdd ==
    ASSUME TypeOK, ProcessesLive, NEW p \in PID, NEW g \in Gen,
           p \notin DOMAIN curr_processes, life[g] = "new",
           life' = [life EXCEPT ![g] = "live"],
           curr_processes' = Put(curr_processes, p, g)
    PROVE  ProcessesLive' /\ \A h \in Gen : life[h] # "new" => life'[h] = life[h]
<1>0. /\ \A q \in DOMAIN curr_processes : curr_processes[q] \in Gen
      /\ life \in [Gen -> Lives]
  BY TableValue DEF TypeOK
<1>1. life'[g] = "live" /\ \A h \in Gen : h # g => life'[h] = life[h]
  BY <1>0
<1>2. /\ DOMAIN curr_processes' = DOMAIN curr_processes \cup {p}
      /\ curr_processes'[p] = g
      /\ \A q \in DOMAIN curr_processes : curr_processes'[q] = curr_processes[q]
  BY DEF Put
<1>3. \A q \in DOMAIN curr_processes : curr_processes[q] # g
  BY DEF ProcessesLive
<1> QED
  BY <1>0, <1>1, <1>2, <1>3 DEF ProcessesLive

\* Every step keeps the live generators in the table apart from the ended ones.
LEMMA FireStep ==
    TypeOK /\ InNext /\ OwnershipInv /\ FireInv /\ [Next]_vars => FireInv'
<1> SUFFICES ASSUME TypeOK, InNext, OwnershipInv, FireInv, [Next]_vars,
                    "astray" \notin mishaps, "astray" \notin mishaps', Running'
             PROVE  FireInv'
  BY Fixed DEF FireInv
<1>0. /\ DOMAIN curr_processes \subseteq PID
      /\ \A p \in DOMAIN curr_processes : curr_processes[p] \in Gen
      /\ life \in [Gen -> Lives]
  BY TableValue DEF TypeOK
<1>1. ASSUME NEW p \in PID, NEW g \in Gen, Construct(p, g)
      PROVE  FireInv'
  <2>1. /\ p \notin DOMAIN curr_processes /\ life[g] = "new" /\ phase = "setup"
        /\ life' = [life EXCEPT ![g] = "live"] /\ phase' = "setup"
        /\ curr_processes' = Put(curr_processes, p, g)
    BY <1>1 DEF Construct, control, available_processes
  <2>2. ProcessesLive'
    BY <2>1, LiveAdd DEF FireInv, Running
  <2> QED
    BY <2>1, <2>2 DEF FireInv
<1>2. ASSUME NEW p \in PID, NEW g \in Gen, add_process(p, g)
      PROVE  FireInv'
  <2>0. Running /\ (phase = "step" => running \in Gen)
    BY <1>2 DEF add_process, InUserCode, Running, InNext
  <2>1. CASE p \in available_processes
    <3>1. UNCHANGED <<curr_processes, life, running, ended>> /\ phase' \in {phase, "crashed"}
      BY <1>2, <2>1 DEF add_process, tables, history, Raise
    <3> QED
      BY <2>0, <3>1 DEF FireInv, ProcessesLive
  <2>2. CASE p \notin available_processes
    <3>1. /\ p \notin DOMAIN curr_processes /\ life[g] = "new"
          /\ life' = [life EXCEPT ![g] = "live"]
          /\ curr_processes' = Put(curr_processes, p, g)
          /\ UNCHANGED <<phase, running, ended>>
      BY <1>2, <2>2 DEF add_process, available_processes
    <3>2. ProcessesLive' /\ \A h \in Gen : life[h] # "new" => life'[h] = life[h]
      BY <2>0, <3>1, LiveAdd DEF FireInv
    <3> QED
      BY <2>0, <3>1, <3>2 DEF FireInv
  <2> QED
    BY <2>1, <2>2
<1>3. ASSUME NEW a \in PID, NEW b \in PID, rename_process(a, b)
      PROVE  FireInv'
  <2>1. /\ UNCHANGED <<life, ended, current, running>> /\ phase' \in {phase, "crashed"}
        /\ Running
    BY <1>3, RenameCases DEF InUserCode, Running
  <2>2. CASE UNCHANGED curr_processes
    BY <2>1, <2>2 DEF FireInv, ProcessesLive
  <2>3. CASE /\ a \in DOMAIN curr_processes /\ b \notin DOMAIN curr_processes
             /\ curr_processes' = Rename(curr_processes, a, b)
    <3>1. /\ DOMAIN curr_processes' = (DOMAIN curr_processes \ {a}) \cup {b}
          /\ curr_processes'[b] = curr_processes[a]
          /\ \A y \in DOMAIN curr_processes \ {a, b} : curr_processes'[y] = curr_processes[y]
      BY <2>3 DEF Rename
    <3>2. ProcessesLive'
      BY <2>1, <2>3, <3>1 DEF FireInv, ProcessesLive
    <3> QED
      BY <2>1, <3>2 DEF FireInv
  <2> QED
    BY <1>3, <2>2, <2>3, RenameCases
<1>4. ASSUME NEW label, NEW fate \in {"returned", "raised"}, End(label, fate)
      PROVE  FireInv'
  <2>1. InPlace /\ Running /\ running \in Gen
    BY <1>4 DEF End, Noted, Running, InNext
  <2>2. /\ curr_processes' = Drop(curr_processes, current)
        /\ life' = [life EXCEPT ![running] = fate]
        /\ UNCHANGED running
    BY <1>4, <2>1 DEF End, Record, InPlace
  <2>3. /\ DOMAIN curr_processes' = DOMAIN curr_processes \ {current}
        /\ \A y \in DOMAIN curr_processes \ {current} : curr_processes'[y] = curr_processes[y]
    BY <2>2 DEF Drop
  <2>4. life'[running] = fate /\ \A h \in Gen : h # running => life'[h] = life[h]
    BY <1>0, <2>1, <2>2
  <2>5. current \in DOMAIN curr_processes /\ curr_processes[current] = running
    BY <2>1 DEF InPlace, available_processes
  <2>6. ProcessesLive'
    BY <1>0, <2>1, <2>3, <2>4, <2>5 DEF FireInv, ProcessesLive
  <2> QED
    BY <2>2, <2>4, <2>6 DEF FireInv
<1>5. CASE Stepped
  <2>1. UNCHANGED <<curr_processes, life>> /\ phase = "step" /\ phase' # "step"
    BY <1>5 DEF Stepped, Leave, Finish
  <2> QED
    BY <2>1 DEF FireInv, ProcessesLive, Running
<1>6. CASE Escape \/ \E p \in PID : Throw(p)
  BY <1>6 DEF Escape, Throw, control, Running
<1>7. CASE ~Tabular
  <2>1. UNCHANGED <<curr_processes, life>>
    BY <1>7, OtherActions
  <2>2. CASE UNCHANGED <<phase, ended, running>>
    BY <2>1, <2>2 DEF FireInv, ProcessesLive, Running
  <2>3. CASE Running /\ phase' # "step"
    BY <2>1, <2>3 DEF FireInv, ProcessesLive
  <2>4. CASE phase = "body" /\ ended' = ended
    <3>1. ~ended
      BY <2>4 DEF OwnershipInv
    <3> QED
      BY <2>1, <2>4, <3>1 DEF FireInv, ProcessesLive, Running
  <2> QED
    BY <1>7, <2>2, <2>3, <2>4, OtherActions DEF Running
<1> QED
  BY <1>1, <1>2, <1>3, <1>4, <1>5, <1>6, <1>7 DEF Tabular

\* Only the end of handle_step calls a handler.
LEMMA CallSteps ==
    ASSUME TypeOK, InNext, HandlersInv, [Next]_vars, NEW g \in Gen, Calls(g)
    PROVE  /\ Stepped /\ ended /\ current \in DOMAIN handle_terminate_process
           /\ g = handle_terminate_process[current]
<1> USE DEF Calls
<1>0. handler \in [Gen -> Handlers]
  BY DEF TypeOK
<1>1. ASSUME NEW p \in PID, Overwritten(p)[g] = "called" PROVE handler[g] = "called"
  BY <1>0, <1>1, TableValue DEF Overwritten, TypeOK
<1>2. ASSUME NEW p \in PID, NEW h \in Gen, Construct(p, h) \/ add_process(p, h) PROVE FALSE
  <2>1. handler' = handler \/ handler' = [Overwritten(p) EXCEPT ![h] = "filed"]
    BY <1>2 DEF Construct, add_process, history
  <2> QED
    BY <1>1, <2>1, OverwrittenType
<1>3. ASSUME NEW a \in PID, NEW b \in PID, rename_process(a, b) PROVE FALSE
  BY <1>1, <1>3, RenameCases
<1>4. CASE Stepped
  <2>1. handle_terminate_process[current] \in Gen \/ current \notin DOMAIN handle_terminate_process
    BY TableValue DEF TypeOK
  <2> QED
    BY <1>0, <1>4, <2>1 DEF Stepped
<1>5. ASSUME NEW label, NEW fate, End(label, fate) PROVE FALSE
  BY <1>5 DEF End
<1>6. CASE Escape \/ \E p \in PID : Throw(p)
  BY <1>6 DEF Escape, Throw
<1>7. CASE ~Tabular
  BY <1>7, OtherActions
<1> QED
  BY <1>2, <1>3, <1>4, <1>5, <1>6, <1>7 DEF Tabular

\* A handler is called at most once, in the next in which its generator ends, or
\* in place of the one that its process has overwritten (abstract.py:135-141).
THEOREM HandlersFireOnceAlways == Spec => HandlersFireOnce
<1>1. Init => OwnershipInv /\ HandlersInv /\ FireInv
  BY EmptyTable DEF Init, OwnershipInv, HandlersInv, FireInv, ProcessesLive
<1>2. ASSUME TypeOK, InNext, OwnershipInv, HandlersInv, FireInv, [Next]_vars,
             NEW g \in Gen, Calls(g)
      PROVE  /\ handler[g] = "filed"
             /\ "astray" \notin mishaps =>
                   IF current \in available_processes
                   THEN g = curr_processes[current] /\ handler[running] # "filed"
                   ELSE g = running /\ life[g] \in {"returned", "raised"}
  <2>1. /\ phase = "step" /\ ended /\ current \in DOMAIN handle_terminate_process
        /\ g = handle_terminate_process[current] /\ running \in Gen
    BY <1>2, CallSteps DEF Stepped, InNext
  <2>2. handler[g] = "filed"
    BY <1>2, <2>1 DEF HandlersInv
  <2> SUFFICES ASSUME "astray" \notin mishaps
               PROVE  IF current \in available_processes
                      THEN g = curr_processes[current] /\ handler[running] # "filed"
                      ELSE g = running /\ life[g] \in {"returned", "raised"}
    BY <2>2
  <2>3. life[running] \in {"returned", "raised"} /\ ProcessesLive
    BY <1>2, <2>1 DEF FireInv, Running
  <2>4. CASE current \notin available_processes
    BY <1>2, <2>1, <2>3, <2>4 DEF OwnershipInv, Running, available_processes
  <2>5. CASE current \in available_processes
    <3>1. g = curr_processes[current]
      BY <1>2, <2>1, <2>5 DEF OwnershipInv, Running, available_processes
    <3>2. ASSUME handler[running] = "filed" PROVE FALSE
      <4>1. PICK p \in DOMAIN handle_terminate_process : handle_terminate_process[p] = running
        BY <1>2, <2>1, <3>2 DEF HandlersInv
      <4>2. p \in DOMAIN curr_processes /\ curr_processes[p] = running
        BY <1>2, <2>1, <2>5, <4>1 DEF OwnershipInv, Running, available_processes
      <4> QED
        BY <2>3, <4>2 DEF ProcessesLive
    <3> QED
      BY <2>5, <3>1, <3>2
  <2> QED
    BY <2>4, <2>5
<1>3. TypeOK /\ InNext /\ OwnershipInv /\ HandlersInv /\ FireInv /\ [Next]_vars =>
         [\A g \in Gen : Calls(g) =>
             /\ handler[g] = "filed"
             /\ "astray" \notin mishaps =>
                   IF current \in available_processes
                   THEN g = curr_processes[current] /\ handler[running] # "filed"
                   ELSE g = running /\ life[g] \in {"returned", "raised"}]_vars
  BY <1>2
<1> QED
  BY <1>1, <1>3, TypeInit, TypeStep, OwnershipStep, HandlersStep, FireStep, PTL
     DEF Spec, HandlersFireOnce

-----------------------------------------------------------------------------
(* What the labels tell.                                                   *)

Orderly == mishaps \cap {"astray", "half"} = {}

\* While next works, too, the labels tell the live processes from the ended ones;
\* and a live process with a handler has a label, which add_process gives to both.
LabelInv ==
    Orderly /\ Running =>
        /\ \A p \in DOMAIN states :
              states[p] \in {"Entry", "yielded"} <=> p \in DOMAIN curr_processes
        /\ \A p \in DOMAIN handle_terminate_process :
              p \in DOMAIN curr_processes => p \in DOMAIN states

\* What the actions that leave the table of labels alone do.
LEMMA SameLabels ==
    ASSUME LabelInv, Running, Orderly, UNCHANGED <<states, curr_processes>>,
           \A p \in DOMAIN handle_terminate_process' : p \in DOMAIN handle_terminate_process
    PROVE  LabelInv'
BY DEF LabelInv

\* User code renames a process.
LEMMA LabelRename ==
    ASSUME TypeOK, OwnershipInv, LabelInv, Orderly, Orderly', Running,
           NEW a \in PID, NEW b \in PID, rename_process(a, b)
    PROVE  LabelInv'
<1> DEFINE live == a \in available_processes
           taken == b \in available_processes
           unhandled == live /\ a \notin DOMAIN handle_terminate_process
           fails == taken \/ unhandled \/ a \notin DOMAIN states
<1>1. /\ curr_processes' = IF live /\ ~taken THEN Rename(curr_processes, a, b)
                           ELSE curr_processes
      /\ \/ UNCHANGED handle_terminate_process
         \/ /\ live /\ ~taken /\ ~unhandled
            /\ handle_terminate_process' = Rename(handle_terminate_process, a, b)
      /\ ~(live /\ ~taken /\ ~unhandled) => UNCHANGED handle_terminate_process
      /\ states' = IF fails THEN states ELSE Rename(states, a, b)
      /\ mishaps' = IF live /\ ~taken /\ fails THEN mishaps \cup {"half"} ELSE mishaps
      /\ live /\ ~taken /\ ~unhandled =>
            handle_terminate_process' = Rename(handle_terminate_process, a, b)
  BY DEF rename_process
<1>2. live /\ ~taken => ~fails
  BY <1>1 DEF Orderly
<1> HIDE DEF unhandled, fails
<1>4. CASE live /\ ~taken
  <2>0. a \in DOMAIN states /\ a \in DOMAIN handle_terminate_process
    BY <1>2, <1>4 DEF fails, unhandled
  <2>1. /\ curr_processes' = Rename(curr_processes, a, b)
        /\ handle_terminate_process' = Rename(handle_terminate_process, a, b)
        /\ states' = Rename(states, a, b)
    BY <1>1, <1>2, <1>4, <2>0 DEF unhandled
  <2>2. /\ DOMAIN curr_processes' = (DOMAIN curr_processes \ {a}) \cup {b}
        /\ DOMAIN handle_terminate_process' = (DOMAIN handle_terminate_process \ {a}) \cup {b}
        /\ DOMAIN states' = (DOMAIN states \ {a}) \cup {b}
        /\ states'[b] = states[a]
        /\ \A y \in DOMAIN states \ {a, b} : states'[y] = states[y]
    BY <2>1 DEF Rename
  <2>3. states[a] \in {"Entry", "yielded"}
    BY <1>4, <2>0 DEF LabelInv, available_processes
  <2> QED
    BY <2>2, <2>3 DEF LabelInv
<1>5. CASE ~live /\ ~taken /\ a \in DOMAIN states
  <2>1. /\ UNCHANGED <<curr_processes, handle_terminate_process>>
        /\ states' = Rename(states, a, b)
    BY <1>1, <1>5 DEF fails, unhandled
  <2>2. /\ DOMAIN states' = (DOMAIN states \ {a}) \cup {b}
        /\ states'[b] = states[a]
        /\ \A y \in DOMAIN states \ {a, b} : states'[y] = states[y]
    BY <2>1 DEF Rename
  <2>3. /\ states[a] \notin {"Entry", "yielded"} /\ b \notin DOMAIN curr_processes
        /\ a \notin DOMAIN curr_processes
    BY <1>5 DEF LabelInv, available_processes
  <2> QED
    BY <2>1, <2>2, <2>3 DEF LabelInv
<1>6. CASE taken \/ (~live /\ a \notin DOMAIN states)
  <2>1. UNCHANGED <<states, curr_processes, handle_terminate_process>>
    BY <1>1, <1>6 DEF fails, unhandled
  <2> QED
    BY <2>1, SameLabels
<1> QED
  BY <1>4, <1>5, <1>6

\* Every step.
LEMMA LabelStep ==
    TypeOK /\ InNext /\ OwnershipInv /\ LabelInv /\ [Next]_vars => LabelInv'
<1> SUFFICES ASSUME TypeOK, InNext, OwnershipInv, LabelInv, [Next]_vars,
                    Orderly, Orderly', Running'
             PROVE  LabelInv'
  BY Fixed DEF LabelInv, Orderly
<1>0. Running => /\ \A p \in DOMAIN states :
                       states[p] \in {"Entry", "yielded"} <=> p \in DOMAIN curr_processes
                 /\ \A p \in DOMAIN handle_terminate_process :
                       p \in DOMAIN curr_processes => p \in DOMAIN states
  BY DEF LabelInv
<1>1. ASSUME NEW p \in PID, NEW g \in Gen, Construct(p, g) PROVE LabelInv'
  <2>1. /\ states = <<>> /\ UNCHANGED <<states, handle_terminate_process>> /\ Running
    BY <1>1 DEF Construct, Running
  <2>2. phase = "setup" /\ "astray" \notin mishaps
    BY <1>1 DEF Construct, Orderly
  <2>3. \A q \in DOMAIN handle_terminate_process : q \in DOMAIN curr_processes
    BY <2>1, <2>2 DEF OwnershipInv
  <2>4. DOMAIN states' = {} /\ DOMAIN handle_terminate_process' = {}
    BY <1>0, <2>1, <2>3, EmptyTable
  <2> QED
    BY <2>4 DEF LabelInv
<1>2. ASSUME NEW p \in PID, NEW g \in Gen, add_process(p, g) PROVE LabelInv'
  <2>1. Running
    BY <1>2 DEF add_process, InUserCode, Running
  <2>2. CASE p \in available_processes
    BY <1>2, <2>1, <2>2, SameLabels DEF add_process, tables, history
  <2>3. CASE p \notin available_processes
    <3>1. /\ curr_processes' = Put(curr_processes, p, g)
          /\ states' = Put(states, p, "Entry")
          /\ handle_terminate_process' = Put(handle_terminate_process, p, g)
      BY <1>2, <2>3 DEF add_process
    <3>2. /\ DOMAIN curr_processes' = DOMAIN curr_processes \cup {p}
          /\ DOMAIN handle_terminate_process' = DOMAIN handle_terminate_process \cup {p}
          /\ DOMAIN states' = DOMAIN states \cup {p}
          /\ states'[p] = "Entry"
          /\ \A y \in DOMAIN states \ {p} : states'[y] = states[y]
      BY <3>1 DEF Put
    <3> QED
      BY <1>0, <2>1, <3>2 DEF LabelInv
  <2> QED
    BY <2>2, <2>3
<1>3. ASSUME NEW a \in PID, NEW b \in PID, rename_process(a, b) PROVE LabelInv'
  BY <1>3, LabelRename DEF rename_process, InUserCode, Running
<1>4. CASE Yield
  <2>0. InPlace
    BY <1>4 DEF Yield, Noted, Orderly
  <2>1. /\ Running /\ current \in DOMAIN curr_processes
        /\ states' = Put(states, current, "yielded")
        /\ UNCHANGED <<curr_processes, handle_terminate_process>>
    BY <1>4, <2>0 DEF Yield, Record, Running, InPlace, available_processes
  <2>2. /\ DOMAIN states' = DOMAIN states \cup {current}
        /\ states'[current] = "yielded"
        /\ \A y \in DOMAIN states \ {current} : states'[y] = states[y]
    BY <2>1 DEF Put
  <2> QED
    BY <1>0, <2>1, <2>2 DEF LabelInv
<1>5. ASSUME NEW label \in {"Terminated", "raised"}, NEW fate, End(label, fate)
      PROVE  LabelInv'
  <2>0. InPlace
    BY <1>5 DEF End, Noted, Orderly
  <2>1. /\ Running /\ current \in DOMAIN curr_processes
        /\ states' = Put(states, current, label)
        /\ curr_processes' = Drop(curr_processes, current)
        /\ UNCHANGED handle_terminate_process
    BY <1>5, <2>0 DEF End, Record, Running, InPlace, available_processes
  <2>2. /\ DOMAIN states' = DOMAIN states \cup {current}
        /\ states'[current] = label
        /\ \A y \in DOMAIN states \ {current} : states'[y] = states[y]
        /\ DOMAIN curr_processes' = DOMAIN curr_processes \ {current}
    BY <2>1 DEF Put, Drop
  <2> QED
    BY <1>0, <2>1, <2>2 DEF LabelInv
<1>6. CASE Stepped
  <2>1. UNCHANGED <<states, curr_processes>> /\ Running
    BY <1>6 DEF Stepped, Running
  <2>2. handle_terminate_process' \in {handle_terminate_process, PopHandler}
    BY <1>6 DEF Stepped
  <2>3. DOMAIN handle_terminate_process' \subseteq DOMAIN handle_terminate_process
    BY <2>2 DEF PopHandler, Drop
  <2> QED
    BY <2>1, <2>3, SameLabels
<1>7. CASE Ready \/ (\E p \in PID : Resume(p)) \/ Handled \/ TornDown \/ UNCHANGED vars
  <2>1. UNCHANGED <<states, curr_processes, handle_terminate_process>>
    BY <1>7 DEF Ready, Resume, Handled, TornDown, tables, vars
  <2>2. Running
    BY <1>7 DEF Ready, Resume, Handled, TornDown, Running, vars, control
  <2> QED
    BY <2>1, <2>2, SameLabels
<1>8. CASE Stop \/ Escape \/ Stopped \/ Exhaust \/ RunEnds \/
           \E p \in PID : ResumeUnavailable(p) \/ Throw(p) \/ ThrowFails(p)
  <2>1. phase' \in {"crashed", "stopping", "done"}
    BY <1>8 DEF Stop, Escape, Stopped, Exhaust, RunEnds, ResumeUnavailable, Throw, ThrowFails, control
  <2> QED
    BY <2>1 DEF Running
<1> QED
  BY <1>1, <1>2, <1>3, <1>4, <1>5, <1>6, <1>7, <1>8 DEF Next, Over

\* Between steps a process is labelled as ended, or not, as it is, unless a body has
\* renamed its own process or gone on after a rename that failed half-way
\* (abstract.py:61-98, 105-146).
THEOREM LabelsTellLivenessAlways == Spec => []LabelsTellLiveness
<1>1. Init => OwnershipInv /\ LabelInv
  BY EmptyTable DEF Init, OwnershipInv, LabelInv
<1>2. LabelInv => LabelsTellLiveness
  BY DEF LabelInv, Running, Orderly, LabelsTellLiveness, available_processes
<1> QED
  BY <1>1, <1>2, TypeInit, TypeStep, OwnershipStep, LabelStep, PTL DEF Spec

-----------------------------------------------------------------------------
(* The end of an Execution.                                                *)

\* No live generator is missing from the table: what next and stop take out of it
\* has ended, and nothing overwrites an entry.
LiveInTable ==
    "astray" \notin mishaps => \A g \in Gen : life[g] = "live" =>
        \E p \in DOMAIN curr_processes : curr_processes[p] = g

\* handle_terminate has been called only where no process is left, and has been
\* called wherever a run of at least one step has come to that.
TearInv ==
    driver.by = "visitor" /\ "revive" \notin mishaps =>
        /\ teardowns <= 1
        /\ phase = "setup" => curr_path = <<>>
        /\ teardowns > 0 => /\ phase \in {"teardown", "idle", "done", "crashed"}
                            /\ DOMAIN curr_processes = {}
        /\ phase = "teardown" => teardowns = 1
        /\ phase = "idle" /\ DOMAIN curr_processes = {} /\ curr_path # <<>> => teardowns = 1
        /\ phase = "done" /\ curr_path # <<>> => teardowns = 1

\* A new generator is filed under an id that was free.
LEMMA LivePut ==
    ASSUME TypeOK, LiveInTable, "astray" \notin mishaps, NEW g \in Gen, NEW p,
           p \notin DOMAIN curr_processes,
           curr_processes' = Put(curr_processes, p, g),
           life' = [life EXCEPT ![g] = "live"]
    PROVE  LiveInTable'
<1>1. /\ DOMAIN curr_processes' = DOMAIN curr_processes \cup {p}
      /\ curr_processes'[p] = g
      /\ \A y \in DOMAIN curr_processes : curr_processes'[y] = curr_processes[y]
  BY DEF Put
<1>2. \A h \in Gen : h # g => life'[h] = life[h]
  BY DEF TypeOK
<1> QED
  BY <1>1, <1>2 DEF LiveInTable

\* A generator that has ended leaves the table.
LEMMA LiveDrop ==
    ASSUME TypeOK, LiveInTable, "astray" \notin mishaps, NEW p \in DOMAIN curr_processes,
           NEW fate \in Lives \ {"live"},
           curr_processes' = Drop(curr_processes, p),
           life' = [life EXCEPT ![curr_processes[p]] = fate]
    PROVE  LiveInTable'
<1>1. /\ DOMAIN curr_processes' = DOMAIN curr_processes \ {p}
      /\ \A y \in DOMAIN curr_processes \ {p} : curr_processes'[y] = curr_processes[y]
  BY DEF Drop
<1>2. curr_processes[p] \in Gen
  BY TableValue DEF TypeOK
<1>3. life'[curr_processes[p]] # "live" /\ \A h \in Gen : h # curr_processes[p] => life'[h] = life[h]
  BY <1>2 DEF TypeOK
<1> QED
  BY <1>1, <1>3 DEF LiveInTable

\* Every step keeps the live generators in the table.
LEMMA LiveStep ==
    TypeOK /\ InNext /\ LiveInTable /\ [Next]_vars => LiveInTable'
<1> SUFFICES ASSUME TypeOK, InNext, LiveInTable, [Next]_vars,
                    "astray" \notin mishaps, "astray" \notin mishaps'
             PROVE  LiveInTable'
  BY Fixed DEF LiveInTable
<1>1. ASSUME NEW p \in PID, NEW g \in Gen, Construct(p, g) PROVE LiveInTable'
  BY <1>1, LivePut DEF Construct, available_processes
<1>2. ASSUME NEW p \in PID, NEW g \in Gen, add_process(p, g) PROVE LiveInTable'
  <2>1. CASE p \in available_processes
    BY <1>2, <2>1 DEF add_process, tables, history, LiveInTable
  <2>2. CASE p \notin available_processes
    BY <1>2, <2>2, LivePut DEF add_process, available_processes
  <2> QED
    BY <2>1, <2>2
<1>3. ASSUME NEW a \in PID, NEW b \in PID, rename_process(a, b) PROVE LiveInTable'
  <2>1. life' = life
    BY <1>3 DEF rename_process
  <2>2. CASE curr_processes' = curr_processes
    BY <2>1, <2>2 DEF LiveInTable
  <2>3. CASE /\ a \in DOMAIN curr_processes /\ b \notin DOMAIN curr_processes
             /\ curr_processes' = Rename(curr_processes, a, b)
    <3>1. /\ DOMAIN curr_processes' = (DOMAIN curr_processes \ {a}) \cup {b}
          /\ curr_processes'[b] = curr_processes[a]
          /\ \A y \in DOMAIN curr_processes \ {a} : curr_processes'[y] = curr_processes[y]
      BY <2>3 DEF Rename
    <3> QED
      BY <2>1, <3>1 DEF LiveInTable
  <2> QED
    BY <1>3, <2>2, <2>3 DEF rename_process, available_processes
<1>4. ASSUME NEW label, NEW fate \in {"returned", "raised"}, End(label, fate)
      PROVE  LiveInTable'
  <2>1. current \in DOMAIN curr_processes /\ running = curr_processes[current]
    BY <1>4 DEF End, Noted, InPlace, available_processes
  <2>2. /\ curr_processes' = Drop(curr_processes, current)
        /\ life' = [life EXCEPT ![curr_processes[current]] = fate]
    BY <1>4, <2>1 DEF End, available_processes
  <2>3. fate \in Lives \ {"live"}
    BY DEF Lives
  <2> QED
    BY <2>1, <2>2, <2>3, LiveDrop
<1>5. ASSUME NEW p \in PID, Throw(p) PROVE LiveInTable'
  <2>1. "stopped" \in Lives \ {"live"}
    BY DEF Lives
  <2> QED
    BY <1>5, <2>1, LiveDrop DEF Throw, available_processes
<1>6. CASE Stepped
  BY <1>6 DEF Stepped, LiveInTable
<1>7. CASE ~Tabular
  BY <1>7, OtherActions DEF LiveInTable
<1>8. CASE Escape
  <2>1. \A g \in Gen : life'[g] = "live" => life[g] = "live"
    BY <1>8 DEF Escape, TypeOK
  <2> QED
    BY <1>8, <2>1 DEF Escape, tables, LiveInTable
<1> QED
  BY <1>1, <1>2, <1>3, <1>4, <1>5, <1>6, <1>7, <1>8 DEF Tabular

\* Leaving next tears down exactly when no process is left.
LEMMA TearLeave ==
    ASSUME TypeOK, TearInv, driver.by = "visitor", "revive" \notin mishaps, phase \in {"step", "terminate"}, Leave,
           UNCHANGED <<curr_processes, driver, curr_path>>
    PROVE  TearInv'
<1>1. teardowns = 0
  BY DEF TearInv, TypeOK
<1> QED
  BY <1>1 DEF Leave, Finish, TearInv, available_processes

\* Every step keeps the count of teardowns.
LEMMA TearStep == TypeOK /\ TearInv /\ [Next]_vars => TearInv'
<1> SUFFICES ASSUME TypeOK, TearInv, [Next]_vars, driver.by = "visitor",
                    "revive" \notin mishaps, "revive" \notin mishaps'
             PROVE  TearInv'
  BY Fixed DEF TearInv
<1>0. /\ teardowns \in Nat
      /\ phase \notin {"teardown", "idle", "done", "crashed"} \/ DOMAIN curr_processes # {} => teardowns = 0
  BY DEF TearInv, TypeOK
<1>1. ASSUME NEW p \in PID, NEW g \in Gen, Construct(p, g) PROVE TearInv'
  BY <1>0, <1>1 DEF Construct, control, TearInv
<1>2. ASSUME NEW p \in PID, NEW g \in Gen, add_process(p, g) PROVE TearInv'
  <2>1. /\ phase' \in {phase, "crashed"} /\ UNCHANGED <<curr_path, teardowns>>
        /\ phase \in {"setup", "body", "step", "terminate", "teardown"}
    BY <1>2 DEF add_process, Raise, history, InUserCode
  <2>2. phase = "teardown" => UNCHANGED curr_processes
    BY <1>2 DEF add_process, tables
  <2> QED
    BY <1>0, <2>1, <2>2 DEF TearInv
<1>3. ASSUME NEW a \in PID, NEW b \in PID, rename_process(a, b) PROVE TearInv'
  <2>1. /\ phase' \in {phase, "crashed"} /\ UNCHANGED <<curr_path, teardowns>>
        /\ phase \in {"body", "step", "terminate", "teardown"}
    BY <1>3 DEF rename_process, Raise, InUserCode
  <2>2. DOMAIN curr_processes = {} => UNCHANGED curr_processes
    BY <1>3, RenameCases
  <2> QED
    BY <1>0, <2>1, <2>2 DEF TearInv
<1>4. CASE Ready
  BY <1>0, <1>4 DEF Ready, tables, history, TearInv
<1>5. ASSUME NEW p \in PID, Resume(p) PROVE TearInv'
  BY <1>0, <1>5 DEF Resume, tables, history, available_processes, TearInv
<1>6. CASE Yield
  BY <1>0, <1>6 DEF Yield, Record, TearInv
<1>7. ASSUME NEW label, NEW fate, End(label, fate) PROVE TearInv'
  <2>1. phase = "body" /\ teardowns' = teardowns /\ phase' \in {"step", "crashed"}
    BY <1>7 DEF End, Record
  <2> QED
    BY <1>0, <2>1 DEF TearInv
<1>8. CASE Stepped
  <2>1. CASE ended /\ current \in DOMAIN handle_terminate_process
    BY <1>0, <1>8, <2>1 DEF Stepped, TearInv
  <2>2. CASE ~(ended /\ current \in DOMAIN handle_terminate_process)
    BY <1>8, <2>2, TearLeave DEF Stepped
  <2> QED
    BY <2>1, <2>2
<1>9. CASE Handled
  BY <1>9, TearLeave DEF Handled, tables
<1>10. CASE Stop
  BY <1>0, <1>10 DEF Stop, tables, history, available_processes, TearInv
<1>11. ASSUME NEW p \in PID, Throw(p) \/ ThrowFails(p) PROVE TearInv'
  BY <1>0, <1>11 DEF Throw, ThrowFails, control, history, TearInv
<1>12. CASE Stopped
  BY <1>0, <1>12 DEF Stopped, tables, available_processes, TearInv
<1>13. CASE Exhaust
  BY <1>0, <1>13 DEF Exhaust, tables, history, available_processes, TearInv
<1>14. CASE UNCHANGED vars
  BY <1>14 DEF vars, tables, control, history, TearInv
<1>15. CASE Escape
  BY <1>0, <1>15 DEF Escape, tables, InUserCode, TearInv
<1>16. CASE TornDown
  BY <1>0, <1>16 DEF TornDown, tables, history, TearInv
<1> QED
  BY <1>1, <1>2, <1>3, <1>4, <1>5, <1>6, <1>7, <1>8, <1>9, <1>10, <1>11, <1>12, <1>13, <1>14,
     <1>15, <1>16 DEF Next, Over, ResumeUnavailable, RunEnds

\* An Execution of a Visitor calls handle_terminate exactly once, and never while a
\* generator is alive, unless handle_terminate adds a process, or a body renames its
\* own (abstract.py:143-157, 376-377).
THEOREM TornDownOnceAlways == Spec => []TornDownOnce
<1>1. Init => LiveInTable /\ TearInv
  BY EmptyTable DEF Init, LiveInTable, TearInv
<1>2. LiveInTable /\ TearInv => TornDownOnce
  BY DEF LiveInTable, TearInv, TornDownOnce
<1> QED
  BY <1>1, <1>2, TypeInit, TypeStep, LiveStep, TearStep, PTL DEF Spec

=============================================================================
