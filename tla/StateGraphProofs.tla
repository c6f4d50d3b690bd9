-------------------------- MODULE StateGraphProofs --------------------------
(***************************************************************************)
(* What the abstract specification guarantees, for every program.          *)
(***************************************************************************)
EXTENDS StateGraph, ProgramLemmas

\* Every variable keeps its type.
LEMMA TypeCorrect == Spec => []TypeOK
<1>1. Init => TypeOK
  BY DEF Init, TypeOK
<1>2. TypeOK /\ [Next]_vars => TypeOK'
  <2> SUFFICES ASSUME TypeOK, [Next]_vars PROVE TypeOK'
    OBVIOUS
  <2>1. CASE Restart
    BY <2>1 DEF Restart, TypeOK, Program
  <2>2. ASSUME NEW p \in Proc, Walk(p) PROVE TypeOK'
    <3>1. at \in Conf /\ at' \in Conf
      BY <2>2 DEF Walk, TypeOK, Program
    <3> QED
      BY <3>1, <2>2 DEF Walk, TypeOK, Program
  <2>3. CASE Leave
    BY <2>3 DEF Leave, TypeOK
  <2>4. CASE Finish
    BY <2>4 DEF Finish, TypeOK
  <2>5. CASE UNCHANGED vars
    BY <2>5 DEF vars, TypeOK
  <2> QED
    BY <2>1, <2>2, <2>3, <2>4, <2>5 DEF Next
<1> QED
  BY <1>1, <1>2, PTL DEF Spec

\* The live instance is always somewhere the program can be, so that what it
\* does next is one of the program's edges.
SoundInv ==
    /\ at # NoConf => at \in Reachable(prog)
    /\ Sound

\* Every recorded edge is a step the program can take.
THEOREM SoundAlways == Spec => []Sound
<1>1. Init => SoundInv
  BY DEF Init, SoundInv, Sound
<1>2. TypeOK /\ SoundInv /\ [Next]_vars => SoundInv'
  <2> SUFFICES ASSUME TypeOK, SoundInv, [Next]_vars PROVE SoundInv'
    OBVIOUS
  <2>1. CASE Restart
    <3>1. at' \in Reachable(prog)
      BY <2>1, InitReachable DEF Restart, TypeOK
    <3> QED
      BY <2>1, <3>1 DEF Restart, SoundInv, Sound
  <2>2. ASSUME NEW p \in Proc, Walk(p) PROVE SoundInv'
    <3>1. at \in Reachable(prog)
      BY <2>2 DEF Walk, SoundInv
    <3>2. /\ at' \in Reachable(prog)
          /\ <<prog.view[at], p, prog.view[at']>> \in Edges(prog)
      BY <2>2, <3>1, StepReachable, StepIsEdge DEF Walk, TypeOK
    <3> QED
      BY <2>2, <3>2 DEF Walk, SoundInv, Sound
  <2>3. CASE Leave
    BY <2>3 DEF Leave, SoundInv, Sound
  <2>4. CASE Finish
    BY <2>4 DEF Finish, SoundInv, Sound
  <2>5. CASE UNCHANGED vars
    BY <2>5 DEF vars, SoundInv, Sound
  <2> QED
    BY <2>1, <2>2, <2>3, <2>4, <2>5 DEF Next
<1> QED
  BY <1>1, <1>2, TypeCorrect, PTL DEF Spec, SoundInv

=============================================================================
