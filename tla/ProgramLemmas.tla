---------------------------- MODULE ProgramLemmas ----------------------------
(***************************************************************************)
(* Facts about programs and their state graphs.                            *)
(***************************************************************************)
EXTENDS Program, TLAPS

\* What a run may start from and lead to is reachable, by definition of the
\* smallest closed set.
LEMMA InitReachable ==
    ASSUME NEW P \in Program, NEW c \in P.init
    PROVE  c \in Reachable(P)
BY DEF Program, Reachable, ClosedUnderSteps

\* A step of a reachable configuration leads to a reachable one.
LEMMA StepReachable ==
    ASSUME NEW P \in Program, NEW c \in Reachable(P), NEW p \in Proc,
           NEW d \in P.step[c][p]
    PROVE  d \in Reachable(P) /\ <<c, p, d>> \in Steps(P)
<1>1. c \in Conf
  BY DEF Reachable
<1>2. d \in Conf
  BY <1>1 DEF Program
<1>3. ASSUME NEW S \in SUBSET Conf, ClosedUnderSteps(P, S)
      PROVE  d \in S
  BY <1>1, <1>3 DEF Reachable, ClosedUnderSteps
<1> QED
  BY <1>2, <1>3 DEF Reachable, Steps

\* What the labels show of a reachable step is an edge of the state graph.
LEMMA StepIsEdge ==
    ASSUME NEW P \in Program, NEW c \in Reachable(P), NEW p \in Proc,
           NEW d \in P.step[c][p]
    PROVE  <<P.view[c], p, P.view[d]>> \in Edges(P)
<1> DEFINE e == <<c, p, d>>
<1>1. e \in Steps(P)
  BY StepReachable
<1>2. <<P.view[e[1]], e[2], P.view[e[3]]>> \in Edges(P)
  BY <1>1 DEF Edges
<1> QED
  BY <1>2

\* An edge of the state graph out of what is seen in c is a step c can take,
\* when the labels determine the configuration.
LEMMA EdgeIsStep ==
    ASSUME NEW P \in Program, Faithful(P),
           NEW c \in Reachable(P), NEW p, NEW s,
           <<P.view[c], p, s>> \in Edges(P)
    PROVE  p \in Proc /\ \E d \in P.step[c][p] : s = P.view[d]
<1>1. PICK e \in Steps(P) :
        <<P.view[c], p, s>> = <<P.view[e[1]], e[2], P.view[e[3]]>>
  BY DEF Edges
<1>2. e \in Reachable(P) \X Proc \X Conf /\ e[3] \in P.step[e[1]][e[2]]
  BY DEF Steps
<1>3. e[1] = c
  BY <1>1, <1>2 DEF Faithful
<1> QED
  BY <1>1, <1>2, <1>3

\* The reachable configurations are contained in every closed set.
LEMMA ReachableSmallest ==
    ASSUME NEW P \in Program, NEW S \in SUBSET Conf, ClosedUnderSteps(P, S)
    PROVE  Reachable(P) \subseteq S
BY DEF Reachable

\* A reachable configuration is a configuration, and shows a state.
LEMMA ReachableIsConf ==
    ASSUME NEW P \in Program, NEW c \in Reachable(P)
    PROVE  c \in Conf /\ P.view[c] \in State
BY DEF Reachable, Program
=============================================================================
