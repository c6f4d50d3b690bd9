------------------------------ MODULE MCRemote ------------------------------
EXTENDS RemoteGenerator, TLC

CONSTANTS c1, c2, c3, k1

OneCall == {c1}
TwoCalls == {c1, c2}
ThreeCalls == {c1, c2, c3}
OneClient == [c \in Call |-> k1]
=============================================================================
