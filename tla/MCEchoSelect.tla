------------------------------ MODULE MCEchoSelect ------------------------------
EXTENDS EchoSelect

CONSTANTS c1, c2, c3, c4

OneClient == {c1}
OneAborter == {c2}
FourClients == {c1, c2, c3, c4}
TwoLines == [c \in OneClient |-> 2]
SomeInput == [c \in FourClients |-> IF c \in {c1, c2} THEN 1 ELSE 0]

================================================================================
