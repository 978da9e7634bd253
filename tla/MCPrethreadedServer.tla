-------------------------- MODULE MCPrethreadedServer --------------------------
EXTENDS PrethreadedServer

CONSTANTS c1, c2, c3, w1, w2

ThreeClients == {c1, c2, c3}
OneAborter == {c1}
TwoWorkers == {w1, w2}
SomeInput == [c \in ThreeClients |-> IF c = c1 THEN 2 ELSE IF c = c2 THEN 1 ELSE 0]

================================================================================
