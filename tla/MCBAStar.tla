------------------------------ MODULE MCBAStar ------------------------------
EXTENDS BASync

CONSTANTS n1, n2, n3

Pair == {n1, n2}
Trio == {n1, n2, n3}
Ranks == [n \in Node |-> IF n = n1 THEN 3 ELSE IF n = n2 THEN 2 ELSE 1]
Heavy == [s \in Steps |-> {2}]
LightFirst == [s \in Steps |-> IF s = 1 THEN {1, 2} ELSE {2}]

OnlyWhatIsRead == \A n \in Node : JustInTime(n)
=============================================================================
