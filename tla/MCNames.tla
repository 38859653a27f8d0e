------------------------------ MODULE MCNames -------------------------------
EXTENDS Names

CONSTANTS c1, c2, n1, n2, a1, a2

MCName == {n1, n2}
\* Both names fall into one bucket.
MCHash == [n \in MCName |-> 1]
MCAddr == {a1, a2}
MCAnswers == [n \in MCName |-> IF n = n1 THEN {a1} ELSE {a2}]
=============================================================================
