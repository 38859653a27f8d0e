----------------------------- MODULE MCGateways ------------------------------
EXTENDS Gateways

CONSTANTS c1, c2, c3

MCConn == {c1, c2, c3}
\* Where the messages of each gateway end: three of 3, 4 and 3 bytes from the
\* first, one of 4 bytes from the second, none from the third.
MCEnd == [c \in MCConn |-> CASE c = c1 -> <<3, 7, 10>> [] c = c2 -> <<4>>
                             [] OTHER -> <<>>]
MCTimeout == [l \in Lists |-> 2]
=============================================================================
