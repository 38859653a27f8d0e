------------------------------- MODULE MCUsers -------------------------------
EXTENDS Users

CONSTANTS s1, s2, i1, g1, p1, c1, c2

\* The number of s1 is a beginning of that of s2.
MCStartOf == {<<s1, s2>>}
\* One client with an address of its own, one behind a gateway.
MCAddrOf == [c \in Client |->
              IF c = c1 THEN [ip |-> i1, port |-> p1] ELSE [ip |-> g1, port |-> p1]]
=============================================================================
