------------------------------ MODULE NameBook ------------------------------
(***************************************************************************)
(* What the DNS cache of the backend program promises to peer_create: a map *)
(* from host names to the address learnt last.  Names are forgotten all at  *)
(* once or not at all.                                                      *)
(***************************************************************************)
CONSTANTS Name, Addr, Unknown

VARIABLE book

BookInit == book = [n \in Name |-> Unknown]

Learn(n, ip) == book' = [book EXCEPT ![n] = ip]

ForgetAll == book' = [n \in Name |-> Unknown]

BookNext == (\E n \in Name, ip \in Addr : Learn(n, ip)) \/ ForgetAll

BookSpec == BookInit /\ [][BookNext]_book
=============================================================================
