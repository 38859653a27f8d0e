----------------------------- MODULE MCJobQueue -----------------------------
(* Model values for JobQueue.                                               *)
EXTENDS JobQueue

CONSTANTS k1, k2, s1, in, out
MCConn == {k1, k2, s1}
MCService == {s1}
MCEvent == {in, out}
=============================================================================
