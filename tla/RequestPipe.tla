---------------------------- MODULE RequestPipe -----------------------------
(***************************************************************************)
(* What the forwarding of requests promises the backend: it is sent the     *)
(* bytes of the client in order, and no byte of a request before the whole  *)
(* head of that request was received and judged.                            *)
(***************************************************************************)
EXTENDS Naturals, Sequences

VARIABLES headEnds,   \* headEnds[k]: position of the last head byte of request k
          ends,       \* ends[k]: position of the last byte of request k
          received,   \* bytes taken from the client
          judged,     \* requests whose head was judged
          sent        \* bytes given to the backend

pipeVars == <<headEnds, ends, received, judged, sent>>

PipeInit ==
  /\ headEnds \in Seq(Nat) /\ ends \in Seq(Nat)
  /\ received = 0 /\ judged = 0 /\ sent = 0

Receive ==
  /\ received' > received
  /\ UNCHANGED <<headEnds, ends, judged, sent>>

Judge ==
  /\ judged < Len(ends) /\ headEnds[judged + 1] <= received
  /\ judged' = judged + 1
  /\ UNCHANGED <<headEnds, ends, received, sent>>

Send ==
  /\ judged > 0
  /\ sent' \in (sent + 1)..received /\ sent' <= ends[judged]
  /\ UNCHANGED <<headEnds, ends, received, judged>>

PipeSpec == PipeInit /\ [][Receive \/ Judge \/ Send]_pipeVars
=============================================================================
