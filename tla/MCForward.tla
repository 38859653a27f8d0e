------------------------------ MODULE MCForward -----------------------------
(* Streams of up to three requests for Forward.                             *)
EXTENDS Forward

Req(l, h, b) == [line |-> l, head |-> h, body |-> b]

\* Request lines that one read always delivers whole.
ShortLines ==
  {<<Req(1, 2, 0), Req(1, 1, 3), Req(1, 1, 0)>>,
   <<Req(1, 1, 2), Req(1, 2, 1)>>,
   <<Req(1, 1, 0), Req(1, 1, 0), Req(1, 1, 2)>>,
   <<Req(1, 2, 4), Req(1, 1, 2), Req(1, 1, 0)>>}

\* A request line of two bytes, which two reads may deliver.
LongLine == {<<Req(2, 1, 0), Req(1, 1, 0)>>}
=============================================================================
