------------------------------ MODULE Gateways -------------------------------
(***************************************************************************)
(* The connections of the gateways, which tell the frontend who logs in and *)
(* out: their list and timeout (TimeQueue), and how the bytes they send are *)
(* cut into messages (gateway_interface.c).  The parser keeps its state in  *)
(* static variables all gateways share, and leaves an unfinished message in *)
(* the connection's readbuf.  A handler runs to its end before anything     *)
(* else: while "self" is a connection its handler is in the parsing loop,   *)
(* one action for one turn of try_read_rbuffer.                             *)
(*                                                                          *)
(* A gateway sends its messages one after the other; End[c][k] is where the *)
(* k-th of connection c ends.  A byte is known by its connection and place. *)
(***************************************************************************)
EXTENDS TimeQueue

CONSTANTS NoConn,
          HeaderLen,       \* GW_BUFFER_HEADER_LEN
          End              \* what the gateways send

ASSUME GatewaysAssumption ==
  /\ NoConn \notin Conn
  /\ HeaderLen \in Nat \ {0}
  /\ End \in [Conn -> Seq(Nat)]
  /\ \A c \in Conn : \A k \in DOMAIN End[c] :
       /\ End[c][k] > HeaderLen
       /\ \A j \in 1..(k - 1) : End[c][k] > End[c][j] + HeaderLen

VARIABLES self,            \* the connection whose handler runs
          got,             \* bytes read from a connection so far
          readbuf,         \* its chunk: a sequence of buffers
          BufferState,     \* static
          observ, three,   \* BufferRebuildObserv, its three_header_char
          buf,             \* the message being put together: its bytes
          dealt            \* ghost: messages passed to deel_gw_buffer

parseVars == <<BufferState, observ, three, buf>>
gwVars == <<self, got, readbuf, parseVars, dealt>>
vars == <<timeVars, gwVars>>

Start(c, k) == IF k = 1 THEN 0 ELSE End[c][k - 1]
LastByte(c) == IF End[c] = <<>> THEN 0 ELSE End[c][Len(End[c])]

Byte == UNION {{c} \X (1..LastByte(c)) : c \in Conn}

\* The bytes of c from place a + 1 to place b.
Bytes(c, a, b) == [i \in 1..(b - a) |-> <<c, a + i>>]

Message(c, k) == Bytes(c, Start(c, k), End[c][k])

\* The length in a header: that of the message its last byte is from.
LengthIn(header) ==
  LET b == header[HeaderLen]
      k == CHOOSE j \in DOMAIN End[b[1]] :
             Start(b[1], j) < b[2] /\ b[2] <= End[b[1]][j]
  IN End[b[1]][k] - Start(b[1], k)

GatewaysTypeOK ==
  /\ TimeTypeOK
  /\ self \in Conn \cup {NoConn}
  /\ self # NoConn => status[self] = "WORKING"
  /\ got \in [Conn -> Nat] /\ \A c \in Conn : got[c] <= LastByte(c)
  /\ readbuf \in [Conn -> Seq(Seq(Byte))]
  /\ BufferState \in {"ANALYSIZE_BUFFER_HEADER", "READ_BUFFER_DATA",
                      "REBUILD_BUFFER_SUCCESS"}
  /\ observ \in [analysized : BOOLEAN, offset : Nat, header : 0..HeaderLen, data : Nat]
  /\ three \in Seq(Byte) /\ Len(three) <= HeaderLen
  /\ buf \in Seq(Byte)
  /\ dealt \in [Conn -> Seq(Seq(Byte))]

\* repair_buffer_observ with all its arguments.
Observ(analysized, offset, header, data) ==
  [analysized |-> analysized, offset |-> offset, header |-> header, data |-> data]

Init ==
  /\ TimeInit
  /\ self = NoConn
  /\ got = [c \in Conn |-> 0]
  /\ readbuf = [c \in Conn |-> <<>>]
  /\ BufferState = "ANALYSIZE_BUFFER_HEADER"
  /\ observ = Observ(FALSE, 0, 0, 0)
  /\ three = <<>>
  /\ buf = <<>>
  /\ dealt = [c \in Conn |-> <<>>]

-----------------------------------------------------------------------------
\* The handlers of connections, and the list they are in.

\* gateway_conn_create; the gateway begins anew.
GwAccept(c) ==
  /\ Accept(c)
  /\ got' = [got EXCEPT ![c] = 0]
  /\ readbuf' = [readbuf EXCEPT ![c] = <<>>]
  /\ dealt' = [dealt EXCEPT ![c] = <<>>]
  /\ UNCHANGED <<self, parseVars>>

\* gateway_rbuffer_read begins: the static state is set anew.
StartParse ==
  /\ observ' = Observ(FALSE, 0, HeaderLen, 0)
  /\ BufferState' = "ANALYSIZE_BUFFER_HEADER"

\* gateway_handle, FDEVENT_IN: what has come is read, up to the byte at n, in
\* one buffer or in two cut at m, and the parser is called.
GwIn(c) ==
  /\ list = "gateway" /\ status[c] = "WORKING"
  /\ Received(c) /\ status' = status
  /\ \E n \in (got[c] + 1)..LastByte(c) : \E m \in (got[c] + 1)..n :
       /\ got' = [got EXCEPT ![c] = n]
       /\ readbuf' = [readbuf EXCEPT ![c] =
            @ \o (IF m = n THEN <<Bytes(c, got[c], n)>>
                  ELSE <<Bytes(c, got[c], m), Bytes(c, m, n)>>)]
  /\ self' = c
  /\ StartParse
  /\ buf' = <<>>
  /\ UNCHANGED <<three, dealt>>

\* The other two lists, and the events of a gateway that bring no bytes: the
\* end of the input, ERR, HUP, an input when the close is due, the close.
Others(c) ==
  /\ \/ Received(c) /\ (list = "gateway" => status'[c] = "CLOSED")
     \/ Sent(c)
     \/ SignalClose(c)
     \/ Free(c)
  /\ UNCHANGED gwVars

Alarm(d) == Tick(d) /\ UNCHANGED gwVars

-----------------------------------------------------------------------------
\* try_read_rbuffer, called until there is no whole message.  A turn of its
\* loop takes a buffer tmp_buf off the chunk, unless a message is whole.

tmp_buf == Head(readbuf[self])

\* recompute_buffer_state.
Recompute(o) ==
  IF o.analysized THEN "REBUILD_BUFFER_SUCCESS"
  ELSE IF o.header > 0 THEN "ANALYSIZE_BUFFER_HEADER"
  ELSE IF o.data > 0 THEN "READ_BUFFER_DATA"
  ELSE BufferState

\* The end of a turn: tmp_buf goes back to the head of the chunk when the
\* next message begins in it.
EndTurn(o) ==
  /\ observ' = o
  /\ BufferState' = Recompute(o)
  /\ readbuf' = [readbuf EXCEPT ![self] =
                   IF o.analysized /\ o.offset > 0 THEN @ ELSE Tail(@)]
  /\ UNCHANGED <<timeVars, self, got, dealt>>

First(s, n) == SubSeq(s, 1, n)

\* Mutant: the offset counts from the rest of tmp_buf, not from its start.
WholeOff(s, n, from) ==
  IF Len(s) > n THEN Observ(TRUE, n, HeaderLen, observ.data)
  ELSE IF Len(s) = n THEN Observ(TRUE, 0, HeaderLen, 0)
  ELSE Observ(FALSE, 0, 0, n - Len(s))

\* Whether a message that needs n bytes is whole with s, which is from place
\* "from" of tmp_buf; the new value of the observer.
Whole(s, n, from) ==
  IF Len(s) > n THEN Observ(TRUE, from + n, HeaderLen, observ.data)
  ELSE IF Len(s) = n THEN Observ(TRUE, 0, HeaderLen, 0)
  ELSE Observ(FALSE, 0, 0, n - Len(s))

\* ANALYSIZE_BUFFER_HEADER: the header goes on from where it was left, and
\* when it is whole the message's buffer is made.
AnalyseHeader ==
  LET s == SubSeq(tmp_buf, observ.offset + 1, Len(tmp_buf))
      need == observ.header
      header == First(three, HeaderLen - need) \o First(s, need)
      rest == SubSeq(s, need + 1, Len(s))
      n == LengthIn(header) - HeaderLen
  IN /\ BufferState = "ANALYSIZE_BUFFER_HEADER" /\ readbuf[self] # <<>>
     /\ IF Len(s) >= need
        THEN /\ three' = header
             /\ buf' = header \o First(rest, IF Len(rest) < n THEN Len(rest) ELSE n)
             /\ EndTurn(Whole(rest, n, observ.offset + need))
        ELSE /\ three' = First(three, HeaderLen - need) \o s
             /\ UNCHANGED buf
             /\ EndTurn(Observ(FALSE, 0, need - Len(s), observ.data))

\* READ_BUFFER_DATA: always from the head of a buffer.
ReadData ==
  LET n == observ.data IN
  /\ BufferState = "READ_BUFFER_DATA" /\ readbuf[self] # <<>>
  /\ buf' = buf \o First(tmp_buf, IF Len(tmp_buf) < n THEN Len(tmp_buf) ELSE n)
  /\ EndTurn(Whole(tmp_buf, n, 0))
  /\ UNCHANGED three

\* REBUILD_BUFFER_SUCCESS: the message goes to deel_gw_buffer.
Deal ==
  LET o == [observ EXCEPT !.analysized = FALSE] IN
  /\ BufferState = "REBUILD_BUFFER_SUCCESS"
  /\ observ' = o
  /\ BufferState' = Recompute(o)
  /\ dealt' = [dealt EXCEPT ![self] = Append(@, buf)]
  /\ buf' = <<>>
  /\ UNCHANGED <<timeVars, self, got, readbuf, three>>

\* Mutant: only a header begun is put back.
NotEnoughHeader ==
  /\ BufferState # "REBUILD_BUFFER_SUCCESS" /\ readbuf[self] = <<>>
  /\ LET left == IF Recompute(observ) = "ANALYSIZE_BUFFER_HEADER"
                 THEN First(three, HeaderLen - observ.header) ELSE <<>>
     IN readbuf' = [readbuf EXCEPT ![self] = IF left = <<>> THEN @ ELSE <<left>>]
  /\ observ' = Observ(FALSE, 0, 0, 0)
  /\ BufferState' = Recompute(observ)
  /\ self' = NoConn
  /\ buf' = <<>>
  /\ UNCHANGED <<timeVars, got, three, dealt>>

\* NO_ENOUGH_BUFFER: the chunk is empty.  What there is of a message goes
\* back to it, as one buffer; the handler returns.
NotEnough ==
  /\ BufferState # "REBUILD_BUFFER_SUCCESS" /\ readbuf[self] = <<>>
  /\ LET left == IF Recompute(observ) = "ANALYSIZE_BUFFER_HEADER"
                 THEN First(three, HeaderLen - observ.header) ELSE buf
     IN readbuf' = [readbuf EXCEPT ![self] = IF left = <<>> THEN @ ELSE <<left>>]
  /\ observ' = Observ(FALSE, 0, 0, 0)
  /\ BufferState' = Recompute(observ)
  /\ self' = NoConn
  /\ buf' = <<>>
  /\ UNCHANGED <<timeVars, got, three, dealt>>

Next ==
  \/ /\ self = NoConn
     /\ \/ \E c \in Conn : GwAccept(c) \/ GwIn(c) \/ Others(c)
        \/ \E d \in 1..Timeout[list] : Alarm(d)
  \/ /\ self # NoConn
     /\ AnalyseHeader \/ ReadData \/ Deal \/ NotEnough

Spec == Init /\ [][Next]_vars

-----------------------------------------------------------------------------
\* However the bytes are cut on the way, deel_gw_buffer is given exactly the
\* messages the gateway sent, whole and in order; what one gateway left in
\* the static state never gets into a message of another.
MessagesIntact ==
  \A c \in Conn :
    /\ Len(dealt[c]) <= Len(End[c])
    /\ \A k \in DOMAIN dealt[c] : dealt[c][k] = Message(c, k)

\* When the handler has returned, no whole message waits in readbuf, where no
\* event would come for it, and nothing is lost: readbuf holds exactly the
\* bytes read after the last message, in one buffer.
NothingWaits ==
  \A c \in Conn : (c # self /\ status[c] # "FREE") =>
    LET k == Len(dealt[c]) + 1
        from == Start(c, k)
    IN /\ k \in DOMAIN End[c] => got[c] < End[c][k]
       /\ readbuf[c] = IF got[c] = from THEN <<>> ELSE <<Bytes(c, from, got[c])>>
=============================================================================
