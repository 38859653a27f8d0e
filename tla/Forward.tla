------------------------------- MODULE Forward ------------------------------
(***************************************************************************)
(* One direction of a frontend connection, byte by byte: chunk_io_read      *)
(* fills the client's readbuf, the parse loop of forward.c finds the end of *)
(* the request line and of the head, inserts the user's id head, and        *)
(* http_handle_forwarddata moves the request to the backend's writebuf,     *)
(* splitting the buffer in which the request ends; chunk_io_write empties   *)
(* that.  The bytes of the client are numbered 1, 2, ...; those of inserted *)
(* heads are 0.  The backend connection exists and is writable.             *)
(***************************************************************************)
EXTENDS Integers, Sequences, SequencesExt

CONSTANTS Streams,   \* what a client may send: sequences of requests, each
                     \* a record of the lengths of its line, head and body
          Limit,     \* CHUNKSIZE_LIMIT
          Grain,     \* BUFFER_SIZE_MIN: buffers are multiples of it
          Iov,       \* CONN_WRITE_CNTMAX
          IdLen      \* length of the inserted id head, 0 for no userinfo

ASSUME ForwardAssumption ==
  /\ {Limit, Grain, Iov} \subseteq Nat \ {0}
  /\ IdLen \in Nat
  /\ Streams \subseteq Seq([line : Nat \ {0}, head : Nat \ {0}, body : Nat])

VARIABLES stream,              \* what this client sends
          got,                 \* bytes read from its socket
          readbuf, rUsed,      \* buffers of con->readbuf, its used_size
          writebuf, wUsed,     \* the same of peer->writebuf
          stat,                \* r->stat
          parse_buf, parse_pos,\* index in readbuf, 0 for NULL; offset
          curlen,              \* r->content_curlen
          busy,                \* the parse loop runs
          req,                 \* ghost: request being parsed
          wire                 \* ghost: bytes the backend was sent

vars == <<stream, got, readbuf, rUsed, writebuf, wUsed, stat,
          parse_buf, parse_pos, curlen, busy, req, wire>>

\* buffer_t: bytes before data (off) and the data.
Used(b) == Len(b.data)
Mused(b) == b.off + Len(b.data)
NewBuf(s) == [off |-> 0, data |-> s]

\* Data of the first buffer of q moves up by c bytes.
CutFront(q, c) ==
  [q EXCEPT ![1] = [off |-> @.off + c, data |-> SubSeq(@.data, c + 1, Len(@.data))]]

UsedOf(q) == [i \in DOMAIN q |-> Used(q[i])]
MusedOf(q) == [i \in DOMAIN q |-> Mused(q[i])]
Bytes(q) == FlattenSeq([i \in DOMAIN q |-> q[i].data])

\* The running sums of a sequence of numbers, and the sum of all of it.
SumTo(s) ==
  LET sum[k \in 0..Len(s)] == IF k = 0 THEN 0 ELSE sum[k - 1] + s[k] IN sum
Total(s) == SumTo(s)[Len(s)]

\* Positions in the stream.
EndOf(k) == SumTo([i \in DOMAIN stream |-> stream[i].line + stream[i].head + stream[i].body])[k]
LineEnd(k) == EndOf(k - 1) + stream[k].line
HeadEnd(k) == LineEnd(k) + stream[k].head
Length == EndOf(Len(stream))

Init ==
  /\ stream \in Streams
  /\ got = 0
  /\ readbuf = <<>> /\ rUsed = 0
  /\ writebuf = <<>> /\ wUsed = 0
  /\ stat = "COMMONDREQ"
  /\ parse_buf = 0 /\ parse_pos = 0
  /\ curlen = 0
  /\ busy = FALSE
  /\ req = 1
  /\ wire = <<>>

-----------------------------------------------------------------------------
\* Mutant: every buffer gets a full grain more.
RoundUpMore(n) == (n - (n % Grain)) + Grain

\* buffer_new( size ): the size is rounded up.
RoundUp(n) == IF n % Grain = 0 THEN n ELSE (n - (n % Grain)) + Grain

\* chunk_io_read with sys bytes in the socket: what the limits leave, rounded
\* up to whole grains, as the new buffer's spare is what read() is asked for.
Read(sys) ==
  LET space == (Limit - rUsed) + (Limit - wUsed)
      n == Min({sys, RoundUp(Min({sys, space}))})
  IN
  /\ ~busy
  /\ space > 0 /\ got + sys <= Length
  /\ readbuf' = Append(readbuf, NewBuf([i \in 1..n |-> got + i]))
  /\ rUsed' = rUsed + n
  /\ got' = got + n
  /\ busy' = TRUE
  /\ UNCHANGED <<stream, writebuf, wUsed, stat, parse_buf, parse_pos, curlen, req, wire>>

\* Mutant: used_size goes down by the data left, as in chunk_delbuffer.
WUsedAfter(gone) == wUsed - Total(UsedOf(gone))

\* buffer_get takes out each buffer that was written whole.
WUsedAfterGet(gone) == wUsed - Total(MusedOf(gone))

\* chunk_io_write: writev takes n bytes of the first Iov buffers.
Write(n) ==
  LET upTo == SumTo(UsedOf(writebuf))
      whole == Max({i \in 0..Len(writebuf) : upTo[i] <= n})
      rest == SubSeq(writebuf, whole + 1, Len(writebuf))
      cut == n - upTo[whole]
  IN
  /\ ~busy
  /\ n \in 1..upTo[Min({Iov, Len(writebuf)})]
  /\ writebuf' = IF cut = 0 THEN rest ELSE CutFront(rest, cut)
  /\ wUsed' = WUsedAfterGet(SubSeq(writebuf, 1, whole))
  /\ wire' = wire \o SubSeq(Bytes(writebuf), 1, n)
  /\ UNCHANGED <<stream, got, readbuf, rUsed, stat, parse_buf, parse_pos, curlen, busy, req>>

-----------------------------------------------------------------------------
(* The parser scans from parse_buf and parse_pos to the byte it looks for.  *)

From == IF parse_buf = 0 THEN 1 ELSE parse_buf

\* Buffers and offsets at which byte p is still to be scanned.
Found(p) ==
  {f \in (From..Len(readbuf)) \X (1..Length) :
     /\ f[2] <= Used(readbuf[f[1]]) /\ readbuf[f[1]].data[f[2]] = p
     /\ f[1] = parse_buf => f[2] > parse_pos}

Target == IF stat = "COMMONDREQ" THEN LineEnd(req) ELSE HeadEnd(req)

\* HTTP_PARSE_AGAIN or NULL: all that was read has been scanned.
ParseAgain ==
  /\ busy /\ stat \in {"COMMONDREQ", "HEADREQ"}
  /\ req > Len(stream) \/ Found(Target) = {}
  /\ parse_buf' = Len(readbuf)
  /\ parse_pos' = IF readbuf = <<>> THEN 0 ELSE Used(Last(readbuf))
  /\ busy' = FALSE
  /\ UNCHANGED <<stream, got, readbuf, rUsed, writebuf, wUsed, stat, curlen, req, wire>>

\* Mutant: the id head goes in front of the request line.
InsertIdFirst(i, j) ==
  LET b == readbuf[i]
      new == NewBuf([n \in 1..IdLen |-> 0] \o b.data)
  IN
  /\ readbuf' = <<new>> \o RemoveAt(readbuf, i)
  /\ rUsed' = rUsed + Mused(new) - Used(b)
  /\ parse_buf' = 1
  /\ parse_pos' = j + IdLen

\* insert_id_head at offset j of buffer i: a copy of the buffer with the id
\* head in it goes to the HEAD of readbuf, and the buffer is deleted.
InsertId(i, j) ==
  LET b == readbuf[i]
      new == NewBuf(SubSeq(b.data, 1, j) \o [n \in 1..IdLen |-> 0] \o SubSeq(b.data, j + 1, Used(b)))
  IN
  /\ readbuf' = <<new>> \o RemoveAt(readbuf, i)
  /\ rUsed' = rUsed + Mused(new) - Used(b)
  /\ parse_buf' = 1
  /\ parse_pos' = j + IdLen

\* http_parse_command: HTTP_PARSE_OK.
ParseLine ==
  /\ busy /\ stat = "COMMONDREQ" /\ req <= Len(stream)
  /\ \E f \in Found(LineEnd(req)) :
       IF IdLen > 0 THEN InsertId(f[1], f[2])
       ELSE /\ parse_buf' = f[1] /\ parse_pos' = f[2]
            /\ UNCHANGED <<readbuf, rUsed>>
  /\ stat' = "HEADREQ"
  /\ UNCHANGED <<stream, got, writebuf, wUsed, curlen, busy, req, wire>>

-----------------------------------------------------------------------------
(* http_handle_forwarddata                                                  *)

\* Where a scan for `left' bytes from the start of buffer s on ends: the
\* buffer, the offset in it, and how many bytes of the body it passed.
Scan(s, left) ==
  LET upTo(i) == Total(UsedOf(SubSeq(readbuf, s, i)))
      ends == {i \in s..Len(readbuf) : left <= upTo(i)}
      n == Len(readbuf)
  IN IF ends # {} THEN <<Min(ends), left - upTo(Min(ends) - 1), left>>
     ELSE <<n, Used(readbuf[n]), upTo(n)>>

\* Mutant: a body that starts in the head's buffer is cut there.
EndOfDataCut(pb, pos, sumlen) ==
  IF pb = 0 THEN Scan(1, sumlen - curlen) ELSE <<pb, pos, sumlen>>

\* Last buffer to send, where it is cut, and the bytes of the body before
\* that.  pb and pos: parse_buf and parse_pos when the head is still here.
EndOfData(pb, pos, sumlen) ==
  IF pb = 0 THEN Scan(1, sumlen - curlen)
  ELSE LET here == Used(readbuf[pb]) - pos IN
       IF sumlen <= here THEN <<pb, pos + sumlen, sumlen>>
       ELSE IF pb = Len(readbuf) THEN <<pb, Used(readbuf[pb]), here>>
       ELSE LET e == Scan(pb + 1, sumlen) IN <<e[1], e[2], e[3] + here>>

\* Mutant: the buffer in which the request ends is moved as a whole.
MoveWhole(e, epos) ==
  LET moved == SubSeq(readbuf, 1, e) IN
  /\ writebuf' = writebuf \o moved
  /\ wUsed' = wUsed + Total(MusedOf(moved))
  /\ readbuf' = SubSeq(readbuf, e + 1, Len(readbuf))
  /\ rUsed' = rUsed - Total(UsedOf(moved))

\* Buffers before e are moved whole.  So is e, if the request ends with it;
\* else its first epos bytes are copied to a new buffer and the rest stays,
\* data moved up by epos, with used_size as it was.
Move(e, epos) ==
  LET b == readbuf[e]
      n == IF epos = Used(b) THEN e ELSE e - 1
      moved == SubSeq(readbuf, 1, n)
      copied == IF n = e THEN <<>> ELSE <<NewBuf(SubSeq(b.data, 1, epos))>>
      rest == SubSeq(readbuf, n + 1, Len(readbuf))
  IN
  /\ writebuf' = writebuf \o moved \o copied
  /\ wUsed' = wUsed + Total(MusedOf(moved \o copied))
  /\ readbuf' = IF n = e THEN rest ELSE CutFront(rest, epos)
  /\ rUsed' = rUsed - Total(UsedOf(moved))

\* Mutant: parse_buf goes on pointing to the buffer that was moved away.
ForwardDataKeepsBuf(pb, pos) ==
  LET sumlen == stream[req].body
      e == EndOfData(pb, pos, sumlen)
      now == IF pb = 0 THEN curlen + e[3] ELSE e[3]
  IN
  /\ Move(e[1], e[2])
  /\ parse_buf' = pb /\ parse_pos' = pos
  /\ IF now = sumlen
     THEN stat' = "COMMONDREQ" /\ curlen' = 0 /\ req' = req + 1
     ELSE stat' = "BODYREQ" /\ curlen' = now /\ req' = req

\* Moves what there is of the request; pb and pos as above.
ForwardData(pb, pos) ==
  LET sumlen == stream[req].body
      e == EndOfData(pb, pos, sumlen)
      now == IF pb = 0 THEN curlen + e[3] ELSE e[3]
  IN
  /\ Move(e[1], e[2])
  /\ parse_buf' = 0 /\ parse_pos' = 0
  /\ IF now = sumlen
     THEN stat' = "COMMONDREQ" /\ curlen' = 0 /\ req' = req + 1
     ELSE stat' = "BODYREQ" /\ curlen' = now /\ req' = req

\* HTTP_PARSE_HEADOVER, for a request that is not denied: one without a body
\* is forwarded at once.
ParseHead ==
  /\ busy /\ stat = "HEADREQ"
  /\ \E f \in Found(HeadEnd(req)) :
       IF stream[req].body > 0
       THEN /\ stat' = "BODYREQ"
            /\ parse_buf' = f[1] /\ parse_pos' = f[2]
            /\ UNCHANGED <<readbuf, rUsed, writebuf, wUsed, curlen, req>>
       ELSE ForwardData(f[1], f[2])
  /\ UNCHANGED <<stream, got, busy, wire>>

\* HTTP_STAT_BODYREQ with data; the first time the head is still in front.
ForwardBody ==
  /\ busy /\ stat = "BODYREQ" /\ readbuf # <<>>
  /\ ForwardData(parse_buf, parse_pos)
  /\ UNCHANGED <<stream, got, busy, wire>>

\* HTTP_STAT_BODYREQ with an empty readbuf: the loop ends.
BodyLater ==
  /\ busy /\ stat = "BODYREQ" /\ readbuf = <<>>
  /\ busy' = FALSE
  /\ UNCHANGED <<stream, got, readbuf, rUsed, writebuf, wUsed, stat, parse_buf, parse_pos, curlen, req, wire>>

Next ==
  \/ \E sys \in 1..Length : Read(sys)
  \/ \E n \in 1..(Length + Len(stream) * IdLen) : Write(n)
  \/ ParseAgain \/ ParseLine \/ ParseHead \/ ForwardBody \/ BodyLater

Spec == Init /\ [][Next]_vars

-----------------------------------------------------------------------------
Buffer == [off : Nat, data : Seq(Nat)]

TypeOK ==
  /\ stream \in Streams
  /\ got \in 0..Length
  /\ readbuf \in Seq(Buffer) /\ writebuf \in Seq(Buffer)
  /\ rUsed \in Nat /\ wUsed \in Nat
  /\ stat \in {"COMMONDREQ", "HEADREQ", "BODYREQ"}
  /\ parse_buf \in 0..Len(readbuf) /\ parse_pos \in Nat
  /\ curlen \in Nat
  /\ busy \in BOOLEAN
  /\ req \in 1..(Len(stream) + 1)
  /\ wire \in Seq(Nat)

\* Requests whose line the parser has passed.
LinesParsed == IF stat = "COMMONDREQ" THEN req - 1 ELSE req

\* The client's bytes reach the backend once and in order, with the id head
\* right behind each request line and nowhere else, however reads, splits
\* and writes cut the stream.
RequestsIntact ==
  LET idHeadAfter == {LineEnd(k) : k \in 1..LinesParsed}
      expected == [p \in 1..got |-> <<p>> \o [n \in 1..(IF p \in idHeadAfter THEN IdLen ELSE 0) |-> 0]]
  IN wire \o Bytes(writebuf) \o Bytes(readbuf) = FlattenSeq(expected)

\* What http_handle_forwarddata leaves in readbuf starts with the next
\* request, and a head it forwards is in the last buffer (its loop over the
\* buffers behind the head does not take off the body bytes in front of it).
NextRequestAligned ==
  /\ stat = "COMMONDREQ" /\ readbuf # <<>> => Bytes(readbuf)[1] = EndOf(req - 1) + 1
  /\ stat = "BODYREQ" /\ parse_buf > 0 => parse_buf = Len(readbuf)

\* used_size of writebuf is the memory in use, whatever was cut off its
\* buffers on either side.
WritebufAccounting == wUsed = Total(MusedOf(writebuf))

\* Both buffers together never hold more than their limits, what the
\* rounding of one read adds, and the id heads.
BoundedMemory ==
  Len(Bytes(readbuf)) + Len(Bytes(writebuf)) <= 2 * Limit + Grain - 1 + Len(stream) * IdLen

\* used_size of an empty readbuf is 0 (chunk.h:24 "memory used").
ReadbufAccounting == readbuf = <<>> => rUsed = 0

\* The forwarding implements the abstract pipe of requests.
Pipe == INSTANCE RequestPipe WITH
  headEnds <- [k \in DOMAIN stream |-> HeadEnd(k)],
  ends <- [k \in DOMAIN stream |-> EndOf(k)],
  received <- got,
  judged <- IF stat = "BODYREQ" THEN req ELSE req - 1,
  sent <- Total([i \in DOMAIN wire |-> IF wire[i] = 0 THEN 0 ELSE 1])

ImplementsPipe == Pipe!PipeSpec
=============================================================================
