---------------------------- MODULE HttpSession ----------------------------
(***************************************************************************)
(* HttpSession over a socket: recvRequest, with the body read by           *)
(* Stream::readFixSize, and sendResponse.  A client sends the requests of  *)
(* Script[c], written by HttpRequest::dump, in pieces of any size; sent    *)
(* and taken are how much of that text has arrived and has been read.  One *)
(* recv returns everything that has arrived, up to the room in the buffer. *)
(* An answer has AnswerPieces pieces, of which the kernel holds SendRoom   *)
(* until the client reads them.                                            *)
(***************************************************************************)
EXTENDS Http11Parser, Stream, FiniteSets

CONSTANTS
  Script,          \* the requests of each connection
  Connection,      \* the name of the header "connection"
  CloseWord,       \* its value "close"
  BufSize,         \* http.request.buffer_size
  MaxSends,        \* bound on the pieces of each connection's text
  CutChars,        \* a piece ends before or after one of these characters
  MaxLate,         \* bound on receive timeouts while a body is read
  AnswerPieces,    \* the size of an answer
  SendRoom         \* the size of the socket's send buffer

\* Texts are sequences of characters; the length of a body has one digit.
ASSUME SessionAssumption ==
  /\ {Connection, CloseWord, ContentLength} \subseteq Seq(STRING)
  /\ BufSize \in Nat \ {0} /\ AnswerPieces \in Nat \ {0} /\ SendRoom \in Nat \ {0}
  /\ \A c \in DOMAIN Script :
       /\ Script[c] \in Seq([method : Seq(STRING), path : Seq(STRING), query : Seq(STRING),
                            body : Seq(STRING)])
       /\ \A k \in DOMAIN Script[c] : Len(Script[c][k].body) < 10

VARIABLES conn

Clients == DOMAIN Script

(***************************************************************************)
(* What the client sends.                                                  *)
(***************************************************************************)
CrLf == <<"CR", "LF">>
DigitOf(n) == <<"0", "1", "2", "3", "4", "5", "6", "7", "8", "9">>[n + 1]
\* HttpRequest::dump for a body of less than ten bytes.  A body is followed
\* by CR LF, which content-length does not count.
DumpHead(m) ==
  m.method \o <<SP>> \o m.path \o (IF m.query = <<>> THEN <<>> ELSE <<"?">> \o m.query)
  \o <<SP>> \o Http11 \o CrLf \o Connection \o <<":", SP>> \o CloseWord \o CrLf
  \o (IF m.body = <<>> THEN <<>>
      ELSE ContentLength \o <<":", SP, DigitOf(Len(m.body))>> \o CrLf)
  \o CrLf
Dump(m) == DumpHead(m) \o (IF m.body = <<>> THEN <<>> ELSE m.body \o CrLf)

Text == [c \in Clients |->
  LET upTo[k \in 0 .. Len(Script[c])] ==
        IF k = 0 THEN <<>> ELSE upTo[k - 1] \o Dump(Script[c][k])
  IN upTo[Len(Script[c])]]
\* Where the k-th request begins.
StartOf(c, k) ==
  LET upTo[j \in 0 .. Len(Script[c])] ==
        IF j = 0 THEN 0 ELSE upTo[j - 1] + Len(Dump(Script[c][j]))
  IN upTo[k - 1]

(***************************************************************************)
(* A connection.  unsent is what is left of the answer to write, queued    *)
(* what the client has not read of the answers.  from, upto and torn are   *)
(* history: where the request being received begins, where the read ended  *)
(* that finished its head, and whether a read has ended inside one of its  *)
(* words.                                                                  *)
(***************************************************************************)
NoConn ==
  [pc |-> "idle", sent |-> 0, sends |-> 0, taken |-> 0, peer |-> "open",
   p |-> NewParser(FALSE), req |-> NoRequest, fix |-> NoFix, slt |-> "none",
   unsent |-> 0, queued |-> 0, why |-> "none", from |-> 0, upto |-> 0, torn |-> FALSE]

SessionInit == conn = [c \in Clients |-> NoConn]

Put(c, r) == conn' = [conn EXCEPT ![c] = r]
Arrived(c) == SubSeq(Text[c], conn[c].taken + 1, conn[c].sent)

\* The client's side: a piece of text, the reading of an answer, and the end of
\* the connection, which is a reset if something of an answer has not been read
\* or arrives later.  A piece that arrives while the session does not read is
\* the same as one that arrives before its next read.
Cuts == [c \in Clients |->
  {pos \in DOMAIN Text[c] : \/ pos = Len(Text[c])
                            \/ Text[c][pos] \in CutChars \/ Text[c][pos + 1] \in CutChars}]
Send(c, n) ==
  /\ conn[c].pc \in {"recv", "body"} /\ conn[c].peer = "open"
  /\ conn[c].sends < MaxSends[c]
  /\ conn[c].sent + n \in Cuts[c]
  /\ Put(c, [conn[c] EXCEPT !.sent = @ + n, !.sends = @ + 1])
PeerClose(c) ==
  /\ conn[c].pc \notin {"idle", "closed"} /\ conn[c].peer = "open"
  /\ \E how \in (IF conn[c].queued > 0 THEN {"fin", "rst"} ELSE {"fin"}) :
       Put(c, [conn[c] EXCEPT !.peer = how])
PeerResets(c) ==
  /\ conn[c].peer = "fin" /\ conn[c].queued > 0
  /\ Put(c, [conn[c] EXCEPT !.peer = "rst"])
PeerReads(c) ==
  /\ conn[c].peer = "open"
  /\ \E n \in 1 .. conn[c].queued : Put(c, [conn[c] EXCEPT !.queued = @ - n])

\* read: the bytes that arrived; 0 and -1 are returned at the end of the
\* connection and at a timeout.  A reset is reported once.
ReadEnds(c, timeout) ==
  Arrived(c) = <<>> /\ (IF timeout THEN conn[c].peer = "open" ELSE conn[c].peer # "open")
ReadError(c, timeout) == timeout \/ conn[c].peer = "rst"
AfterRead(r) == IF r.peer = "rst" THEN [r EXCEPT !.peer = "dead"] ELSE r

\* close, and what is left of the session's objects.
CloseSession(r, why) ==
  [NoConn EXCEPT !.pc = "closed", !.p = NewParser(r.p.relaxed), !.why = why,
                 !.from = r.from, !.torn = r.torn]

\* recvRequest is entered: a new parser, with a value of uri_relaxed that is
\* left over from other uses of its memory.
NewRequest(r, relaxed) ==
  [r EXCEPT !.pc = "recv", !.p = NewParser(relaxed), !.req = NoRequest, !.fix = NoFix,
            !.slt = "none", !.from = r.taken, !.upto = 0, !.torn = FALSE]

\* The rest of a body replaces its beginning.
HeadDoneFromStart(r, surplus) ==
  LET length == GetContentLength(r.p)
      r2 == [r EXCEPT !.req = r.p.req, !.p = NewParser(r.p.relaxed), !.upto = r.taken]
  IN IF length > Len(surplus)
       THEN [r2 EXCEPT !.pc = "body", !.fix = [FixStart(length, surplus) EXCEPT !.at = 0]]
     ELSE [r2 EXCEPT !.pc = "dispatch"]
\* The head has been parsed and surplus bytes of the buffer follow it.  A
\* body that the buffer holds completely is copied, but not given to the
\* request; of a longer one the rest is read.  Bytes after the body are
\* dropped with the buffer.
HeadDone(r, surplus) ==
  LET length == GetContentLength(r.p)
      req == r.p.req
      r2 == [r EXCEPT !.req = req, !.p = NewParser(r.p.relaxed), !.upto = r.taken]
  IN IF length > Len(surplus)
       THEN [r2 EXCEPT !.pc = "body", !.fix = FixStart(length, surplus)]
     ELSE [r2 EXCEPT !.pc = "dispatch"]

\* A read ended inside a word: the parser's marks are set to the beginning of
\* the next buffer, and the part of the word before it is lost.
InsideWord(c, pos) ==
  IF Text[c][pos] = SP THEN Text[c][pos - 1] = ":"
  ELSE Text[c][pos] \notin {"?", "#", "CR", "LF"}

Received(r, b, x, inside) ==
  LET r2 == [r EXCEPT !.p = x.p, !.taken = @ + Len(b)]
  IN CASE Threw(x.p) \/ HasError(x.p) -> CloseSession(r2, "parse")
       [] ~HasError(x.p) /\ Len(b) - x.n = BufSize -> CloseSession(r2, "full")
       [] ~HasError(x.p) /\ Len(b) - x.n # BufSize /\ IsFinished(x.p) ->
            HeadDone(r2, SubSeq(b, x.n + 1, Len(b)))
       [] OTHER -> [r2 EXCEPT !.torn = @ \/ inside]

\* One round of recvRequest's loop.
RecvHead(c) ==
  LET r == conn[c]
      size == IF r.sent - r.taken < BufSize THEN r.sent - r.taken ELSE BufSize
  IN /\ r.pc = "recv" /\ size > 0
     /\ \E b \in {SubSeq(Text[c], r.taken + 1, r.taken + size)} :
        \E x \in {Execute(r.p, b)} :
          Put(c, Received(r, b, x, InsideWord(c, r.taken + size)))
\* Only a negative result of read is an end.
RecvHeadFails(c, timeout) ==
  /\ conn[c].pc = "recv" /\ ReadEnds(c, timeout) /\ ReadError(c, timeout)
  /\ Put(c, CloseSession(conn[c], "timeout"))
RecvHeadEnds(c, timeout) ==
  /\ conn[c].pc = "recv" /\ ReadEnds(c, timeout)
  /\ Put(c, CloseSession(conn[c], IF timeout THEN "timeout" ELSE "eof"))

\* readFixSize for the rest of the body.
RecvBody(c) ==
  LET r == conn[c]
      n == IF r.sent - r.taken < r.fix.left THEN r.sent - r.taken ELSE r.fix.left
      f == FixRead(r.fix, SubSeq(Text[c], r.taken + 1, r.taken + n))
  IN /\ r.pc = "body" /\ n > 0
     /\ Put(c, [r EXCEPT !.taken = @ + n, !.fix = f, !.pc = IF f.left = 0 THEN "dispatch" ELSE @])
RecvBodyEnds(c, timeout) ==
  /\ conn[c].pc = "body" /\ ReadEnds(c, timeout)
  /\ IF ReadError(c, timeout)
       THEN conn[c].fix.late < MaxLate /\ Put(c, [AfterRead(conn[c]) EXCEPT !.fix = FixError(@)])
     ELSE Put(c, CloseSession(conn[c], "eof"))

\* sendResponse gives the answer to writeFixSize, which calls send until all of
\* it has been written.  send takes what there is room for, and waits in do_io
\* while there is none: nobody sets a send timeout.
BeginAnswer(r, slt) == [r EXCEPT !.pc = "send", !.slt = slt, !.unsent = AnswerPieces]
SendTo(r, n) == [r EXCEPT !.unsent = @ - n, !.queued = @ + n]
NoRoom(r) == r.queued = SendRoom
=============================================================================
