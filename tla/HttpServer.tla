---------------------------- MODULE HttpServer ----------------------------
(***************************************************************************)
(* HttpServer: TcpServer whose handleClient runs an HttpSession: receive a *)
(* request, look its servlet up, let it handle the request, send the       *)
(* response, and again if the server keeps connections alive.  Worker and  *)
(* accept worker are the same IOManager, as in the constructor's defaults. *)
(***************************************************************************)
EXTENDS TcpServer, Servlet, HttpSession

VARIABLE isKeepalive    \* m_isKeepalive, given to the constructor

ASSUME ServerAssumption == Conns = DOMAIN Script

vars == <<tcpVars, servletVars, conn, isKeepalive>>

Init == TcpInit /\ ServletInit /\ SessionInit /\ isKeepalive \in BOOLEAN

\* A client connects; its connection waits to be accepted, or is reset when
\* the listening socket is closed.
Arrive(c) ==
  /\ conn[c].pc = "idle"
  /\ \E s \in Socks : Connect(c, s)
  /\ Put(c, [conn[c] EXCEPT !.pc = "accept"])
  /\ UNCHANGED <<servletVars, isKeepalive>>

\* The fiber of handleClient begins.
HandleClient(c) ==
  /\ FreeThread /\ c \in scheduled /\ conn[c].pc = "accept"
  /\ \E relaxed \in BOOLEAN : Put(c, NewRequest(conn[c], relaxed))
  /\ UNCHANGED <<tcpVars, servletVars, isKeepalive>>

\* ServletDispath::handle finds the servlet, and lets it run after the lock
\* has been released.
Dispatch(c) ==
  /\ FreeThread /\ conn[c].pc = "dispatch"
  /\ Put(c, BeginAnswer(conn[c], GetMatchedServlet(conn[c].req.path)))
  /\ UNCHANGED <<tcpVars, servletVars, isKeepalive>>

\* sendResponse, one call of send.  A write on a reset connection fails with -1,
\* which writeFixSize takes for a length and retries, and the second write is
\* answered with SIGPIPE, which nobody ignores.
AfterSend(r, relaxed) ==
  IF r.unsent > 0 THEN r
  ELSE IF isKeepalive THEN NewRequest(r, relaxed) ELSE CloseSession(r, "done")
SendResponse(c) ==
  /\ FreeThread /\ conn[c].pc = "send"
  /\ \/ /\ conn[c].peer \in {"rst", "dead"}
        /\ down' = TRUE /\ UNCHANGED conn
     \/ /\ conn[c].peer \notin {"rst", "dead"}
        /\ \E n \in 1 .. conn[c].unsent, relaxed \in BOOLEAN :
             /\ conn[c].queued + n <= SendRoom
             /\ Put(c, AfterSend(SendTo(conn[c], n), relaxed))
        /\ UNCHANGED down
  /\ UNCHANGED <<isStop, socks, made, fails, open, backlog, acceptor, tasks, closing,
                 scheduled, starts, stops, early, lost, servletVars, isKeepalive>>

\* Memory before the body has been written to: the process may be killed.
Smash(c) ==
  /\ ~down /\ conn[c].fix.smashed
  /\ down' = TRUE
  /\ UNCHANGED <<isStop, socks, made, fails, open, backlog, acceptor, tasks, closing,
                 scheduled, starts, stops, early, lost, servletVars, isKeepalive, conn>>

SessionRead(c) ==
  /\ FreeThread
  /\ RecvHead(c) \/ RecvBody(c) \/ RecvHeadEnds(c, FALSE) \/ RecvBodyEnds(c, FALSE)
  /\ UNCHANGED <<tcpVars, servletVars, isKeepalive>>
RecvTimeout(c) ==
  /\ FreeThread
  /\ RecvHeadEnds(c, TRUE) \/ RecvBodyEnds(c, TRUE)
  /\ UNCHANGED <<tcpVars, servletVars, isKeepalive>>

Client(c) ==
  /\ ~down
  /\ (\E n \in 1 .. Len(Text[c]) : Send(c, n)) \/ PeerReads(c) \/ PeerClose(c)
  /\ UNCHANGED <<tcpVars, servletVars, isKeepalive>>

\* The client's kernel answers what arrives after the end with a reset.
ClientResets(c) ==
  /\ ~down
  /\ PeerResets(c)
  /\ UNCHANGED <<tcpVars, servletVars, isKeepalive>>

Worker(c) == HandleClient(c) \/ SessionRead(c) \/ RecvTimeout(c) \/ Dispatch(c) \/ SendResponse(c)

\* Nothing but Dispatch reads the table, so that a change of it may as well be
\* made when a request is about to be looked up.
BeforeLookup == \E c \in Conns : conn[c].pc = "dispatch"

Next ==
  \/ AcceptWorker /\ UNCHANGED <<servletVars, conn, isKeepalive>>
  \/ TcpCalls /\ UNCHANGED <<servletVars, conn, isKeepalive>>
  \/ ~down /\ BeforeLookup /\ EditServlets /\ UNCHANGED <<tcpVars, conn, isKeepalive>>
  \/ \E c \in Conns : Arrive(c) \/ Client(c) \/ ClientResets(c) \/ Worker(c) \/ Smash(c)

\* The IOManager runs every fiber that is ready, its timers fire, epoll reports
\* and kernels answer; clients and callers of the server owe nothing.
Fairness ==
  /\ WF_vars(AcceptWorker /\ UNCHANGED <<servletVars, conn, isKeepalive>>)
  /\ \A c \in Conns : WF_vars(Worker(c)) /\ WF_vars(ClientResets(c))
Spec == Init /\ [][Next]_vars /\ Fairness

(***************************************************************************)
(* Properties.                                                             *)
(***************************************************************************)
\* Types of the connections and of the server's own state.
TypeOK ==
  /\ isStop \in BOOLEAN /\ down \in BOOLEAN /\ early \in BOOLEAN
  /\ socks \subseteq Socks /\ open \subseteq Socks /\ scheduled \subseteq Conns
  /\ acceptor \in [Fibers -> {"none", "queued", "loop", "accept", "wait", "woken", "done"}]
  /\ \A c \in Conns :
       /\ conn[c].pc \in {"idle", "accept", "recv", "body", "dispatch", "send", "closed"}
       /\ conn[c].taken <= conn[c].sent /\ conn[c].sent <= Len(Text[c])
       /\ conn[c].fix.left >= 0
       /\ conn[c].fix.at + conn[c].fix.left = Len(conn[c].fix.buf)

Handling(c) == conn[c].pc \in {"dispatch", "send"}
\* What the server should see of a request.
Seen(m) ==
  [method |-> m.method, path |-> m.path, query |-> m.query, fragment |-> <<>>, version |-> "1.1",
   headers |-> [h \in {Connection} \cup (IF m.body = <<>> THEN {} ELSE {ContentLength}) |->
                  IF h = Connection THEN CloseWord ELSE <<DigitOf(Len(m.body))>>]]

\* The scripts for which that is proved.  on_request_method takes the first name
\* that its token begins with; a path of two slashes is an authority; a query
\* with a question mark is two words to torn; escapes are left out.
Plain(m) ==
  /\ m.method \in Methods /\ Len(m.method) \in 1 .. 20
  /\ \A k \in DOMAIN m.method : m.method[k] \in Upper \cup Digit
  /\ \A w \in Methods : HasPrefix(m.method, w) => w = m.method
  /\ m.path # <<>> /\ m.path[1] = "/" /\ (Len(m.path) > 1 => m.path[2] # "/")
  /\ \A k \in DOMAIN m.path : m.path[k] \in RegChar \cup MoreDelims \cup {":", "@", "/"}
  /\ \A k \in DOMAIN m.query : m.query[k] \in RegChar \cup {":", "@", "/"}
PlainWords ==
  /\ Connection # ContentLength
  /\ \A w \in {Connection, ContentLength, CloseWord} :
       w # <<>> /\ \A k \in DOMAIN w : w[k] \in Alpha \cup Digit \cup {"-"}
PlainScript ==
  PlainWords /\ \A c \in Conns : \A k \in DOMAIN Script[c] : Plain(Script[c][k])

\* A servlet gets the request that the client sent, provided that recvRequest
\* began where the request begins and that no read ended inside a word: then
\* method, path, query, version and all headers are right, and the body is,
\* unless the read that finished the head had all of it (it is then empty) or
\* a read of it timed out.
HandledIsSent ==
  \A c \in Conns : \A k \in DOMAIN Script[c] :
    LET r == conn[c]
        m == Script[c][k]
        whole == StartOf(c, k) + Len(DumpHead(m)) + Len(m.body)
    IN Handling(c) /\ r.from = StartOf(c, k) /\ ~r.torn =>
         /\ r.req = Seen(m)
         /\ r.fix.late = 0 => r.fix.buf = (IF r.upto >= whole THEN <<>> ELSE m.body)

\* The server gives a connection up for a bad request only if a read ended
\* inside a word of the head, or if recvRequest did not begin at a request:
\* bytes of it were dropped with the buffer of the one before, or the CR LF
\* after a body is still there.  A path with one of more_delims is refused or
\* not as the memory of uri_relaxed happens to be.
ErrorNeedsCause ==
  \A c \in Conns :
    conn[c].why = "parse" =>
      \/ conn[c].torn
      \/ \A k \in DOMAIN Script[c] : conn[c].from # StartOf(c, k)
      \/ ~conn[c].p.relaxed /\ \E k \in DOMAIN Script[c] :
           /\ conn[c].from = StartOf(c, k)
           /\ \E i \in DOMAIN Script[c][k].path : Script[c][k].path[i] \in MoreDelims

\* The body that a servlet is given, unless a read of it timed out, has the
\* length that the request's content-length names, and its bytes are those of
\* the client's text that come right before the next byte to be read, in order:
\* nothing is lost, repeated or taken from elsewhere where the beginning that
\* came with the head meets the rest that readFixSize gets, and nothing is
\* written outside the buffer.
BodyAsSent ==
  \A c \in Conns :
    LET r == conn[c]
        n == Len(r.fix.buf)
    IN Handling(c) /\ n > 0 /\ r.fix.late = 0 =>
         /\ n = GetContentLength(r)
         /\ r.fix.buf = SubSeq(Text[c], r.taken - n + 1, r.taken)
         /\ ~r.fix.smashed

\* Every session ends, if only by a timeout, but for two kinds of clients that
\* keep their connection: one that stops in a body, since after a timeout
\* readFixSize waits again, and one that does not read its answer, since send
\* waits for room without a limit.
SessionEnds ==
  \A c \in Conns :
    (conn[c].pc \in {"recv", "body", "dispatch", "send"})
    ~> \/ conn[c].pc = "closed" \/ down \/ early
       \/ /\ conn[c].peer = "open"
          /\ \/ conn[c].pc = "body" /\ conn[c].fix.late > 0
             \/ conn[c].pc = "send" /\ NoRoom(conn[c])
=============================================================================
