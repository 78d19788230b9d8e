--------------------------- MODULE HttpConnection ---------------------------
(***************************************************************************)
(* The HTTP client: HttpConnection::recvResponse and the pool of kept      *)
(* connections.  A caller is a fiber in HttpConnectionPool::doRequest, or  *)
(* in HttpConnection::DoGet with a connection of its own.  The peer        *)
(* answers requests in order, in pieces of any size, closes when it likes, *)
(* and puts the number of a request into the status of its answer.         *)
(***************************************************************************)
EXTENDS HttpClientParser, Uri, Stream, FiniteSets, SequencesExt

CONSTANTS
  Callers,
  Links,           \* the connections that may be opened, as 1 .. n
  Forms,           \* for every request the forms that its answer may have
  Urls,            \* the URIs whose texts are given to DoGet
  Slow,            \* the callers whose requests and answers may go in pieces
  MaxRequest,      \* m_maxRequest
  MaxCalls,        \* bound on requests
  MaxCuts,         \* bound on the answers' bytes that arrive in several pieces
  CutChars,        \* a piece ends before or after one of these characters
  BufSize,         \* http.response.buffer_size
  MaxLate,         \* bound on receive timeouts while a body is read
  RequestPieces    \* the parts in which the kernel may take a request

ASSUME ClientAssumption ==
  /\ Links \subseteq Nat \ {0} /\ IsFiniteSet(Callers) /\ MaxRequest \in Nat
  /\ RequestPieces \in Nat \ {0}

VARIABLES
  link,      \* connection objects and what the socket holds
  conns,     \* m_conns
  total,     \* m_total
  call,      \* the callers
  calls,     \* requests made so far
  down,      \* the process has ended
  cuts       \* pieces so far that were not all that was left

clientVars == <<link, conns, total, call, calls, down, cuts>>

(***************************************************************************)
(* The peer.                                                               *)
(***************************************************************************)
CrLf == <<"CR", "LF">>
DigitChar(n) == <<"0", "1", "2", "3", "4", "5", "6", "7", "8", "9">>[n + 1]
StatusLine(q) == HttpOne \o <<" ", DigitChar(q), " ", "K">> \o CrLf
\* HttpResponse::dump writes an answer with a length; one in chunks comes from
\* other servers, here with two chunks or with one that is big.
DataChars == <<"u", "v", "w", "x", "y", "z">>
Chunks(form) ==
  CASE form = "chunked" -> << <<"x">>, <<"z", "w">> >>
    [] form = "big" -> << [i \in 1 .. 21 |-> DataChars[(i % 6) + 1]] >>
BodyOf(form) == IF form = "length" THEN <<"x", " ">> ELSE FlattenSeq(Chunks(form))
SizeText(n) == IF n < 10 THEN <<DigitChar(n)>> ELSE <<DigitChar(n \div 16), DigitChar(n % 16)>>
Chunk(data) == SizeText(Len(data)) \o CrLf \o data \o CrLf
Answer(q, form) ==
  StatusLine(q) \o
  (IF form = "length"
     THEN NameOf["length"] \o <<":", " ", DigitChar(Len(BodyOf(form)))>> \o CrLf \o CrLf \o BodyOf(form)
   ELSE NameOf["chunked"] \o <<":", " ">> \o WordOf["chunked"] \o CrLf \o CrLf
        \o FlattenSeq([i \in DOMAIN Chunks(form) |-> Chunk(Chunks(form)[i])])
        \o <<"0">> \o CrLf \o CrLf)

NoLink == [obj |-> "none", open |-> FALSE, uses |-> 0, rx |-> <<>>, rest |-> <<>>,
           asked |-> <<>>, peer |-> "open", full |-> FALSE]
NoCall == [pc |-> "idle", q |-> 0, k |-> 0, pooled |-> FALSE, res |-> NoResponse, buf |-> <<>>,
           body |-> <<>>, left |-> 0, fix |-> NoFix, result |-> "none",
           form |-> "none", clean |-> FALSE, split |-> FALSE, unsent |-> RequestPieces,
           url |-> NoUri, uri |-> NoUri]

ClientInit ==
  /\ link = [k \in Links |-> NoLink]
  /\ conns = <<>> /\ total = 0
  /\ call = [c \in Callers |-> NoCall]
  /\ calls = 0 /\ down = FALSE /\ cuts = 0

SetCall(c, r) == call' = [call EXCEPT ![c] = r]
SetLink(k, l) == link' = [link EXCEPT ![k] = l]

Reading(c) == call[c].pc \in {"head", "chunk", "rest", "body"}
\* There is no room for the request.
Waits(c) == call[c].pc = "send" /\ link[call[c].k].full
\* A part of the request has been sent.
Sending(c) == call[c].pc = "send" /\ call[c].unsent < RequestPieces
PeerAnswers(k) ==
  /\ ~down /\ link[k].asked # <<>> /\ link[k].peer = "open"
  /\ \E form \in Forms[link[k].asked[1]], c \in Callers :
       /\ Reading(c) /\ call[c].q = link[k].asked[1]
       /\ SetLink(k, [link[k] EXCEPT !.rest = @ \o Answer(link[k].asked[1], form),
                                     !.asked = Tail(@)])
       /\ SetCall(c, [call[c] EXCEPT !.form = form])
  /\ UNCHANGED <<conns, total, calls, down, cuts>>
\* A piece of the answers arrives when somebody reads.
Cut(s, n) == n = Len(s) \/ s[n] \in CutChars \/ s[n + 1] \in CutChars
PeerSends(k) ==
  /\ ~down /\ link[k].open /\ link[k].rest # <<>> /\ link[k].peer = "open"
  /\ \E c \in Callers, n \in {m \in DOMAIN link[k].rest : Cut(link[k].rest, m)} :
       /\ Reading(c) /\ call[c].k = k
       /\ c \in Slow \/ n = Len(link[k].rest)
       /\ SetLink(k, [link[k] EXCEPT !.rx = @ \o SubSeq(link[k].rest, 1, n),
                                     !.rest = SubSeq(@, n + 1, Len(@))])
       /\ cuts' = IF n < Len(link[k].rest) THEN cuts + 1 ELSE cuts
  /\ cuts' <= MaxCuts
  /\ UNCHANGED <<conns, total, call, calls, down>>
\* The kernel has room for the request again.
PeerReads(k) ==
  /\ ~down /\ link[k].full /\ link[k].peer = "open"
  /\ SetLink(k, [link[k] EXCEPT !.full = FALSE])
  /\ UNCHANGED <<conns, total, call, calls, down, cuts>>
\* A connection with something that the peer has not read is reset.  (A reader
\* sees the end only after the bytes before it.)
PeerCloses(k) ==
  /\ ~down /\ link[k].open /\ link[k].peer = "open"
  /\ \A c \in Callers : Reading(c) /\ call[c].k = k => link[k].rx = <<>>
  /\ \E how \in (IF link[k].full THEN {"rst"}
                ELSE IF link[k].asked # <<>> \/ (\E c \in Callers : Sending(c) /\ call[c].k = k)
                  THEN {"fin", "rst"}
                ELSE {"fin"}) :
       SetLink(k, [link[k] EXCEPT !.peer = how, !.rest = <<>>, !.asked = <<>>])
  /\ UNCHANGED <<conns, total, call, calls, down, cuts>>

(***************************************************************************)
(* HttpConnection::DoGet and its kin: the text of a URI is parsed, and the *)
(* request has a connection of its own.  They share nothing with a pool,   *)
(* so it is enough to look at them as the first request.                   *)
(***************************************************************************)
DoGet(c) ==
  /\ ~down /\ call[c].pc = "idle" /\ calls = 0
  /\ calls' = 1
  /\ \E url \in Urls : \E u \in {Create(UriDump(url))} :
       SetCall(c, [NoCall EXCEPT !.pc = CASE u.cs = "throw" -> "done" [] u.cs = "error" -> "done" [] OTHER -> "parsed",
                                 !.result = CASE u.cs = "throw" -> "throw" [] u.cs = "error" -> "invalid" [] OTHER -> @,
                                 !.q = 1, !.url = url, !.uri = u])
  /\ UNCHANGED <<link, conns, total, down, cuts>>
\* DoRequest takes path, query, fragment, host and port from the Uri.
MakeRequest(c) ==
  /\ ~down /\ call[c].pc = "parsed"
  /\ SetCall(c, [call[c] EXCEPT !.pc = "connect", !.url = NoUri, !.uri = NoUri])
  /\ UNCHANGED <<link, conns, total, calls, down, cuts>>

(***************************************************************************)
(* The pool.                                                               *)
(***************************************************************************)
\* HttpConnectionPool::doRequest is called, not while a URI is parsed, which
\* nobody can notice.
DoRequest(c) ==
  /\ ~down /\ call[c].pc = "idle" /\ calls < MaxCalls
  /\ \A d \in Callers : call[d].url = NoUri
  /\ calls' = calls + 1
  /\ SetCall(c, [NoCall EXCEPT !.pc = "get", !.q = calls + 1, !.pooled = TRUE])
  /\ UNCHANGED <<link, conns, total, down, cuts>>

\* The connection stays in the pool.
GetConnectionKeeps(c) ==
  /\ ~down /\ call[c].pc = "get"
  /\ SetCall(c, IF conns # <<>> THEN [call[c] EXCEPT !.pc = "send", !.k = conns[1]]
                ELSE [call[c] EXCEPT !.pc = "connect"])
  /\ UNCHANGED <<link, conns, total, calls, down, cuts>>
\* getConnection: the oldest connection of the pool.  isConnected is true for
\* a closed one as well, and with m_createTime always 0 none is too young; so
\* the loop ends with the first.
GetConnection(c) ==
  /\ ~down /\ call[c].pc = "get"
  /\ IF conns # <<>>
       THEN /\ conns' = Tail(conns)
            /\ SetCall(c, [call[c] EXCEPT !.pc = "send", !.k = conns[1]])
       ELSE /\ SetCall(c, [call[c] EXCEPT !.pc = "connect"])
            /\ UNCHANGED conns
  /\ UNCHANGED <<link, total, calls, down, cuts>>

\* A new connection.
Connect(c) ==
  /\ ~down /\ call[c].pc = "connect"
  /\ \E k \in Links :
       /\ link[k].obj = "none" /\ \A j \in Links : link[j].obj = "none" => k <= j
       /\ SetLink(k, [NoLink EXCEPT !.obj = "live", !.open = TRUE])
       /\ SetCall(c, [call[c] EXCEPT !.pc = "send", !.k = k])
       /\ total' = IF call[c].pooled THEN total + 1 ELSE total
  /\ UNCHANGED <<conns, calls, down, cuts>>
\* INVALID_HOST, CONNECT_FAIL, or POOL_GET_CONNECTION.
ConnectFails(c) ==
  /\ ~down /\ call[c].pc = "connect"
  /\ SetCall(c, [call[c] EXCEPT !.pc = "done", !.result = "connect"])
  /\ UNCHANGED <<link, conns, total, calls, down, cuts>>

\* sendRequest, one round of writeFixSize.  The kernel takes a part of the
\* request; when it is not all of it there is no room, and do_io waits for it
\* without a limit.  On a socket that has been closed send(-1) fails for ever,
\* and writeFixSize tries again for ever; a connection that the peer has reset
\* raises SIGPIPE, which nobody handles.
SendRequest(c) ==
  LET r == call[c]
      k == r.k
      l == link[k]
      clean == l.rx = <<>> /\ l.rest = <<>> /\ l.asked = <<>>
  IN /\ ~down /\ r.pc = "send"
     /\ IF ~l.open
          THEN SetCall(c, [r EXCEPT !.pc = "spin"]) /\ UNCHANGED <<link, down>>
        ELSE IF l.peer = "rst"
          THEN down' = TRUE /\ UNCHANGED <<link, call>>
        ELSE /\ ~l.full
             /\ \E n \in (IF c \in Slow THEN 1 .. r.unsent ELSE {r.unsent}) :
                  IF n < r.unsent
                    THEN /\ SetLink(k, IF l.peer = "fin" THEN [l EXCEPT !.peer = "rst"]
                                       ELSE [l EXCEPT !.full = TRUE])
                         /\ SetCall(c, [r EXCEPT !.unsent = @ - n])
                  ELSE /\ SetLink(k, IF l.peer = "fin" THEN [l EXCEPT !.peer = "rst"]
                                     ELSE [l EXCEPT !.asked = Append(@, r.q)])
                       /\ SetCall(c, [r EXCEPT !.pc = "head", !.clean = clean, !.unsent = 0])
             /\ UNCHANGED down
     /\ UNCHANGED <<conns, total, calls, cuts>>

\* doRequest returns.  ReleasePtr deletes a connection that has served more
\* than m_maxRequest requests, any other goes back to the pool; a connection
\* of HttpConnection::DoGet is deleted in any case.
Finish(c) ==
  LET k == call[c].k
      uses == link[k].uses + 1
  IN /\ ~down /\ call[c].pc = "done"
     /\ SetCall(c, NoCall)
     /\ IF k = 0 THEN UNCHANGED <<link, conns, total>>
        ELSE IF ~call[c].pooled \/ uses > MaxRequest
          THEN /\ SetLink(k, NoLink)
               /\ total' = IF call[c].pooled THEN total - 1 ELSE total
               /\ UNCHANGED conns
        ELSE /\ SetLink(k, [link[k] EXCEPT !.uses = uses])
             /\ conns' = Append(conns, k)
             /\ UNCHANGED total
     /\ UNCHANGED <<calls, down, cuts>>

(***************************************************************************)
(* recvResponse.                                                           *)
(***************************************************************************)
Returned(r, result) ==
  [r EXCEPT !.pc = "done", !.result = result, !.buf = <<>>, !.left = 0, !.fix = NoFix]
\* close() and nullptr, which the callers report as TIMEOUT.
Broken(r) == Returned([r EXCEPT !.res = NoResponse, !.body = <<>>, !.form = "none"], "timeout")

\* What the socket gives to a read of at most n bytes.
Taken(c, n) == LET rx == link[call[c].k].rx IN SubSeq(rx, 1, IF Len(rx) < n THEN Len(rx) ELSE n)
\* The step of a caller that reads the bytes b and then is in the state r; it
\* closes the connection when it gives up.
ReadStep(c, b, r) ==
  LET k == call[c].k
  IN /\ SetCall(c, r)
     /\ SetLink(k, [link[k] EXCEPT !.rx = SubSeq(@, Len(b) + 1, Len(@)), !.open = r.result # "timeout"])
     /\ UNCHANGED <<conns, total, calls, down, cuts>>

\* getContentLength: the header's digits, 0 if there are none.
ResponseLength(res) ==
  LET named == {i \in DOMAIN res.headers : res.headers[i][1] = NameOf["length"]}
  IN IF named = {} THEN 0
     ELSE LET v == res.headers[CHOOSE i \in named : TRUE][2]
          IN IF v # <<>> /\ \A i \in DOMAIN v : v[i] \in Digit THEN Number(v, 10) ELSE 0

\* The head has been parsed, surplus bytes of the buffer follow.  A body that
\* the buffer holds completely is not given to the response.
ResponseHead(r, p, surplus) ==
  LET length == ResponseLength(p.res)
      r2 == [r EXCEPT !.res = p.res, !.buf = surplus]
  IN CASE p.chunked -> [r2 EXCEPT !.pc = "chunk"]
       [] ~p.chunked /\ length > Len(surplus) ->
            [r2 EXCEPT !.pc = "body", !.buf = <<>>, !.fix = FixStart(length, surplus)]
       [] OTHER -> Returned(r2, "ok")

\* One round of the loop that reads the head.  The parser starts anew with
\* every piece; only the response remembers earlier ones.
ReadHead(c) ==
  LET r == call[c]
  IN /\ ~down /\ r.pc = "head" /\ link[r.k].rx # <<>>
     /\ \E b \in {Taken(c, BufSize - Len(r.buf))} :
        \E x \in {ClientExecute(r.res, r.buf \o b)} :
          LET surplus == SubSeq(r.buf \o b, x.n + 1, Len(r.buf \o b))
          IN ReadStep(c, b, CASE ClientHasError(x.p) \/ Len(surplus) = BufSize -> Broken(r)
                              [] ~ClientHasError(x.p) /\ ClientIsFinished(x.p) -> ResponseHead(r, x.p, surplus)
                              [] OTHER -> [r EXCEPT !.res = x.p.res, !.buf = surplus])

\* All that is in the buffer is appended.
ChunkBodyAppendsAll(r, p, rem) ==
  LET len == Len(rem) - 2
  IN CASE p.contentLen < 0 \/ len < 0 -> Returned(r, "throw")
       [] p.contentLen = 0 /\ len >= 0 -> [r EXCEPT !.res = p.res, !.buf = SubSeq(rem, 1, len)]
       [] OTHER -> Returned([r EXCEPT !.res = p.res, !.body = @ \o SubSeq(rem, 1, len)], "ok")
\* The header of a chunk has been parsed, rem follows it in the buffer.  Two
\* bytes less than that, for the line end behind the chunk, are its bytes.
\* append throws for a negative length.  A chunk that goes on behind the buffer
\* loses two bytes: what is read next follows them.  The loop goes on after the
\* last chunk and ends after any other.
ChunkBody(r, p, rem) ==
  LET len == Len(rem) - 2
      r2 == [r EXCEPT !.res = p.res]
  IN CASE p.contentLen < 0 \/ len < 0 -> Returned(r, "throw")
       [] p.contentLen = 0 /\ len >= 0 -> [r2 EXCEPT !.buf = SubSeq(rem, 1, len)]
       [] p.contentLen \in 1 .. len -> Returned([r2 EXCEPT !.body = @ \o SubSeq(rem, 1, p.contentLen)], "ok")
       [] OTHER ->
            [r2 EXCEPT !.pc = "rest", !.buf = <<>>, !.left = p.contentLen - len,
                       !.body = @ \o SubSeq(rem, 1, len), !.split = TRUE]
\* One round of the loop that reads the header of a chunk: it reads before it
\* looks at what is there.
ReadChunk(c) ==
  LET r == call[c]
  IN /\ ~down /\ r.pc = "chunk" /\ link[r.k].rx # <<>>
     /\ \E b \in {Taken(c, BufSize - Len(r.buf))} :
        \E x \in {ClientExecute(r.res, r.buf \o b)} :
          LET rem == SubSeq(r.buf \o b, x.n + 1, Len(r.buf \o b))
          IN ReadStep(c, b, CASE ClientHasError(x.p) \/ Len(rem) = BufSize -> Broken(r)
                              [] ~ClientHasError(x.p) /\ ClientIsFinished(x.p) -> ChunkBody(r, x.p, rem)
                              [] OTHER -> [r EXCEPT !.res = x.p.res, !.buf = rem])
\* The rest of a chunk.
ReadRest(c) ==
  LET r == call[c]
      b == Taken(c, IF r.left < BufSize THEN r.left ELSE BufSize)
      r2 == [r EXCEPT !.body = @ \o b, !.left = @ - Len(b)]
  IN /\ ~down /\ r.pc = "rest" /\ b # <<>>
     /\ ReadStep(c, b, IF r2.left = 0 THEN Returned(r2, "ok") ELSE r2)
\* A body with a length.
ReadBody(c) ==
  LET r == call[c]
      b == Taken(c, r.fix.left)
      f == FixRead(r.fix, b)
  IN /\ ~down /\ r.pc = "body" /\ b # <<>>
     /\ ReadStep(c, b, IF f.left = 0 THEN Returned([r EXCEPT !.body = f.buf], "ok") ELSE [r EXCEPT !.fix = f])

\* Without setRecvTimeout.
ReadFailsAtEnd(c) ==
  /\ ~down /\ Reading(c) /\ link[call[c].k].rx = <<>> /\ link[call[c].k].peer # "open"
  /\ ReadStep(c, <<>>, Broken(call[c]))
\* A read that returns 0 or -1: the peer has closed or nothing came in time.
\* readFixSize takes -1 for a length.
ReadFails(c) ==
  LET r == call[c]
  IN /\ ~down /\ Reading(c) /\ link[r.k].rx = <<>>
     /\ IF r.pc = "body" /\ link[r.k].peer # "fin"
          THEN r.fix.late < MaxLate /\ ReadStep(c, <<>>, [r EXCEPT !.fix = FixError(@)])
        ELSE ReadStep(c, <<>>, Broken(r))

Caller(c) ==
  \/ DoGet(c) \/ MakeRequest(c) \/ DoRequest(c)
  \/ GetConnection(c) \/ Connect(c) \/ ConnectFails(c) \/ SendRequest(c)
  \/ ReadHead(c) \/ ReadChunk(c) \/ ReadRest(c) \/ ReadBody(c) \/ ReadFails(c)
  \/ Finish(c)
Peer(k) == PeerAnswers(k) \/ PeerSends(k) \/ PeerReads(k) \/ PeerCloses(k)
Next == (\E c \in Callers : Caller(c)) \/ (\E k \in Links : Peer(k))

\* A fiber that can go on does, and its reads end (recvTimeout).
Working(c) ==
  \/ MakeRequest(c) \/ GetConnection(c) \/ ConnectFails(c) \/ SendRequest(c)
  \/ ReadHead(c) \/ ReadChunk(c) \/ ReadRest(c) \/ ReadBody(c) \/ ReadFails(c)
  \/ Finish(c)
Fairness == \A c \in Callers : WF_clientVars(Working(c))
Spec == ClientInit /\ [][Next]_clientVars /\ Fairness

(***************************************************************************)
(* Properties.                                                             *)
(***************************************************************************)
Same(u, v) ==
  /\ u.scheme = v.scheme /\ u.userinfo = v.userinfo /\ u.host = v.host
  /\ GetPort(u) = GetPort(v) /\ GetPath(u) = GetPath(v)
  /\ u.query = v.query /\ u.fragment = v.fragment
\* The part of a userinfo behind its ":" consists of digits.
LooksLikePort(s) ==
  \E i \in DOMAIN s : s[i] = ":" /\ i < Len(s) /\ \A j \in (i + 1) .. Len(s) : s[j] \in Digit
\* What Uri::dump writes Uri::Create reads back: DoGet neither refuses nor
\* changes it.  A password of digits is taken for a port first, which moves the
\* parser's mark: the name before it is lost.
UriParsesBack ==
  \A c \in Callers :
    LET r == call[c]
    IN r.url # NoUri =>
         /\ r.uri.cs = "end"
         /\ Same(r.uri, IF LooksLikePort(r.url.userinfo)
                          THEN [r.url EXCEPT !.userinfo = SelectSeq(@, LAMBDA x : x \in Digit)] ELSE r.url)

\* The answer that recvResponse returns on a connection on which nothing was
\* left is the answer to this request, and its body has no byte that the peer
\* did not put there, in that order: a body with a length is returned whole or
\* not at all (not, when it came with the head), and nothing of the answer is
\* left for the next request of the connection; of a body in chunks the code
\* returns a beginning.  A chunk of which the buffer held only a part is not
\* looked at here, it comes without two of its bytes.
ResponseMatches ==
  \A c \in Callers :
    LET r == call[c]
        l == link[r.k]
    IN r.result = "ok" /\ r.clean =>
         /\ r.res.status = r.q
         /\ r.form = "length" =>
              r.body \in {<<>>, BodyOf(r.form)} /\ l.rx = <<>> /\ l.rest = <<>> /\ l.asked = <<>>
         /\ ~r.split => IsPrefix(r.body, BodyOf(r.form))

\* A connection is in the pool once, or with one caller; m_total counts both;
\* and none is used for more than m_maxRequest requests and one.
PoolExact ==
  LET held == {c \in Callers : call[c].k # 0}
      kept == {conns[i] : i \in DOMAIN conns}
  IN /\ Cardinality(kept) = Len(conns)
     /\ \A c \in held : call[c].k \notin kept /\ \A d \in held \ {c} : call[d].k # call[c].k
     /\ total = Len(conns) + Cardinality({c \in held : call[c].pooled})
     /\ \A k \in Links : link[k].uses <= MaxRequest

\* A request returns: every read has an end.  It does not if its connection was
\* closed when it came from the pool, if the process is gone, in the body,
\* where a read that fails is not an end, or as long as the peer leaves no room
\* for the request.
Returns ==
  \A c \in Callers :
    call[c].pc # "idle" ~> \/ call[c].pc \in {"idle", "spin"} \/ down
                           \/ call[c].fix.late = MaxLate \/ Waits(c)

\* sendRequest says with its result that the connection is closed, so a
\* request returns whatever connection the pool gives it.
EveryRequestReturns ==
  \A c \in Callers :
    call[c].pc # "idle" ~> call[c].pc = "idle" \/ down \/ call[c].fix.late = MaxLate \/ Waits(c)
=============================================================================
