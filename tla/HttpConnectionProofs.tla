------------------------ MODULE HttpConnectionProofs ------------------------
(***************************************************************************)
(* The pool of connections counts right and shares nothing, for any number *)
(* of callers, connections and requests, whatever the peers answer.        *)
(*                                                                         *)
(* A new connection must not be one that the pool or a caller has, so the  *)
(* inductive invariant adds to what PoolExact says that every connection   *)
(* with an owner is alive (LiveOK), and that a caller on its way to a      *)
(* connection has none (CallShape).  Of the parsers only this is used:     *)
(* whatever they return, recvResponse leaves the caller its connection.    *)
(***************************************************************************)
EXTENDS HttpConnection, FiniteSetTheorems, TLAPS

CallFields == DOMAIN NoCall
LinkFields == DOMAIN NoLink

\* Where a caller has no connection yet, and where recvResponse can leave it.
Unlinked == {"idle", "parsed", "get", "connect"}
Receiving == {"head", "chunk", "rest", "body", "done"}

\* What the pool has to know of a caller and of a connection.
CallShape(r) ==
  /\ DOMAIN r = CallFields
  /\ r.k \in Links \cup {0} /\ r.pooled \in BOOLEAN
  /\ r.pc \in Unlinked => r.k = 0
  /\ r.pc = "get" => r.pooled
LinkShape(l) == DOMAIN l = LinkFields /\ l.uses \in 0 .. MaxRequest
Shapes ==
  /\ DOMAIN call = Callers /\ \A c \in Callers : CallShape(call[c])
  /\ DOMAIN link = Links /\ \A k \in Links : LinkShape(link[k])
  /\ conns \in Seq(Links) /\ total \in Int

\* k is one of the elements of s.
InSeq(s, k) == \E i \in 1 .. Len(s) : s[i] = k
\* A connection in the pool or with a caller is alive.
LiveOK ==
  \A k \in Links : InSeq(conns, k) \/ (\E c \in Callers : call[c].k = k) => link[k].obj = "live"
\* Nothing is in the pool twice, or with two, or both.
InPoolOnce == \A i, j \in 1 .. Len(conns) : conns[i] = conns[j] => i = j
HeldOnce ==
  \A c \in Callers :
    call[c].k # 0 => ~InSeq(conns, call[c].k) /\ \A d \in Callers \ {c} : call[d].k # call[c].k
\* m_total counts the pool and the callers that got theirs through it.
Counted == {c \in Callers : call[c].k # 0 /\ call[c].pooled}
TotalOK == total = Len(conns) + Cardinality(Counted)

\* The inductive invariant.
Inv == Shapes /\ LiveOK /\ InPoolOnce /\ HeldOnce /\ TotalOK
-----------------------------------------------------------------------------
\* The fields of the two records.
LEMMA Fields ==
  /\ CallFields = {"pc", "q", "k", "pooled", "res", "buf", "body", "left", "fix", "result",
                   "form", "clean", "split", "unsent", "url", "uri"}
  /\ LinkFields = {"obj", "open", "uses", "rx", "rest", "asked", "peer", "full"}
  BY DEF CallFields, NoCall, LinkFields, NoLink

\* The caller goes on with the same connection.
Keeps(r, s) ==
  /\ DOMAIN s = CallFields /\ s.k = r.k /\ s.pooled = r.pooled
  /\ s.pc \in Receiving

\* The ways recvResponse can end or go on.
LEMMA ReturnedKeeps ==
  ASSUME NEW r, DOMAIN r = CallFields, NEW result
  PROVE  Keeps(r, Returned(r, result))
  BY Fields DEF Returned, Keeps, Receiving

\* It closes and gives nullptr.
LEMMA BrokenKeeps ==
  ASSUME NEW r, DOMAIN r = CallFields
  PROVE  Keeps(r, Broken(r))
  BY Fields DEF Broken, Returned, Keeps, Receiving

\* The head is complete, whatever the parser made of it.
LEMMA ResponseHeadKeeps ==
  ASSUME NEW r, DOMAIN r = CallFields, NEW p, NEW surplus
  PROVE  Keeps(r, ResponseHead(r, p, surplus))
  <1> DEFINE r2 == [r EXCEPT !.res = p.res, !.buf = surplus]
             length == ResponseLength(p.res)
  <1>1. DOMAIN r2 = CallFields /\ r2.k = r.k /\ r2.pooled = r.pooled BY Fields
  <1> HIDE DEF r2, length
  <1>2. Keeps(r, [r2 EXCEPT !.pc = "chunk"]) BY <1>1, Fields DEF Keeps, Receiving
  <1>3. Keeps(r, [r2 EXCEPT !.pc = "body", !.buf = <<>>, !.fix = FixStart(length, surplus)])
    BY <1>1, Fields DEF Keeps, Receiving
  <1>4. Keeps(r, Returned(r2, "ok"))
    BY <1>1, Fields DEF Returned, Keeps, Receiving
  <1> QED BY <1>2, <1>3, <1>4 DEF ResponseHead, r2, length

\* The header of a chunk is complete.
LEMMA ChunkBodyKeeps ==
  ASSUME NEW r, DOMAIN r = CallFields, r.pc = "chunk", NEW p, NEW rem
  PROVE  Keeps(r, ChunkBody(r, p, rem))
  <1> DEFINE r2 == [r EXCEPT !.res = p.res]
             len == Len(rem) - 2
  <1>1. DOMAIN r2 = CallFields /\ r2.k = r.k /\ r2.pooled = r.pooled /\ r2.pc = "chunk"
    BY Fields
  <1> HIDE DEF r2, len
  <1>2. Keeps(r, Returned(r, "throw")) BY ReturnedKeeps
  <1>3. Keeps(r, [r2 EXCEPT !.buf = SubSeq(rem, 1, len)])
    BY <1>1, Fields DEF Keeps, Receiving
  <1>4. Keeps(r, Returned([r2 EXCEPT !.body = @ \o SubSeq(rem, 1, p.contentLen)], "ok"))
    BY <1>1, Fields DEF Returned, Keeps, Receiving
  <1>5. Keeps(r, [r2 EXCEPT !.pc = "rest", !.buf = <<>>, !.left = p.contentLen - len,
                            !.body = @ \o SubSeq(rem, 1, len), !.split = TRUE])
    BY <1>1, Fields DEF Keeps, Receiving
  <1> QED BY <1>2, <1>3, <1>4, <1>5 DEF ChunkBody, r2, len

\* A step that leaves the pool and every owner as it is.
QuietCall(r, s) ==
  /\ CallShape(s) /\ s.k = r.k
  /\ r.k # 0 => s.pooled = r.pooled
QuietLink(l, m) == LinkShape(m) /\ m.obj = l.obj
Quiet ==
  /\ DOMAIN call' = Callers /\ \A c \in Callers : QuietCall(call[c], call'[c])
  /\ DOMAIN link' = Links /\ \A k \in Links : QuietLink(link[k], link'[k])
  /\ UNCHANGED <<conns, total>>

\* Such a step keeps the invariant.
LEMMA QuietStep ==
  ASSUME Inv, Quiet
  PROVE  Inv'
  <1>1. Shapes' BY DEF Quiet, QuietCall, QuietLink, Inv, Shapes
  <1>2. \A c \in Callers : call'[c].k = call[c].k BY DEF Quiet, QuietCall
  <1>3. conns' = conns /\ total' = total BY DEF Quiet
  <1>4. \A k \in Links : link'[k].obj = link[k].obj BY DEF Quiet, QuietLink
  <1>5. LiveOK' BY <1>2, <1>3, <1>4 DEF Inv, LiveOK, InSeq
  <1>6. InPoolOnce' BY <1>3 DEF Inv, InPoolOnce
  <1>7. HeldOnce' BY <1>2, <1>3 DEF Inv, HeldOnce, InSeq
  <1>8. Counted' = Counted
    <2>1. \A c \in Callers : call[c].k # 0 => call'[c].pooled = call[c].pooled
      BY DEF Quiet, QuietCall
    <2> QED BY <1>2, <2>1 DEF Counted
  <1>9. TotalOK' BY <1>3, <1>8 DEF Inv, TotalOK
  <1> QED BY <1>1, <1>5, <1>6, <1>7, <1>9 DEF Inv

\* SetCall and SetLink change one caller and one connection.
LEMMA SetCallQuiet ==
  ASSUME Inv, NEW c \in Callers, NEW r, SetCall(c, r), QuietCall(call[c], r)
  PROVE  DOMAIN call' = Callers /\ \A d \in Callers : QuietCall(call[d], call'[d])
  <1>1. DOMAIN call = Callers /\ \A d \in Callers : CallShape(call[d]) BY DEF Inv, Shapes
  <1>2. \A d \in Callers : QuietCall(call[d], call[d]) BY <1>1 DEF QuietCall
  <1>3. DOMAIN call' = Callers /\ call'[c] = r /\ \A d \in Callers : d # c => call'[d] = call[d]
    BY <1>1 DEF SetCall
  <1> QED BY <1>2, <1>3

\* The same for a connection.
LEMMA SetLinkQuiet ==
  ASSUME Inv, NEW k, NEW l, SetLink(k, l), k \in Links => QuietLink(link[k], l)
  PROVE  DOMAIN link' = Links /\ \A j \in Links : QuietLink(link[j], link'[j])
  <1>1. DOMAIN link = Links /\ \A j \in Links : LinkShape(link[j]) BY DEF Inv, Shapes
  <1>2. \A j \in Links : QuietLink(link[j], link[j]) BY <1>1 DEF QuietLink
  <1>3. DOMAIN link' = Links /\ \A j \in Links : link'[j] = IF j = k THEN l ELSE link[j]
    BY <1>1 DEF SetLink
  <1> QED BY <1>2, <1>3

\* And if nothing is set.
LEMMA SameQuiet ==
  ASSUME Inv
  PROVE  /\ UNCHANGED call =>
              DOMAIN call' = Callers /\ \A d \in Callers : QuietCall(call[d], call'[d])
         /\ UNCHANGED link =>
              DOMAIN link' = Links /\ \A j \in Links : QuietLink(link[j], link'[j])
  BY DEF Inv, Shapes, QuietCall, QuietLink

\* A read takes bytes from the socket and may close it.
LEMMA ReadStepQuiet ==
  ASSUME Inv, NEW c \in Callers, NEW b, NEW r, ReadStep(c, b, r), Keeps(call[c], r)
  PROVE  Inv'
  <1> DEFINE k == call[c].k
             l == [link[k] EXCEPT !.rx = SubSeq(@, Len(b) + 1, Len(@)),
                                  !.open = r.result # "timeout"]
  <1>1. SetCall(c, r) /\ SetLink(k, l) /\ UNCHANGED <<conns, total>> BY DEF ReadStep
  <1>2. CallShape(call[c]) /\ \A j \in Links : LinkShape(link[j]) BY DEF Inv, Shapes
  <1>3. QuietCall(call[c], r)
    BY <1>2 DEF QuietCall, CallShape, Keeps, Receiving, Unlinked
  <1>4. k \in Links => QuietLink(link[k], l)
    BY <1>2, Fields DEF QuietLink, LinkShape
  <1> HIDE DEF k, l
  <1>5. DOMAIN call' = Callers /\ \A d \in Callers : QuietCall(call[d], call'[d])
    BY <1>1, <1>3, SetCallQuiet
  <1>6. DOMAIN link' = Links /\ \A j \in Links : QuietLink(link[j], link'[j])
    BY <1>1, <1>4, SetLinkQuiet
  <1>7. Quiet BY <1>1, <1>5, <1>6 DEF Quiet
  <1> QED BY <1>7, QuietStep

\* recvResponse.
LEMMA ReaderKeeps ==
  ASSUME Inv, NEW c \in Callers,
         ReadHead(c) \/ ReadChunk(c) \/ ReadRest(c) \/ ReadBody(c) \/ ReadFails(c)
  PROVE  Inv'
  <1> DEFINE r == call[c]
  <1>0. DOMAIN r = CallFields BY DEF Inv, Shapes, CallShape
  <1>1. CASE ReadHead(c)
    <2>1. PICK b, x :
            LET surplus == SubSeq(r.buf \o b, x.n + 1, Len(r.buf \o b))
            IN ReadStep(c, b, CASE ClientHasError(x.p) \/ Len(surplus) = BufSize -> Broken(r)
                                [] ~ClientHasError(x.p) /\ ClientIsFinished(x.p) -> ResponseHead(r, x.p, surplus)
                                [] OTHER -> [r EXCEPT !.res = x.p.res, !.buf = surplus])
      BY <1>1 DEF ReadHead
    <2> DEFINE surplus == SubSeq(r.buf \o b, x.n + 1, Len(r.buf \o b))
    <2>2. Keeps(r, Broken(r)) BY <1>0, BrokenKeeps
    <2>3. Keeps(r, ResponseHead(r, x.p, surplus)) BY <1>0, ResponseHeadKeeps
    <2>4. r.pc = "head" BY <1>1 DEF ReadHead
    <2>5. Keeps(r, [r EXCEPT !.res = x.p.res, !.buf = surplus])
      BY <1>0, <2>4, Fields DEF Keeps, Receiving
    <2> HIDE DEF surplus, r
    <2>6. \E y : ReadStep(c, b, y) /\ Keeps(r, y)
      BY <2>1, <2>2, <2>3, <2>5 DEF surplus
    <2> QED BY <2>6, ReadStepQuiet DEF r
  <1>2. CASE ReadChunk(c)
    <2>1. PICK b, x :
            LET rem == SubSeq(r.buf \o b, x.n + 1, Len(r.buf \o b))
            IN ReadStep(c, b, CASE ClientHasError(x.p) \/ Len(rem) = BufSize -> Broken(r)
                                [] ~ClientHasError(x.p) /\ ClientIsFinished(x.p) -> ChunkBody(r, x.p, rem)
                                [] OTHER -> [r EXCEPT !.res = x.p.res, !.buf = rem])
      BY <1>2 DEF ReadChunk
    <2> DEFINE rem == SubSeq(r.buf \o b, x.n + 1, Len(r.buf \o b))
    <2>2. Keeps(r, Broken(r)) BY <1>0, BrokenKeeps
    <2>3. r.pc = "chunk" BY <1>2 DEF ReadChunk
    <2>4. Keeps(r, ChunkBody(r, x.p, rem)) BY <1>0, <2>3, ChunkBodyKeeps
    <2>5. Keeps(r, [r EXCEPT !.res = x.p.res, !.buf = rem])
      BY <1>0, <2>3, Fields DEF Keeps, Receiving
    <2> HIDE DEF rem, r
    <2>6. \E y : ReadStep(c, b, y) /\ Keeps(r, y)
      BY <2>1, <2>2, <2>4, <2>5 DEF rem
    <2> QED BY <2>6, ReadStepQuiet DEF r
  <1>3. CASE ReadRest(c)
    <2> DEFINE b == Taken(c, IF r.left < BufSize THEN r.left ELSE BufSize)
               r2 == [r EXCEPT !.body = @ \o b, !.left = @ - Len(b)]
    <2>1. r.pc = "rest" /\ ReadStep(c, b, IF r2.left = 0 THEN Returned(r2, "ok") ELSE r2)
      BY <1>3 DEF ReadRest
    <2> HIDE DEF b
    <2>2. Keeps(r, r2) BY <1>0, <2>1, Fields DEF Keeps, Receiving
    <2>3. Keeps(r2, Returned(r2, "ok")) BY <2>2, ReturnedKeeps DEF Keeps
    <2> HIDE DEF r2
    <2>4. Keeps(r, IF r2.left = 0 THEN Returned(r2, "ok") ELSE r2)
      BY <2>2, <2>3 DEF Keeps
    <2> QED BY <2>1, <2>4, ReadStepQuiet
  <1>4. CASE ReadBody(c)
    <2> DEFINE b == Taken(c, r.fix.left)
               f == FixRead(r.fix, b)
               r2 == [r EXCEPT !.body = f.buf]
               r3 == [r EXCEPT !.fix = f]
    <2>1. r.pc = "body" /\ ReadStep(c, b, IF f.left = 0 THEN Returned(r2, "ok") ELSE r3)
      BY <1>4 DEF ReadBody
    <2> HIDE DEF b, f
    <2>2. Keeps(r, r2) /\ Keeps(r, r3) BY <1>0, <2>1, Fields DEF Keeps, Receiving
    <2>3. Keeps(r2, Returned(r2, "ok")) BY <2>2, ReturnedKeeps DEF Keeps
    <2> HIDE DEF r2, r3
    <2>4. Keeps(r, IF f.left = 0 THEN Returned(r2, "ok") ELSE r3)
      BY <2>2, <2>3 DEF Keeps
    <2> QED BY <2>1, <2>4, ReadStepQuiet
  <1>5. CASE ReadFails(c)
    <2> DEFINE r2 == [r EXCEPT !.fix = FixError(@)]
    <2>1. (r.pc = "body" /\ ReadStep(c, <<>>, r2)) \/ ReadStep(c, <<>>, Broken(r))
      BY <1>5 DEF ReadFails
    <2>2. r.pc = "body" => Keeps(r, r2) BY <1>0, Fields DEF Keeps, Receiving
    <2>3. Keeps(r, Broken(r)) BY <1>0, BrokenKeeps
    <2> HIDE DEF r2
    <2> QED BY <2>1, <2>2, <2>3, ReadStepQuiet
  <1> QED BY <1>1, <1>2, <1>3, <1>4, <1>5

\* The peer's steps.
LEMMA PeerKeeps ==
  ASSUME Inv, NEW k \in Links, Peer(k)
  PROVE  Inv'
  <1>0. LinkShape(link[k]) /\ \A c \in Callers : CallShape(call[c]) BY DEF Inv, Shapes
  <1>1. CASE PeerAnswers(k)
    <2>1. PICK form \in Forms[link[k].asked[1]], c \in Callers :
            /\ SetLink(k, [link[k] EXCEPT !.rest = @ \o Answer(link[k].asked[1], form),
                                          !.asked = Tail(@)])
            /\ SetCall(c, [call[c] EXCEPT !.form = form])
      BY <1>1 DEF PeerAnswers
    <2>2. QuietLink(link[k], [link[k] EXCEPT !.rest = @ \o Answer(link[k].asked[1], form),
                                             !.asked = Tail(@)])
      BY <1>0, Fields DEF QuietLink, LinkShape
    <2>3. QuietCall(call[c], [call[c] EXCEPT !.form = form])
      BY <1>0, Fields DEF QuietCall, CallShape
    <2>4. DOMAIN call' = Callers /\ \A d \in Callers : QuietCall(call[d], call'[d])
      BY <2>1, <2>3, SetCallQuiet
    <2>5. DOMAIN link' = Links /\ \A j \in Links : QuietLink(link[j], link'[j])
      BY <2>1, <2>2, SetLinkQuiet
    <2>6. Quiet BY <1>1, <2>4, <2>5 DEF Quiet, PeerAnswers
    <2> QED BY <2>6, QuietStep
  <1>2. CASE PeerSends(k)
    <2>1. PICK n :
            SetLink(k, [link[k] EXCEPT !.rx = @ \o SubSeq(link[k].rest, 1, n),
                                       !.rest = SubSeq(@, n + 1, Len(@))])
      BY <1>2 DEF PeerSends
    <2>2. QuietLink(link[k], [link[k] EXCEPT !.rx = @ \o SubSeq(link[k].rest, 1, n),
                                             !.rest = SubSeq(@, n + 1, Len(@))])
      BY <1>0, Fields DEF QuietLink, LinkShape
    <2>3. DOMAIN link' = Links /\ \A j \in Links : QuietLink(link[j], link'[j])
      BY <2>1, <2>2, SetLinkQuiet
    <2>4. UNCHANGED <<call, conns, total>> BY <1>2 DEF PeerSends
    <2>5. Quiet BY <2>3, <2>4, SameQuiet DEF Quiet
    <2> QED BY <2>5, QuietStep
  <1>3. CASE PeerCloses(k)
    <2>1. PICK how : SetLink(k, [link[k] EXCEPT !.peer = how, !.rest = <<>>, !.asked = <<>>])
      BY <1>3 DEF PeerCloses
    <2>2. QuietLink(link[k], [link[k] EXCEPT !.peer = how, !.rest = <<>>, !.asked = <<>>])
      BY <1>0, Fields DEF QuietLink, LinkShape
    <2>3. DOMAIN link' = Links /\ \A j \in Links : QuietLink(link[j], link'[j])
      BY <2>1, <2>2, SetLinkQuiet
    <2>4. UNCHANGED <<call, conns, total>> BY <1>3 DEF PeerCloses
    <2>5. Quiet BY <2>3, <2>4, SameQuiet DEF Quiet
    <2> QED BY <2>5, QuietStep
  <1>4. CASE PeerReads(k)
    <2>1. SetLink(k, [link[k] EXCEPT !.full = FALSE])
      BY <1>4 DEF PeerReads
    <2>2. QuietLink(link[k], [link[k] EXCEPT !.full = FALSE])
      BY <1>0, Fields DEF QuietLink, LinkShape
    <2>3. DOMAIN link' = Links /\ \A j \in Links : QuietLink(link[j], link'[j])
      BY <2>1, <2>2, SetLinkQuiet
    <2>4. UNCHANGED <<call, conns, total>> BY <1>4 DEF PeerReads
    <2>5. Quiet BY <2>3, <2>4, SameQuiet DEF Quiet
    <2> QED BY <2>5, QuietStep
  <1> QED BY <1>1, <1>2, <1>3, <1>4 DEF Peer

\* The steps of a caller before it has a connection, and sendRequest.
LEMMA CallKeeps ==
  ASSUME Inv, NEW c \in Callers,
         \/ DoGet(c) \/ MakeRequest(c) \/ DoRequest(c) \/ ConnectFails(c) \/ SendRequest(c)
  PROVE  Inv'
  <1>0. CallShape(call[c]) /\ \A k \in Links : LinkShape(link[k]) BY DEF Inv, Shapes
  <1>1. NoCall.k = 0 /\ NoCall.pooled \in BOOLEAN /\ DOMAIN NoCall = CallFields
    BY DEF NoCall, CallFields
  <1>2. ASSUME NEW r, SetCall(c, r), QuietCall(call[c], r),
               UNCHANGED <<link, conns, total>>
        PROVE  Inv'
    <2>1. DOMAIN call' = Callers /\ \A d \in Callers : QuietCall(call[d], call'[d])
      BY <1>2, SetCallQuiet
    <2>2. Quiet BY <1>2, <2>1, SameQuiet DEF Quiet
    <2> QED BY <2>2, QuietStep
  <1>3. CASE DoGet(c)
    <2>1. PICK url, u :
       SetCall(c, [NoCall EXCEPT !.pc = CASE u.cs = "throw" -> "done" [] u.cs = "error" -> "done" [] OTHER -> "parsed",
                                 !.result = CASE u.cs = "throw" -> "throw" [] u.cs = "error" -> "invalid" [] OTHER -> @,
                                 !.q = 1, !.url = url, !.uri = u])
      BY <1>3 DEF DoGet
    <2>2. call[c].k = 0 BY <1>0, <1>3 DEF DoGet, CallShape, Unlinked
    <2>3. \A a \in {"done", "parsed"} : \A b :
            QuietCall(call[c], [NoCall EXCEPT !.pc = a, !.result = b, !.q = 1,
                                              !.url = url, !.uri = u])
      BY <1>0, <1>1, <2>2, Fields DEF QuietCall, CallShape
    <2>4. \E r : SetCall(c, r) /\ QuietCall(call[c], r) BY <2>1, <2>3
    <2> QED BY <1>2, <1>3, <2>4 DEF DoGet
  <1>4. CASE MakeRequest(c)
    <2>1. QuietCall(call[c], [call[c] EXCEPT !.pc = "connect", !.url = NoUri, !.uri = NoUri])
      BY <1>0, <1>4, Fields DEF MakeRequest, QuietCall, CallShape, Unlinked
    <2> QED BY <1>2, <1>4, <2>1 DEF MakeRequest
  <1>5. CASE DoRequest(c)
    <2>1. call[c].k = 0 BY <1>0, <1>5 DEF DoRequest, CallShape, Unlinked
    <2>2. QuietCall(call[c], [NoCall EXCEPT !.pc = "get", !.q = calls + 1, !.pooled = TRUE])
      BY <1>0, <1>1, <2>1, Fields DEF QuietCall, CallShape
    <2> QED BY <1>2, <1>5, <2>2 DEF DoRequest
  <1>6. CASE ConnectFails(c)
    <2>1. QuietCall(call[c], [call[c] EXCEPT !.pc = "done", !.result = "connect"])
      BY <1>0, <1>6, Fields DEF ConnectFails, QuietCall, CallShape, Unlinked
    <2> QED BY <1>2, <1>6, <2>1 DEF ConnectFails
  <1>7. CASE SendRequest(c)
    <2> DEFINE k == call[c].k
               l == link[k]
               reset == [l EXCEPT !.peer = "rst"]
               full == [l EXCEPT !.full = TRUE]
               asked == [l EXCEPT !.asked = Append(@, call[c].q)]
               clean == l.rx = <<>> /\ l.rest = <<>> /\ l.asked = <<>>
               spin == [call[c] EXCEPT !.pc = "spin"]
               part(n) == [call[c] EXCEPT !.unsent = @ - n]
               head == [call[c] EXCEPT !.pc = "head", !.clean = clean, !.unsent = 0]
    <2>1. \/ SetCall(c, spin) /\ UNCHANGED link
          \/ UNCHANGED <<link, call>>
          \/ \E m \in {reset, full, asked} :
               SetLink(k, m) /\ (SetCall(c, head) \/ \E n : SetCall(c, part(n)))
      BY <1>7 DEF SendRequest
    <2>2. UNCHANGED <<conns, total>> BY <1>7 DEF SendRequest
    <2>3. QuietCall(call[c], spin) /\ QuietCall(call[c], head)
      <3> HIDE DEF clean
      <3> QED BY <1>0, Fields DEF QuietCall, CallShape, Unlinked
    <2>4. \A n : QuietCall(call[c], part(n))
      BY <1>0, Fields DEF QuietCall, CallShape, Unlinked
    <2>5. \A m \in {reset, full, asked} : k \in Links => QuietLink(link[k], m)
      BY <1>0, Fields DEF QuietLink, LinkShape
    <2> HIDE DEF spin, head, part, reset, full, asked, k
    <2>6. CASE SetCall(c, spin) /\ UNCHANGED link BY <1>2, <2>2, <2>3, <2>6
    <2>7. CASE UNCHANGED <<link, call>>
      <3>1. Quiet BY <2>2, <2>7, SameQuiet DEF Quiet
      <3> QED BY <3>1, QuietStep
    <2>8. ASSUME NEW m \in {reset, full, asked}, NEW r,
                 SetLink(k, m), SetCall(c, r), QuietCall(call[c], r)
          PROVE  Inv'
      <3>1. DOMAIN call' = Callers /\ \A d \in Callers : QuietCall(call[d], call'[d])
        BY <2>8, SetCallQuiet
      <3>2. DOMAIN link' = Links /\ \A j \in Links : QuietLink(link[j], link'[j])
        BY <2>5, <2>8, SetLinkQuiet
      <3>3. Quiet BY <2>2, <3>1, <3>2 DEF Quiet
      <3> QED BY <3>3, QuietStep
    <2> QED BY <2>1, <2>3, <2>4, <2>6, <2>7, <2>8
  <1> QED BY <1>3, <1>4, <1>5, <1>6, <1>7

\* The callers are finitely many.
LEMMA CountedFinite == IsFiniteSet(Counted) /\ Cardinality(Counted) \in Nat
  <1>1. IsFiniteSet(Callers) BY ClientAssumption DEF ClientAssumption
  <1>2. IsFiniteSet(Counted) BY <1>1, FS_Subset DEF Counted
  <1> QED BY <1>2, FS_CardinalityType

\* getConnection takes the oldest connection out of the pool, or goes on to
\* make one.
LEMMA GetKeeps ==
  ASSUME Inv, NEW c \in Callers, GetConnection(c)
  PROVE  Inv'
  <1>0. Shapes /\ LiveOK /\ InPoolOnce /\ HeldOnce /\ TotalOK BY DEF Inv
  <1>1. CallShape(call[c]) /\ call[c].pc = "get" /\ UNCHANGED <<link, total>>
    BY <1>0 DEF GetConnection, Shapes
  <1>2. call[c].k = 0 BY <1>1 DEF CallShape, Unlinked
  <1>3. CASE conns = <<>>
    <2> DEFINE r == [call[c] EXCEPT !.pc = "connect"]
    <2>1. SetCall(c, r) /\ UNCHANGED conns BY <1>3 DEF GetConnection
    <2>2. QuietCall(call[c], r) BY <1>1, <1>2, Fields DEF QuietCall, CallShape
    <2>3. DOMAIN call' = Callers /\ \A d \in Callers : QuietCall(call[d], call'[d])
      BY <2>1, <2>2, SetCallQuiet
    <2>4. Quiet BY <1>1, <2>1, <2>3, SameQuiet DEF Quiet
    <2> QED BY <2>4, QuietStep
  <1>4. CASE conns # <<>>
    <2> DEFINE k == conns[1]
               r == [call[c] EXCEPT !.pc = "send", !.k = k]
    <2>1. conns' = Tail(conns) /\ SetCall(c, r) BY <1>4 DEF GetConnection
    <2>2. /\ conns' \in Seq(Links) /\ Len(conns) \in Nat /\ Len(conns') = Len(conns) - 1
          /\ 1 \in 1 .. Len(conns) /\ k \in Links
          /\ \A i \in 1 .. Len(conns') : conns'[i] = conns[i + 1] /\ i + 1 \in 1 .. Len(conns)
      BY <1>0, <1>4, <2>1 DEF Shapes
    <2>3. /\ DOMAIN call' = Callers /\ call'[c] = r
          /\ \A d \in Callers : d # c => call'[d] = call[d]
      BY <1>0, <2>1 DEF SetCall, Shapes
    <2>4. r.k = k /\ r.pooled = call[c].pooled /\ CallShape(r)
      BY <1>1, <2>2, Fields DEF CallShape, Unlinked
    <2> HIDE DEF r
    <2>5. k # 0 BY <2>2, ClientAssumption DEF ClientAssumption
    <2>6. InSeq(conns, k) BY <2>2 DEF InSeq
    <2>7. \A j : InSeq(conns', j) => InSeq(conns, j) /\ j # k
      <3>1. SUFFICES ASSUME NEW i \in 1 .. Len(conns')
                     PROVE  InSeq(conns, conns'[i]) /\ conns'[i] # k
        BY DEF InSeq
      <3>2. conns'[i] = conns[i + 1] /\ i + 1 \in 1 .. Len(conns) /\ i + 1 # 1
        BY <2>2
      <3> QED BY <1>0, <2>2, <3>2 DEF InSeq, InPoolOnce
    <2> HIDE DEF k
    <2>8. Shapes'
      BY <1>0, <1>1, <2>2, <2>3, <2>4 DEF Shapes
    <2>9. LiveOK'
      BY <1>0, <1>1, <2>3, <2>4, <2>6, <2>7 DEF LiveOK
    <2>10. InPoolOnce'
      <3>1. SUFFICES ASSUME NEW i \in 1 .. Len(conns'), NEW j \in 1 .. Len(conns'),
                            conns'[i] = conns'[j]
                     PROVE  i = j
        BY DEF InPoolOnce
      <3>2. i + 1 = j + 1 BY <1>0, <2>2, <3>1 DEF InPoolOnce
      <3> QED BY <3>2
    <2>11. HeldOnce'
      <3>1. \A d \in Callers : d # c => call[d].k # k BY <1>0, <2>5, <2>6 DEF HeldOnce
      <3>2. SUFFICES ASSUME NEW d \in Callers, call'[d].k # 0
                     PROVE  /\ ~InSeq(conns', call'[d].k)
                            /\ \A e \in Callers \ {d} : call'[e].k # call'[d].k
        BY DEF HeldOnce
      <3>3. CASE d = c BY <2>3, <2>4, <2>7, <3>1, <3>3 DEF InSeq
      <3>4. CASE d # c
        <4>1. call'[d] = call[d] /\ call[d].k # 0 BY <2>3, <3>2, <3>4
        <4>2. ~InSeq(conns, call[d].k) /\ \A e \in Callers \ {d} : call[e].k # call[d].k
          BY <1>0, <4>1 DEF HeldOnce
        <4>3. ~InSeq(conns', call[d].k) 
          BY <2>7, <4>1, <4>2 DEF InSeq
        <4> QED BY <2>3, <2>4, <3>1, <3>4, <4>1, <4>2, <4>3 DEF InSeq
      <3> QED BY <3>3, <3>4
    <2>12. TotalOK'
      <3>1. IsFiniteSet(Counted) /\ Cardinality(Counted) \in Nat BY CountedFinite
      <3>2. c \notin Counted /\ Counted' = Counted \cup {c}
        <4>1. call[c].pooled BY <1>1 DEF CallShape
        <4> QED BY <1>2, <2>3, <2>4, <2>5, <4>1 DEF Counted
      <3>3. Cardinality(Counted') = Cardinality(Counted) + 1
        BY <3>1, <3>2, FS_AddElement
      <3> QED BY <1>0, <1>1, <2>2, <3>1, <3>3 DEF TotalOK
    <2> QED BY <2>8, <2>9, <2>10, <2>11, <2>12 DEF Inv
  <1> QED BY <1>3, <1>4

\* A new connection is one that nobody has.
LEMMA ConnectKeeps ==
  ASSUME Inv, NEW c \in Callers, Connect(c)
  PROVE  Inv'
  <1>0. Shapes /\ LiveOK /\ InPoolOnce /\ HeldOnce /\ TotalOK BY DEF Inv
  <1> DEFINE l == [NoLink EXCEPT !.obj = "live", !.open = TRUE]
  <1>1. PICK k \in Links :
          /\ link[k].obj = "none" /\ SetLink(k, l)
          /\ SetCall(c, [call[c] EXCEPT !.pc = "send", !.k = k])
          /\ total' = IF call[c].pooled THEN total + 1 ELSE total
    BY DEF Connect
  <1>2. CallShape(call[c]) /\ call[c].pc = "connect" /\ UNCHANGED conns
    BY <1>0 DEF Connect, Shapes
  <1>3. call[c].k = 0 BY <1>2 DEF CallShape, Unlinked
  <1> DEFINE r == [call[c] EXCEPT !.pc = "send", !.k = k]
  <1>4. /\ DOMAIN call' = Callers /\ call'[c] = r
        /\ \A d \in Callers : d # c => call'[d] = call[d]
    BY <1>0, <1>1 DEF SetCall, Shapes
  <1>5. r.k = k /\ r.pooled = call[c].pooled /\ CallShape(r)
    BY <1>2, Fields DEF CallShape, Unlinked
  <1>6. DOMAIN link' = Links /\ link'[k] = l /\ \A j \in Links : j # k => link'[j] = link[j]
    BY <1>0, <1>1 DEF SetLink, Shapes
  <1>7. LinkShape(l) /\ l.obj = "live"
    <2>1. DOMAIN l = LinkFields /\ l.uses = 0 /\ l.obj = "live" BY DEF LinkFields, NoLink
    <2> QED BY <2>1, ClientAssumption DEF ClientAssumption, LinkShape
  <1> HIDE DEF r, l
  <1>8. k # 0 BY ClientAssumption DEF ClientAssumption
  <1>9. ~InSeq(conns, k) /\ \A d \in Callers : call[d].k # k
    BY <1>0, <1>1 DEF LiveOK
  <1>10. Shapes'
    <2>1. total' \in Int BY <1>0, <1>1 DEF Shapes
    <2> QED BY <1>0, <1>2, <1>4, <1>5, <1>6, <1>7, <2>1 DEF Shapes
  <1>11. LiveOK' BY <1>0, <1>2, <1>4, <1>5, <1>6, <1>7 DEF LiveOK
  <1>12. InPoolOnce' BY <1>0, <1>2 DEF InPoolOnce
  <1>13. HeldOnce'
    <2>1. SUFFICES ASSUME NEW d \in Callers, call'[d].k # 0
                   PROVE  /\ ~InSeq(conns, call'[d].k)
                          /\ \A e \in Callers \ {d} : call'[e].k # call'[d].k
      BY <1>2 DEF HeldOnce
    <2>2. CASE d = c BY <1>4, <1>5, <1>9, <2>2
    <2>3. CASE d # c BY <1>0, <1>4, <1>5, <1>9, <2>1, <2>3 DEF HeldOnce
    <2> QED BY <2>2, <2>3
  <1>14. TotalOK'
    <2>1. IsFiniteSet(Counted) /\ Cardinality(Counted) \in Nat BY CountedFinite
    <2>2. CASE call[c].pooled
      <3>1. c \notin Counted /\ Counted' = Counted \cup {c}
        BY <1>3, <1>4, <1>5, <1>8, <2>2 DEF Counted
      <3>2. Cardinality(Counted') = Cardinality(Counted) + 1
        BY <2>1, <3>1, FS_AddElement
      <3>3. Len(conns) \in Nat BY <1>0 DEF Shapes
      <3> QED BY <1>0, <1>1, <1>2, <2>1, <2>2, <3>2, <3>3 DEF TotalOK
    <2>3. CASE ~call[c].pooled
      <3>1. Counted' = Counted BY <1>3, <1>4, <1>5, <2>3 DEF Counted
      <3> QED BY <1>0, <1>1, <1>2, <2>3, <3>1 DEF TotalOK
    <2> QED BY <2>2, <2>3
  <1> QED BY <1>10, <1>11, <1>12, <1>13, <1>14 DEF Inv

\* ReleasePtr gives a connection back to the pool, or deletes it.
LEMMA FinishKeeps ==
  ASSUME Inv, NEW c \in Callers, Finish(c)
  PROVE  Inv'
  <1>0. Shapes /\ LiveOK /\ InPoolOnce /\ HeldOnce /\ TotalOK BY DEF Inv
  <1> DEFINE k == call[c].k
             uses == link[k].uses + 1
  <1>1. /\ DOMAIN call' = Callers /\ call'[c] = NoCall
        /\ \A d \in Callers : d # c => call'[d] = call[d]
    BY <1>0 DEF Finish, SetCall, Shapes
  <1>2. CallShape(call[c]) /\ Len(conns) \in Nat /\ conns \in Seq(Links) /\ total \in Int
    BY <1>0 DEF Shapes
  <1>3. NoCall.k = 0 /\ CallShape(NoCall)
    <2>1. NoCall.k = 0 /\ NoCall.pooled \in BOOLEAN /\ NoCall.pc = "idle" BY DEF NoCall
    <2> QED BY <2>1 DEF CallShape, CallFields
  <1>4. IsFiniteSet(Counted) /\ Cardinality(Counted) \in Nat BY CountedFinite
  <1>5. \A d \in Callers : CallShape(call'[d]) BY <1>0, <1>1, <1>3 DEF Shapes
  <1>6. CASE k = 0
    <2>1. UNCHANGED <<link, conns, total>> BY <1>6 DEF Finish
    <2>2. \A d \in Callers : QuietCall(call[d], call'[d])
      BY <1>0, <1>1, <1>3, <1>6 DEF QuietCall, Shapes
    <2>3. Quiet BY <1>1, <2>1, <2>2, SameQuiet DEF Quiet
    <2> QED BY <2>3, QuietStep
  <1>7. CASE k # 0 /\ (~call[c].pooled \/ uses > MaxRequest)
    <2>1. /\ SetLink(k, NoLink) /\ total' = (IF call[c].pooled THEN total - 1 ELSE total)
          /\ UNCHANGED conns
      BY <1>7 DEF Finish
    <2>2. k \in Links BY <1>2, <1>7 DEF CallShape
    <2>3. /\ DOMAIN link' = Links /\ link'[k] = NoLink
          /\ \A j \in Links : j # k => link'[j] = link[j]
      BY <1>0, <2>1, <2>2 DEF SetLink, Shapes
    <2>4. LinkShape(NoLink)
      <3>1. NoLink.uses = 0 BY DEF NoLink
      <3> QED BY <3>1, ClientAssumption DEF ClientAssumption, LinkShape, LinkFields
    <2>5. ~InSeq(conns, k) /\ \A d \in Callers : call'[d].k # k
      BY <1>0, <1>1, <1>3, <1>7 DEF HeldOnce
    <2> HIDE DEF k
    <2>6. Shapes'
      <3>1. total' \in Int BY <1>2, <2>1
      <3> QED BY <1>0, <1>1, <1>5, <2>1, <2>3, <2>4, <3>1 DEF Shapes
    <2>7. LiveOK'
      <3>1. ASSUME NEW j \in Links,
                   InSeq(conns, j) \/ (\E d \in Callers : call'[d].k = j)
            PROVE  link'[j].obj = "live"
        <4>1. j # k BY <2>5, <3>1
        <4>2. j # 0 BY ClientAssumption DEF ClientAssumption
        <4>3. InSeq(conns, j) \/ (\E d \in Callers : call[d].k = j)
          BY <1>1, <1>3, <3>1, <4>2
        <4> QED BY <1>0, <2>3, <4>1, <4>3 DEF LiveOK
      <3> QED BY <2>1, <3>1 DEF LiveOK
    <2>8. InPoolOnce' BY <1>0, <2>1 DEF InPoolOnce
    <2>9. HeldOnce' BY <1>0, <1>1, <1>3, <2>1 DEF HeldOnce
    <2>10. TotalOK'
      <3>1. CASE call[c].pooled
        <4>1. c \in Counted /\ Counted' = Counted \ {c}
          BY <1>1, <1>3, <1>7, <3>1 DEF Counted, k
        <4>2. Cardinality(Counted') = Cardinality(Counted) - 1
          BY <1>4, <4>1, FS_RemoveElement
        <4> QED BY <1>0, <1>2, <1>4, <2>1, <3>1, <4>2 DEF TotalOK
      <3>2. CASE ~call[c].pooled
        <4>1. Counted' = Counted BY <1>1, <1>3, <3>2 DEF Counted
        <4> QED BY <1>0, <2>1, <3>2, <4>1 DEF TotalOK
      <3> QED BY <3>1, <3>2
    <2> QED BY <2>6, <2>7, <2>8, <2>9, <2>10 DEF Inv
  <1>8. CASE k # 0 /\ ~(~call[c].pooled \/ uses > MaxRequest)
    <2> DEFINE l == [link[k] EXCEPT !.uses = uses]
    <2>1. SetLink(k, l) /\ conns' = Append(conns, k) /\ UNCHANGED total
      BY <1>8 DEF Finish
    <2>2. k \in Links BY <1>2, <1>8 DEF CallShape
    <2>3. /\ DOMAIN link' = Links /\ link'[k] = l
          /\ \A j \in Links : j # k => link'[j] = link[j]
      BY <1>0, <2>1, <2>2 DEF SetLink, Shapes
    <2>4. LinkShape(l) /\ l.obj = link[k].obj
      <3>1. LinkShape(link[k]) BY <1>0, <2>2 DEF Shapes
      <3>2. uses \in 0 .. MaxRequest
        BY <1>8, <3>1, ClientAssumption DEF ClientAssumption, LinkShape
      <3> HIDE DEF uses
      <3> QED BY <3>1, <3>2, Fields DEF LinkShape
    <2>5. /\ ~InSeq(conns, k) /\ \A d \in Callers : call'[d].k # k
          /\ link[k].obj = "live"
      BY <1>0, <1>1, <1>3, <1>8, <2>2 DEF HeldOnce, LiveOK
    <2> HIDE DEF k, l
    <2>6. /\ conns' \in Seq(Links) /\ Len(conns') = Len(conns) + 1
          /\ conns'[Len(conns) + 1] = k
          /\ \A i \in 1 .. Len(conns) : conns'[i] = conns[i]
          /\ \A i \in 1 .. Len(conns') : i \in 1 .. Len(conns) \/ i = Len(conns) + 1
      BY <1>2, <2>1, <2>2
    <2>7. \A j : InSeq(conns', j) => InSeq(conns, j) \/ j = k
      BY <2>6 DEF InSeq
    <2>8. Shapes' BY <1>0, <1>1, <1>5, <2>1, <2>3, <2>4, <2>6 DEF Shapes
    <2>9. LiveOK' BY <1>0, <1>1, <1>3, <2>3, <2>4, <2>5, <2>7, ClientAssumption
                  DEF LiveOK, ClientAssumption
    <2>10. InPoolOnce'
      <3>1. \A i \in 1 .. Len(conns) : conns[i] # k BY <2>5 DEF InSeq
      <3> QED BY <1>0, <2>6, <3>1 DEF InPoolOnce
    <2>11. HeldOnce'
      <3>1. \A d \in Callers : call'[d].k # 0 => d # c BY <1>1, <1>3
      <3>2. \A d \in Callers : call'[d].k # 0 => ~InSeq(conns', call'[d].k)
        BY <1>0, <1>1, <2>5, <2>7, <3>1 DEF HeldOnce
      <3>3. \A d \in Callers : call'[d].k # 0 =>
              \A e \in Callers \ {d} : call'[e].k # call'[d].k
        BY <1>0, <1>1, <1>3, <3>1 DEF HeldOnce
      <3> QED BY <3>2, <3>3 DEF HeldOnce
    <2>12. TotalOK'
      <3>1. c \in Counted /\ Counted' = Counted \ {c}
        BY <1>1, <1>3, <1>8 DEF Counted, k
      <3>2. Cardinality(Counted') = Cardinality(Counted) - 1
        BY <1>4, <3>1, FS_RemoveElement
      <3> QED BY <1>0, <1>2, <1>4, <2>1, <2>6, <3>2 DEF TotalOK
    <2> QED BY <2>8, <2>9, <2>10, <2>11, <2>12 DEF Inv
  <1> QED BY <1>6, <1>7, <1>8
-----------------------------------------------------------------------------
\* A new pool is empty.
LEMMA ClientInitInv == ClientInit => Inv
  <1> SUFFICES ASSUME ClientInit PROVE Inv OBVIOUS
  <1>1. /\ DOMAIN call = Callers /\ \A c \in Callers : call[c] = NoCall
        /\ DOMAIN link = Links /\ \A k \in Links : link[k] = NoLink
        /\ conns = <<>> /\ total = 0
    BY DEF ClientInit
  <1>2. NoCall.k = 0 /\ CallShape(NoCall)
    <2>1. NoCall.k = 0 /\ NoCall.pooled \in BOOLEAN /\ NoCall.pc = "idle" BY DEF NoCall
    <2> QED BY <2>1 DEF CallShape, CallFields
  <1>3. LinkShape(NoLink)
    <2>1. NoLink.uses = 0 BY DEF NoLink
    <2> QED BY <2>1, ClientAssumption DEF ClientAssumption, LinkShape, LinkFields
  <1>4. Shapes BY <1>1, <1>2, <1>3 DEF Shapes
  <1>5. ~\E k : InSeq(conns, k) BY <1>1 DEF InSeq
  <1>6. LiveOK BY <1>1, <1>2, <1>5, ClientAssumption DEF LiveOK, ClientAssumption
  <1>7. InPoolOnce BY <1>1 DEF InPoolOnce
  <1>8. HeldOnce BY <1>1, <1>2 DEF HeldOnce
  <1>9. Counted = {} BY <1>1, <1>2 DEF Counted
  <1>10. Cardinality(Counted) = 0 BY <1>9, FS_EmptySet
  <1>11. TotalOK BY <1>1, <1>10 DEF TotalOK
  <1> QED BY <1>4, <1>6, <1>7, <1>8, <1>11 DEF Inv

\* Every step keeps the invariant.
LEMMA ClientNextInv ==
  ASSUME Inv, [Next]_clientVars
  PROVE  Inv'
  <1>1. ASSUME UNCHANGED clientVars PROVE Inv'
    <2>1. Quiet BY <1>1, SameQuiet DEF clientVars, Quiet
    <2> QED BY <2>1, QuietStep
  <1>2. ASSUME NEW c \in Callers, Caller(c) PROVE Inv'
    BY <1>2, CallKeeps, GetKeeps, ConnectKeeps, ReaderKeeps, FinishKeeps DEF Caller
  <1>3. ASSUME NEW k \in Links, Peer(k) PROVE Inv' BY <1>3, PeerKeeps
  <1> QED BY <1>1, <1>2, <1>3 DEF Next

\* The invariant says what PoolExact does.
LEMMA InvIsExact == Inv => PoolExact
  <1> SUFFICES ASSUME Inv PROVE PoolExact OBVIOUS
  <1> DEFINE held == {c \in Callers : call[c].k # 0}
             kept == {conns[i] : i \in DOMAIN conns}
             n == Len(conns)
  <1>0. Shapes /\ InPoolOnce /\ HeldOnce /\ TotalOK BY DEF Inv
  <1>1. n \in Nat /\ DOMAIN conns = 1 .. n /\ conns \in Seq(Links) BY <1>0 DEF Shapes
  <1>2. Cardinality(kept) = n
    <2>1. conns \in Surjection(1 .. n, kept) BY <1>1 DEF Surjection
    <2>2. conns \in Injection(1 .. n, kept)
      BY <1>0, <1>1, <2>1 DEF InPoolOnce, Injection, IsInjective, Surjection
    <2>3. IsFiniteSet(1 .. n) /\ Cardinality(1 .. n) = n BY <1>1, FS_Interval
    <2>4. Cardinality(kept) = Cardinality(1 .. n)
      BY <2>1, <2>2, <2>3, FS_Surjection
    <2> QED BY <2>3, <2>4
  <1>3. \A c \in held : call[c].k \notin kept /\ \A d \in held \ {c} : call[d].k # call[c].k
    BY <1>0, <1>1 DEF HeldOnce, InSeq
  <1>4. {c \in held : call[c].pooled} = Counted BY DEF Counted
  <1>5. \A k \in Links : link[k].uses <= MaxRequest
    BY <1>0, ClientAssumption DEF Shapes, LinkShape, ClientAssumption
  <1> QED BY <1>0, <1>2, <1>3, <1>4, <1>5 DEF PoolExact, TotalOK

\* The invariant holds in every reachable state.
THEOREM ClientInvariant == Spec => []Inv
  <1> QED BY ClientInitInv, ClientNextInv, PTL DEF Spec

\* A connection is in the pool once or with one caller, never both, m_total
\* counts the pool's connections exactly, and none serves more than m_maxRequest
\* requests and one, in whatever order callers take, fail and give back.
THEOREM ClientPoolExact == Spec => []PoolExact
  <1> QED BY InvIsExact, ClientInvariant, PTL
=============================================================================
