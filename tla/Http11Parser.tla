---------------------------- MODULE Http11Parser ----------------------------
(***************************************************************************)
(* The request parser: the Ragel machine http_parser (http11_parser.rl)    *)
(* with the callbacks that http_parser.cpp gives it.  A call of execute    *)
(* reads one buffer; positions are indexes into that buffer, and every     *)
(* call starts with mark and field_start at the buffer's first byte.  p.cs *)
(* names the machine's state; req is the HttpRequest under construction.   *)
(***************************************************************************)
EXTENDS UriGrammar

CONSTANTS
  Methods,         \* the strings of HTTP_METHOD_MAP
  ContentLength    \* the name of the header "content-length"

SP == " "
PctSign == "%"
OpenBrace == "{"
CloseBrace == "}"

\* ("1"-"9") is a set difference for Ragel, that is "1"; "0"-"4" is "0".
Octets11 ==
  {<<d>> : d \in Digit} \cup {<<"1", d>> : d \in Digit}
  \cup {<<"1", d, e>> : d, e \in Digit} \cup {<<"2", "0", d>> : d \in Digit}
  \cup {<<"2", "5", "0">>}

\* What may follow n groups and "::"; the counts 2 to 6 of the grammar are
\* control characters for Ragel.
Tails11 ==
  LET from(n, least, items) == IF n = 0 \/ n >= least THEN items ELSE {}
  IN [n \in 0 .. 7 |->
        UNION {IF n = 0 THEN WithLs32(<<"ENQ">> \o H16Colon) ELSE {},
               IF n <= 1 THEN WithLs32(<<"EOT">> \o H16Colon) ELSE {},
               from(n, 2, WithLs32(<<"ETX">> \o H16Colon)),
               from(n, 3, WithLs32(<<"STX">> \o H16Colon)),
               from(n, 4, WithLs32(H16Colon)), from(n, 5, Ls32),
               from(n, 6, {<<"h16">>}), from(n, 7, {<<>>})}]
Literal11 == [octets |-> Octets11, plain |-> WithLs32(<<"ACK">> \o H16Colon),
              tails |-> Tails11, many |-> TRUE]

NoRequest == [method |-> <<"G", "E", "T">>, path |-> <<"/">>, query |-> <<>>, fragment |-> <<>>,
              version |-> "1.1", headers |-> <<>>]

\* HttpRequestParser(): http_parser_init leaves uri_relaxed as it was in the
\* memory that the object got.
NewParser(relaxed) ==
  [cs |-> "start", n |-> 0, back |-> "start", json |-> FALSE, lit |-> LiteralStart(Literal11),
   relaxed |-> relaxed, mark |-> 1, fieldStart |-> 1, fieldLen |-> 0, queryStart |-> 1,
   error |-> 0, req |-> NoRequest]

To(p, s) == [p EXCEPT !.cs = s]
Err(p) == To(p, "error")
At(p, i) == [p EXCEPT !.mark = i]
Token(p, b, i) == SubSeq(b, p.mark, i - 1)
HasPrefix(s, t) == Len(t) <= Len(s) /\ SubSeq(s, 1, Len(t)) = t

(***************************************************************************)
(* The callbacks.                                                          *)
(***************************************************************************)
\* CharsToHttpMethod compares as many characters as the method's name has.
OnMethod(p, b, i) ==
  LET known == {m \in Methods : HasPrefix(Token(p, b, i), m)}
  IN IF known = {} THEN [p EXCEPT !.error = 1000]
     ELSE [p EXCEPT !.req.method = CHOOSE m \in known : TRUE]
OnPath(p, b, i) == [p EXCEPT !.req.path = Token(p, b, i)]
OnFragment(p, b, i) == [p EXCEPT !.req.fragment = Token(p, b, i)]
\* query_start may be left over from an earlier buffer; a length below 0 is
\* larger than max_size() for std::string, which throws.
OnQuery(p, b, i) ==
  IF p.queryStart > i THEN [p EXCEPT !.error = 1]
  ELSE [p EXCEPT !.req.query = SubSeq(b, p.queryStart, i - 1)]
Threw(p) == p.error = 1
Http11 == <<"H", "T", "T", "P", "/", "1", ".", "1">>
Http10 == <<"H", "T", "T", "P", "/", "1", ".", "0">>
\* strncmp with the token's length: an empty token equals "HTTP/1.1".
OnVersion(p, b, i) ==
  CASE HasPrefix(Http11, Token(p, b, i)) -> [p EXCEPT !.req.version = "1.1"]
    [] ~HasPrefix(Http11, Token(p, b, i)) /\ HasPrefix(Http10, Token(p, b, i)) ->
         [p EXCEPT !.req.version = "1.0"]
    [] OTHER -> [p EXCEPT !.error = 1001, !.req.version = "0"]
\* setHeader: m_headers[key] = val.  A name of length 0 is dropped.
SetHeader(headers, key, val) ==
  [h \in DOMAIN headers \cup {key} |-> IF h = key THEN val ELSE headers[h]]
OnField(p, b, i) ==
  LET name == SubSeq(b, p.fieldStart, p.fieldStart + p.fieldLen - 1)
  IN IF p.fieldLen = 0 THEN p
     ELSE [p EXCEPT !.req.headers = SetHeader(@, name, Token(p, b, i))]

(***************************************************************************)
(* The request line.                                                       *)
(***************************************************************************)
FirstByte(p, i, c) ==
  CASE c \in Upper \cup Digit -> [p EXCEPT !.cs = "method", !.mark = i, !.n = 1]
    [] c = "<" -> [p EXCEPT !.cs = "xml0", !.mark = i]
    [] c = "@" -> [p EXCEPT !.cs = "target", !.mark = i, !.json = TRUE]
    [] OTHER -> Err(p)

\* At most 20 characters.
Method(p, b, i, c) ==
  CASE c = SP -> To(OnMethod(p, b, i), "target")
    [] c \in Upper \cup Digit /\ p.n < 20 -> [p EXCEPT !.n = @ + 1]
    [] OTHER -> Err(p)

Delim(p) == RegChar \cup (IF p.relaxed THEN MoreDelims ELSE {})
PathChar(p) == Delim(p) \cup {":", "@"}
PctTo(p, s) == [p EXCEPT !.cs = "pct", !.back = s]
PctDigit(p, c) ==
  CASE c \notin HexDigit -> Err(p)
    [] c \in HexDigit /\ p.cs = "pct" -> To(p, "pct2")
    [] OTHER -> To(p, p.back)

\* A path that no query follows.
TargetEndNoQuery(p, b, i, c) ==
  CASE c = SP /\ p.json -> To(OnPath(p, b, i), "brace")
    [] c = SP /\ ~p.json -> [OnPath(p, b, i) EXCEPT !.cs = "version", !.n = 0]
    [] OTHER -> Err(p)
\* What ends the path of a request target, and that of a JSON message.
TargetEnd(p, b, i, c) ==
  CASE c = SP /\ p.json -> To(OnPath(p, b, i), "brace")
    [] c = SP /\ ~p.json -> [OnPath(p, b, i) EXCEPT !.cs = "version", !.n = 0]
    [] c = "?" /\ ~p.json -> To(OnPath(p, b, i), "query0")
    [] c = "#" /\ ~p.json -> To(OnPath(p, b, i), "fragment0")
    [] OTHER -> Err(p)

\* A first segment without ":".
Segment(p, b, i, c) ==
  CASE c = "/" -> To(p, "path")
    [] c = PctSign -> PctTo(p, "segment")
    [] c \in PathChar(p) \ {":"} -> To(p, "segment")
    [] OTHER -> TargetEnd(p, b, i, c)

\* The first character of a request target.
Target(p, b, i, c) ==
  LET m == At(p, i)
  IN CASE c = "/" -> To(m, "slash")
       [] c \in Alpha -> To(m, "scheme")
       [] OTHER -> Segment(m, b, i, c)
\* And of what follows the "@" of a JSON message, which has the mark.
JsonTarget(p, b, i, c) ==
  IF c = "/" THEN To(p, "slash") ELSE Segment(p, b, i, c)

TargetPath(p, b, i, c) ==
  CASE c = PctSign -> PctTo(p, "path")
    [] c \in PathChar(p) \cup {"/"} -> To(p, "path")
    [] OTHER -> TargetEnd(p, b, i, c)

TargetSlash(p, b, i, c) ==
  IF c = "/" THEN To(p, "authority") ELSE TargetPath(p, b, i, c)

Scheme(p, b, i, c) ==
  CASE c = ":" -> To(p, "hier")
    [] c \in SchemeChar -> p
    [] OTHER -> Segment(p, b, i, c)

\* After "scheme:" the path is marked again.
HierPart(p, b, i, c) ==
  IF c = "/" THEN To(At(p, i), "slash") ELSE TargetPath(At(p, i), b, i, c)

InRegName(p, b, i, c) ==
  CASE c \in Delim(p) -> To(p, "regname")
    [] c = PctSign -> PctTo(p, "regname")
    [] c = "/" -> To(p, "path")
    [] c = ":" -> To(p, "colon")
    [] c = "@" -> To(p, "host")
    [] OTHER -> TargetEnd(p, b, i, c)
InAuthority(p, b, i, c) ==
  IF c = "[" THEN [p EXCEPT !.cs = "literal", !.lit = LiteralStart(Literal11)]
  ELSE InRegName(p, b, i, c)

\* A port so far, or a userinfo.
PortOrUser(p, b, i, c) ==
  CASE c \in Digit -> p
    [] c \in (Delim(p) \ Digit) \cup {":"} -> To(p, "user")
    [] c = PctSign -> PctTo(p, "user")
    [] c = "/" -> To(p, "path")
    [] c = "@" -> To(p, "host")
    [] OTHER -> TargetEnd(p, b, i, c)
Userinfo(p, c) ==
  CASE c \in Delim(p) \cup {":"} -> p
    [] c = PctSign -> PctTo(p, "user")
    [] c = "@" -> To(p, "host")
    [] OTHER -> Err(p)

InHostName(p, b, i, c) ==
  CASE c \in Delim(p) -> To(p, "hostname")
    [] c = PctSign -> PctTo(p, "hostname")
    [] c = "/" -> To(p, "path")
    [] c = ":" -> To(p, "port")
    [] OTHER -> TargetEnd(p, b, i, c)
InHost(p, b, i, c) ==
  IF c = "[" THEN [p EXCEPT !.cs = "literal", !.lit = LiteralStart(Literal11)]
  ELSE InHostName(p, b, i, c)

InLiteral(p, c) ==
  LET l == Literal(Literal11, p.lit, c)
  IN CASE l.at = "bad" -> Err(p)
       [] l.at = "closed" -> [p EXCEPT !.cs = "closed", !.lit = LiteralStart(Literal11)]
       [] OTHER -> [p EXCEPT !.lit = l]
Closed(p, b, i, c) ==
  CASE c = "/" -> To(p, "path")
    [] c = ":" -> To(p, "port")
    [] OTHER -> TargetEnd(p, b, i, c)

InPort(p, b, i, c) ==
  CASE c \in Digit -> p
    [] c = "/" -> To(p, "path")
    [] OTHER -> TargetEnd(p, b, i, c)

Query(p, b, i, c) ==
  LET q == IF p.cs = "query0" THEN [p EXCEPT !.queryStart = i] ELSE p
  IN CASE c = SP -> [OnQuery(q, b, i) EXCEPT !.cs = "version", !.n = 0]
       [] c = "#" -> To(OnQuery(q, b, i), "fragment0")
       [] c = PctSign -> PctTo(q, "query")
       [] c \in PathChar(p) \cup {"/", "?"} -> To(q, "query")
       [] OTHER -> Err(p)

Fragment(p, b, i, c) ==
  LET q == IF p.cs = "fragment0" THEN At(p, i) ELSE p
  IN CASE c = SP -> [OnFragment(q, b, i) EXCEPT !.cs = "version", !.n = 0]
       [] c = PctSign -> PctTo(q, "fragment")
       [] c \in PathChar(p) \cup {"/", "?"} -> To(q, "fragment")
       [] OTHER -> Err(p)

\* n characters of "HTTP/1.0" or "HTTP/1.1" have been read.
Version(p, b, i, c) ==
  LET q == IF p.n = 0 THEN At(p, i) ELSE p
  IN CASE p.n < 8 /\ c \in {Http11[p.n + 1], Http10[p.n + 1]} -> [q EXCEPT !.n = @ + 1]
       [] p.n = 8 /\ c = "LF" -> To(OnVersion(p, b, i), "header")
       [] p.n = 8 /\ c = "CR" -> To(OnVersion(p, b, i), "lf")
       [] OTHER -> Err(p)

(***************************************************************************)
(* The header lines.                                                       *)
(***************************************************************************)
\* Control characters except HT are members of a name, CR and LF too once it
\* has begun (the backquote, a member too, is left out).
NameChar == Alpha \cup Digit \cup
  {"!", "#", "$", "%", "&", "'", "*", "+", "-", ".", "^", "_", "|", "~",
   "STX", "ETX", "EOT", "ENQ", "ACK", "CR", "LF"}
FieldLen(p, i) == [p EXCEPT !.cs = "value0", !.fieldLen = i - p.fieldStart]
\* The end of the head: header_done does nothing.
Done(p) == To(p, "done")

HeaderLine(p, i, c) ==
  LET q == [p EXCEPT !.fieldStart = i]
  IN CASE c = "LF" -> Done(q)
       [] c = "CR" -> To(q, "cr")
       [] c \in NameChar \ {"CR", "LF"} -> To(q, "name")
       [] OTHER -> Err(p)
\* After a CR at the beginning of a line.
HeaderCr(p, i, c) ==
  CASE c = "LF" -> Done(p)
    [] c = ":" -> FieldLen(p, i)
    [] c \in NameChar \ {"LF"} -> To(p, "name")
    [] OTHER -> Err(p)
FieldName(p, i, c) ==
  CASE c = ":" -> FieldLen(p, i)
    [] c \in NameChar -> p
    [] OTHER -> Err(p)
\* Blanks before a value move the mark on.
FieldValue(p, b, i, c) ==
  LET q == IF p.cs = "value0" THEN At(p, i) ELSE p
  IN CASE c = "LF" -> To(OnField(q, b, i), "header")
       [] c = "CR" -> To(OnField(q, b, i), "lf")
       [] c \in {SP, "HT"} -> q
       [] c = "NUL" -> Err(p)
       [] OTHER -> To(q, "value")
LineFeed(p, c) == IF c = "LF" THEN To(p, "header") ELSE Err(p)

(***************************************************************************)
(* Messages of XML and JSON sockets: no method, no headers.                *)
(***************************************************************************)
XmlTag(p, b, i, c) ==
  CASE c \in Alpha \cup Digit \cup {"-", "."} -> To(p, "xmlTag")
    [] p.cs = "xmlTag" /\ c \in {SP, "HT", "LF", "CR", "/", ">"} -> To(OnPath(p, b, i), "xml")
    [] OTHER -> Err(p)
XmlData(p, c) ==
  CASE c = ">" -> To(p, "xmlEnd")
    [] p.cs = "xmlEnd" /\ c = "NUL" -> Done(p)
    [] OTHER -> To(p, "xml")
JsonBrace(p, i, c) == IF c = OpenBrace THEN To(At(p, i), "json") ELSE Err(p)
JsonData(p, c) ==
  CASE c = CloseBrace -> To(p, "jsonEnd")
    [] p.cs = "jsonEnd" /\ c = "NUL" -> Done(p)
    [] OTHER -> To(p, "json")

(***************************************************************************)
(* http_parser_execute on the buffer b.                                    *)
(***************************************************************************)
ParserStep(p, b, i) ==
  LET c == b[i]
  IN CASE p.cs = "start" -> FirstByte(p, i, c)
       [] p.cs = "method" -> Method(p, b, i, c)
       [] p.cs = "target" -> IF p.json THEN JsonTarget(p, b, i, c) ELSE Target(p, b, i, c)
       [] p.cs = "segment" -> Segment(p, b, i, c)
       [] p.cs = "path" -> TargetPath(p, b, i, c)
       [] p.cs = "slash" -> TargetSlash(p, b, i, c)
       [] p.cs = "scheme" -> Scheme(p, b, i, c)
       [] p.cs = "hier" -> HierPart(p, b, i, c)
       [] p.cs = "authority" -> InAuthority(p, b, i, c)
       [] p.cs = "regname" -> InRegName(p, b, i, c)
       [] p.cs = "colon" -> PortOrUser(p, b, i, c)
       [] p.cs = "user" -> Userinfo(p, c)
       [] p.cs = "host" -> InHost(p, b, i, c)
       [] p.cs = "hostname" -> InHostName(p, b, i, c)
       [] p.cs = "literal" -> InLiteral(p, c)
       [] p.cs = "closed" -> Closed(p, b, i, c)
       [] p.cs = "port" -> InPort(p, b, i, c)
       [] p.cs \in {"query0", "query"} -> Query(p, b, i, c)
       [] p.cs \in {"fragment0", "fragment"} -> Fragment(p, b, i, c)
       [] p.cs \in {"pct", "pct2"} -> PctDigit(p, c)
       [] p.cs = "version" -> Version(p, b, i, c)
       [] p.cs = "header" -> HeaderLine(p, i, c)
       [] p.cs = "cr" -> HeaderCr(p, i, c)
       [] p.cs = "name" -> FieldName(p, i, c)
       [] p.cs \in {"value0", "value"} -> FieldValue(p, b, i, c)
       [] p.cs = "lf" -> LineFeed(p, c)
       [] p.cs \in {"xml0", "xmlTag"} -> XmlTag(p, b, i, c)
       [] p.cs \in {"xml", "xmlEnd"} -> XmlData(p, c)
       [] p.cs = "brace" -> JsonBrace(p, i, c)
       [] p.cs \in {"json", "jsonEnd"} -> JsonData(p, c)

\* A call begins with the pointers at the buffer's first byte; one byte.
Reset(p) == [p EXCEPT !.mark = 1, !.fieldStart = 1, !.fieldLen = 0]
ExecuteByte(r, b, i) ==
  IF r.p.cs \in {"done", "error"} \/ Threw(r.p) THEN r
  ELSE [p |-> ParserStep(r.p, b, i), n |-> i]
\* The parser after a call, and how many bytes of the buffer it took.  (The
\* singleton has TLC evaluate run[i - 1] once.)
Execute(p, b) ==
  LET run[i \in 0 .. Len(b)] ==
        IF i = 0 THEN [p |-> Reset(p), n |-> 0]
        ELSE CHOOSE x \in {ExecuteByte(r, b, i) : r \in {run[i - 1]}} : TRUE
  IN run[Len(b)]

HasError(p) == p.error # 0 \/ p.cs = "error"
IsFinished(p) == p.cs = "done"

\* getHeaderAs<uint64_t>: 0 for a header that is missing or not a number.
NumberOf(s) ==
  LET val[k \in 0 .. Len(s)] ==
        IF k = 0 THEN 0
        ELSE 10 * val[k - 1] + (CHOOSE v \in 0 .. 9 :
               <<"0", "1", "2", "3", "4", "5", "6", "7", "8", "9">>[v + 1] = s[k])
  IN IF s = <<>> \/ \E k \in DOMAIN s : s[k] \notin Digit THEN 0 ELSE val[Len(s)]
GetContentLength(p) ==
  IF ContentLength \in DOMAIN p.req.headers THEN NumberOf(p.req.headers[ContentLength]) ELSE 0
=============================================================================
