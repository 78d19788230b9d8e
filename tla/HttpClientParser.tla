-------------------------- MODULE HttpClientParser --------------------------
(***************************************************************************)
(* The response parser: the Ragel machine httpclient_parser                *)
(* (httpclient_parser.rl) with the callbacks of http_parser.cpp.  It reads *)
(* the head of a response or the header of a chunk.  Three headers have    *)
(* machines of their own, with "space*" before their value, which takes    *)
(* line ends too.  Header names and their values are in lower case here,   *)
(* the machine accepts both.                                               *)
(***************************************************************************)
EXTENDS UriGrammar

CONSTANTS
  NameOf,    \* [{"close", "chunked", "length"} -> the header names]
  WordOf     \* [{"close", "chunked"} -> the words "close" and "chunked"]

Specials == {"close", "chunked", "length"}

NoResponse == [version |-> "1.1", status |-> 200, reason |-> <<>>, headers |-> <<>>]

\* httpclient_parser_init; the response belongs to the HttpResponseParser and
\* stays.
InitClient(res) ==
  [cs |-> "first", n |-> 0, kind |-> "close", name |-> <<>>,
   mark |-> 1, fieldStart |-> 1, fieldLen |-> 0,
   contentLen |-> -1, chunked |-> FALSE, chunksDone |-> FALSE, close |-> FALSE,
   error |-> 0, res |-> res]

Move(p, s) == [p EXCEPT !.cs = s]
Bad(p) == Move(p, "error")
MarkHere(p, i) == [p EXCEPT !.mark = i]
Text(p, b, i) == SubSeq(b, p.mark, i - 1)
StartsWith(s, t) == Len(t) <= Len(s) /\ SubSeq(s, 1, Len(t)) = t

TokenChar == Alpha \cup Digit \cup
  {"!", "#", "$", "%", "&", "'", "*", "+", "-", ".", "^", "_", "|", "~"}
Blank == {" ", "HT"}

DigitValue ==
  [c \in HexDigit |->
     CASE c \in {"a", "A"} -> 10 [] c \in {"b", "B"} -> 11 [] c \in {"c", "C"} -> 12
       [] c \in {"d", "D"} -> 13 [] c \in {"e", "E"} -> 14 [] c \in {"f", "F"} -> 15
       [] OTHER -> (CHOOSE v \in 0 .. 9 :
                      <<"0", "1", "2", "3", "4", "5", "6", "7", "8", "9">>[v + 1] = c)]
\* strtol and atoi on digits.
Number(s, base) ==
  LET val[k \in 0 .. Len(s)] == IF k = 0 THEN 0 ELSE base * val[k - 1] + DigitValue[s[k]]
  IN val[Len(s)]

(***************************************************************************)
(* The actions and their callbacks.                                        *)
(***************************************************************************)
HttpOne == <<"H", "T", "T", "P", "/", "1", ".", "1">>
HttpZero == <<"H", "T", "T", "P", "/", "1", ".", "0">>
OnResponseVersion(p, b, i) ==
  CASE StartsWith(HttpOne, Text(p, b, i)) -> [p EXCEPT !.res.version = "1.1"]
    [] StartsWith(HttpZero, Text(p, b, i)) -> [p EXCEPT !.res.version = "1.0"]
    [] OTHER -> [p EXCEPT !.error = 1001, !.res.version = "0"]
OnStatus(p, b, i) == [p EXCEPT !.res.status = Number(Text(p, b, i), 10)]
OnReason(p, b, i) == [p EXCEPT !.res.reason = Text(p, b, i)]
\* setHeader, unless the name is empty.  Behind an empty special value the
\* name can reach beyond what has been read; it is cut off there.
OnResponseField(p, b, i) ==
  LET last == p.fieldStart + p.fieldLen - 1
      name == SubSeq(b, p.fieldStart, IF last < Len(b) THEN last ELSE Len(b))
      other == SelectSeq(p.res.headers, LAMBDA h : h[1] # name)
  IN IF p.fieldLen = 0 THEN p
     ELSE [p EXCEPT !.res.headers = Append(other, <<name, Text(p, b, i)>>)]
ChunkSize(p, b, i) ==
  LET len == Number(Text(p, b, i), 16)
  IN [p EXCEPT !.chunked = TRUE, !.contentLen = len, !.chunksDone = len <= 0]
WriteContentLen(p, b, i) == [p EXCEPT !.contentLen = Number(Text(p, b, i), 10)]
StartField(p, i) == [p EXCEPT !.fieldStart = i, !.name = <<>>]
WriteField(p, i) == [p EXCEPT !.fieldLen = i - p.fieldStart]
HeadDone(p) == Move(p, "done")

\* LF, or CR and LF, after which the state is s.
Line(p, c, s, atCr) ==
  CASE c = "LF" -> Move(p, s)
    [] c = "CR" -> Move(p, atCr)
    [] OTHER -> Bad(p)

(***************************************************************************)
(* The header of a chunk: its size and extensions.                         *)
(***************************************************************************)
First(p, i, c) ==
  CASE c \in HexDigit -> [p EXCEPT !.cs = "size", !.mark = i]
    [] c = "H" -> [p EXCEPT !.cs = "http", !.mark = i, !.n = 1]
    [] OTHER -> Bad(p)

\* The end of a chunk header, or the next extension.
ChunkEnd(p, c) ==
  CASE c = "LF" -> HeadDone(p)
    [] c = "CR" -> Move(p, "lastLf")
    [] c = ";" -> Move(p, "ext0")
    [] OTHER -> Bad(p)
Size(p, b, i, c) ==
  IF c \in HexDigit THEN p ELSE ChunkEnd(ChunkSize(p, b, i), c)
ExtName(p, b, i, c) ==
  CASE c \in TokenChar -> IF p.cs = "ext0" THEN Move(StartField(p, i), "ext") ELSE p
    [] p.cs = "ext0" -> Bad(p)
    [] c = "=" -> Move(MarkHere(WriteField(p, i), i), "extVal0")
    [] OTHER -> ChunkEnd(OnResponseField(MarkHere(WriteField(p, i), i), b, i), c)
ExtVal(p, b, i, c) ==
  CASE c \in TokenChar -> IF p.cs = "extVal0" THEN Move(MarkHere(p, i), "extVal") ELSE p
    [] p.cs = "extVal0" -> Bad(p)
    [] OTHER -> ChunkEnd(OnResponseField(p, b, i), c)
LastLf(p, c) == IF c = "LF" THEN HeadDone(p) ELSE Bad(p)

(***************************************************************************)
(* The status line.                                                        *)
(***************************************************************************)
\* "HTTP/", then digits "." digits.
StatusVersion(p, b, i, c) ==
  CASE p.n < 5 /\ c = HttpOne[p.n + 1] -> [p EXCEPT !.n = @ + 1]
    [] p.n = 5 /\ c \in Digit -> [p EXCEPT !.n = 6]
    [] p.n = 6 /\ c \in Digit -> p
    [] p.n = 6 /\ c = "." -> [p EXCEPT !.n = 7]
    [] p.n \in {7, 8} /\ c \in Digit -> [p EXCEPT !.n = 8]
    [] p.n = 8 /\ c = " " -> Move(OnResponseVersion(p, b, i), "status0")
    [] OTHER -> Bad(p)
StatusCode(p, b, i, c) ==
  CASE c \in Digit -> IF p.cs = "status0" THEN Move(MarkHere(p, i), "status") ELSE p
    [] p.cs = "status" /\ c = " " -> Move(OnStatus(p, b, i), "reason0")
    [] OTHER -> Bad(p)
\* A reason of at least one character, which may be a CR.
Reason(p, b, i, c) ==
  CASE p.cs = "reason0" -> IF c = "LF" THEN Bad(p) ELSE Move(MarkHere(p, i), "reason")
    [] c \in {"LF", "CR"} -> Line(OnReason(p, b, i), c, "line", "lf")
    [] OTHER -> p
EndOfLine(p, c) == IF c = "LF" THEN Move(p, "line") ELSE Bad(p)

(***************************************************************************)
(* The headers.                                                            *)
(***************************************************************************)
\* The beginning of a header line, or the end of the head.
HeadLine(p, i, c) ==
  CASE c = "LF" -> HeadDone(p)
    [] c = "CR" -> Move(p, "lastLf")
    [] c \in TokenChar -> [StartField(p, i) EXCEPT !.cs = "name", !.name = <<c>>]
    [] OTHER -> Bad(p)

\* The name, and the machine of its value.
HeadName(p, i, c) ==
  CASE c = ":" -> LET special == {k \in Specials : NameOf[k] = p.name}
                  IN IF special = {} THEN Move(WriteField(p, i), "value0")
                     ELSE [WriteField(p, i) EXCEPT !.cs = "special0",
                                                   !.kind = CHOOSE k \in special : TRUE]
    [] c \in TokenChar -> [p EXCEPT !.cs = "name", !.name = Append(@, c)]
    [] OTHER -> Bad(p)

Value(p, b, i, c) ==
  LET q == IF p.cs = "value0" THEN MarkHere(p, i) ELSE p
  IN CASE c \in {"LF", "CR"} -> Line(OnResponseField(q, b, i), c, "line", "lf")
       [] p.cs = "value0" /\ c \in Blank -> q
       [] OTHER -> Move(q, "value")

\* Is c the character after n characters of the special value?
Next1(p, n, c) ==
  IF p.kind = "length" THEN c \in Digit
  ELSE n < Len(WordOf[p.kind]) /\ c = WordOf[p.kind][n + 1]
WordComplete(p) == p.kind = "length" \/ p.n = Len(WordOf[p.kind])

\* The line end behind a complete special value.  Connection: close passes a
\* value to http_field only when it is on the line of its name.
WordEnd(p, b, i, c, field) ==
  LET q == IF field \/ p.kind # "close" THEN OnResponseField(p, b, i) ELSE p
  IN CASE p.kind = "length" -> Line(WriteContentLen(q, b, i), c, "line", "lf")
       [] p.kind = "chunked" -> Line([q EXCEPT !.chunked = @ \/ c = "LF"], c, "line", "wordLf")
       [] OTHER -> Line([q EXCEPT !.close = @ \/ c = "LF"], c, "line", "wordLf")
WordLf(p, c) ==
  CASE c # "LF" -> Bad(p)
    [] p.kind = "chunked" -> [p EXCEPT !.cs = "line", !.chunked = TRUE]
    [] OTHER -> [p EXCEPT !.cs = "line", !.close = TRUE]

\* After the ":" of a special header.
Special0(p, b, i, c) ==
  LET q == MarkHere(p, i)
  IN CASE c \in {"LF", "CR"} -> Line(OnResponseField(q, b, i), c, "again", "againCr")
       [] c \in Blank -> q
       [] Next1(p, 0, c) -> [q EXCEPT !.cs = "word", !.n = 1]
       [] OTHER -> Move(q, "value")
\* The special word on the line of the name, a plain value when it differs.
Word(p, b, i, c) ==
  CASE c \in {"LF", "CR"} /\ WordComplete(p) -> WordEnd(p, b, i, c, TRUE)
    [] c \in {"LF", "CR"} -> Line(OnResponseField(p, b, i), c, "line", "lf")
    [] Next1(p, p.n, c) -> [p EXCEPT !.n = @ + 1]
    [] OTHER -> Move(p, "value")

\* The mark of a word that follows line ends: "close" has none.
WordMark(p, i) == IF p.kind = "close" THEN p ELSE MarkHere(p, i)
\* A line after an empty special value: the value may still come.  The head
\* that ends here leaves the machine in a final state that is not the first.
Again(p, i, c) ==
  CASE c = "LF" -> Move(p, "doneEmpty")
    [] c = "CR" -> Move(p, "againCr2")
    [] c \in Blank -> Move(p, "cont")
    [] Next1(p, 0, c) -> [WordMark(StartField(p, i), i) EXCEPT !.cs = "nameWord", !.n = 1, !.name = <<c>>]
    [] OTHER -> HeadLine(p, i, c)
Continued(p, i, c) ==
  CASE c = "LF" -> Move(p, CASE p.cs = "againCr" -> "again" [] p.cs = "againCr2" -> "doneEmpty" [] OTHER -> "cont")
    [] c \in Blank \cup {"CR"} -> Move(p, "cont")
    [] Next1(p, 0, c) -> [WordMark(p, i) EXCEPT !.cs = "contWord", !.n = 1]
    [] OTHER -> Bad(p)
ContWord(p, b, i, c) ==
  CASE c \in {"LF", "CR"} /\ WordComplete(p) -> WordEnd(p, b, i, c, FALSE)
    [] Next1(p, p.n, c) -> [p EXCEPT !.n = @ + 1]
    [] OTHER -> Bad(p)
\* It may be the name of the next header as well.
NameWord(p, b, i, c) ==
  CASE c \in {"LF", "CR"} /\ WordComplete(p) -> WordEnd(p, b, i, c, FALSE)
    [] Next1(p, p.n, c) -> [p EXCEPT !.n = @ + 1, !.name = Append(@, c)]
    [] OTHER -> HeadName(p, i, c)

ClientStep(p, b, i) ==
  LET c == b[i]
  IN CASE p.cs = "first" -> First(p, i, c)
       [] p.cs = "size" -> Size(p, b, i, c)
       [] p.cs \in {"ext0", "ext"} -> ExtName(p, b, i, c)
       [] p.cs \in {"extVal0", "extVal"} -> ExtVal(p, b, i, c)
       [] p.cs = "lastLf" -> LastLf(p, c)
       [] p.cs = "http" -> StatusVersion(p, b, i, c)
       [] p.cs \in {"status0", "status"} -> StatusCode(p, b, i, c)
       [] p.cs \in {"reason0", "reason"} -> Reason(p, b, i, c)
       [] p.cs = "lf" -> EndOfLine(p, c)
       [] p.cs = "line" -> HeadLine(p, i, c)
       [] p.cs = "name" -> HeadName(p, i, c)
       [] p.cs \in {"value0", "value"} -> Value(p, b, i, c)
       [] p.cs = "special0" -> Special0(p, b, i, c)
       [] p.cs = "word" -> Word(p, b, i, c)
       [] p.cs = "wordLf" -> WordLf(p, c)
       [] p.cs = "again" -> Again(p, i, c)
       [] p.cs \in {"againCr", "againCr2", "cont"} -> Continued(p, i, c)
       [] p.cs = "contWord" -> ContWord(p, b, i, c)
       [] p.cs = "nameWord" -> NameWord(p, b, i, c)

\* HttpResponseParser::execute on the buffer b, which every caller calls with
\* chunck = true: the parser starts anew.  The result is the parser and the
\* bytes taken, -1 for an empty buffer.  (The singleton has TLC evaluate
\* run[i - 1] once.)
ClientExecute(res, b) ==
  LET step(r, i) == IF r.p.cs \in {"done", "doneEmpty", "error"} THEN r
                    ELSE [p |-> ClientStep(r.p, b, i), n |-> i]
      run[i \in 0 .. Len(b)] ==
        IF i = 0 THEN [p |-> InitClient(res), n |-> 0]
        ELSE CHOOSE x \in {step(r, i) : r \in {run[i - 1]}} : TRUE
  IN IF b = <<>> THEN [run[0] EXCEPT !.n = -1] ELSE run[Len(b)]

ClientHasError(p) == p.error # 0 \/ p.cs = "error"
ClientIsFinished(p) == p.cs = "done"
=============================================================================
