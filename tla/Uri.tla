-------------------------------- MODULE Uri --------------------------------
(***************************************************************************)
(* Uri::Create (uri.rl, uri.rl.cpp): the Ragel machine that splits a URI,  *)
(* as a step per character over named states, with the embedded actions.   *)
(* u.mark is the index of the character the pointer mark points to, 0 for  *)
(* NULL; the end of the string is read as the character "EOF".             *)
(***************************************************************************)
EXTENDS UriGrammar

\* "2 [0-4] digit" of dec_octet is the byte 2 for Ragel, so 200..249 are
\* octets of no address.
UriOctets ==
  {<<d>> : d \in Digit} \cup {<<d, e>> : d \in Digit \ {"0"}, e \in Digit}
  \cup {<<"1", d, e>> : d, e \in Digit}
  \cup {<<"2", "5", d>> : d \in {"0", "1", "2", "3", "4", "5"}}

\* k groups "h16:" one after the other.
Groups(k) == [i \in 1 .. (2 * k) |-> IF i % 2 = 1 THEN "h16" ELSE ":"]

\* What may follow n groups and "::".  The repetitions before a "::" are
\* exact, {1} to {6}, so together with it an address has eight groups unless
\* nothing precedes the "::".
UriTails ==
  [n \in 0 .. 7 |->
     UNION {IF k >= 2 THEN WithLs32(Groups(k - 2)) ELSE IF k = 1 THEN {<<"h16">>} ELSE {<<>>} :
              k \in IF n = 0 THEN 0 .. 7 ELSE {7 - n}}]
UriLiteral == [octets |-> UriOctets, plain |-> WithLs32(Groups(6)), tails |-> UriTails, many |-> FALSE]

NoUri == [cs |-> "start", abs |-> FALSE, mark |-> 0, back |-> "start", lit |-> LiteralStart(UriLiteral),
          scheme |-> <<>>, userinfo |-> <<>>, host |-> <<>>, port |-> 0, path |-> <<>>,
          query |-> <<>>, fragment |-> <<>>]

\* pchar without "%": every byte that is not ASCII is one too ("zh" here).
PChar == RegChar \cup {":", "@", "zh"}

Goto(u, s) == [u EXCEPT !.cs = s]
Fail(u) == Goto(u, "error")
\* The two hexadecimal digits after a "%", then back to the state s.
Percent(u, s) == [u EXCEPT !.cs = "pct", !.back = s]
Pct(u, c) ==
  CASE c \notin HexDigit -> Fail(u)
    [] u.cs = "pct" -> Goto(u, "pct2")
    [] OTHER -> Goto(u, u.back)

Marked(u, b, i) == SubSeq(b, u.mark, i - 1)
Digits(s) ==
  LET val[k \in 0 .. Len(s)] ==
        IF k = 0 THEN 0
        ELSE 10 * val[k - 1] + (CHOOSE v \in 0 .. 9 :
               <<"0", "1", "2", "3", "4", "5", "6", "7", "8", "9">>[v + 1] = s[k])
  IN val[Len(s)]

SaveScheme(u, b, i) == [u EXCEPT !.scheme = Marked(u, b, i), !.mark = 0]
SaveUserinfo(u, b, i) == [u EXCEPT !.userinfo = IF u.mark = 0 THEN @ ELSE Marked(u, b, i), !.mark = 0]
SaveHost(u, b, i) == [u EXCEPT !.host = IF u.mark = 0 THEN @ ELSE Marked(u, b, i)]
SavePort(u, b, i) == [u EXCEPT !.port = IF i = u.mark THEN @ ELSE Digits(Marked(u, b, i)), !.mark = 0]
SaveQuery(u, b, i) == [u EXCEPT !.query = Marked(u, b, i), !.mark = 0]
SaveFragment(u, b, i) == [u EXCEPT !.fragment = Marked(u, b, i), !.mark = 0]
\* std::string(NULL, n) throws when mark is NULL.
SavePath(u, b, i) ==
  IF u.mark = 0 THEN Goto(u, "throw")
  ELSE [u EXCEPT !.path = Marked(u, b, i), !.mark = 0]

\* Where "?", "#" and the end lead from everything before the query.
AfterPath(u, c) ==
  Goto(u, CASE c = "?" -> "query0" [] c = "#" -> "fragment0" [] c = "EOF" -> "end")
Ends == {"?", "#", "EOF"}

Start(u, i, c) ==
  CASE c \in Ends -> AfterPath(u, c)
    [] c = "/" -> Goto(u, "slash")
    [] c = "%" -> Percent(u, "noscheme")
    [] c \in Alpha -> [u EXCEPT !.cs = "scheme", !.mark = i]
    [] c \in PChar \ {":"} -> Goto(u, "noscheme")
    [] OTHER -> Fail(u)

Noscheme(u, c) ==
  CASE c \in Ends -> AfterPath(u, c)
    [] c = "/" -> Goto(u, "path")
    [] c = "%" -> Percent(u, "noscheme")
    [] c \in PChar \ {":"} -> u
    [] OTHER -> Fail(u)

SchemeState(u, b, i, c) ==
  CASE c = ":" -> [SaveScheme(u, b, i) EXCEPT !.cs = "hier", !.abs = TRUE]
    [] c \in SchemeChar -> u
    [] OTHER -> Noscheme(Goto(u, "noscheme"), c)

\* After "scheme:".
Hier(u, c) ==
  CASE c \in Ends -> AfterPath(u, c)
    [] c = "/" -> Goto(u, "slash")
    [] c = "%" -> Percent(u, "path")
    [] c \in PChar -> Goto(u, "path")
    [] OTHER -> Fail(u)

Slash(u, c) ==
  IF c = "/" THEN Goto(u, "authority") ELSE Hier(u, c)

\* A path that no action saves.
Path(u, c) ==
  CASE c \in Ends -> AfterPath(u, c)
    [] c = "%" -> Percent(u, "path")
    [] c \in PChar \cup {"/"} -> u
    [] OTHER -> Fail(u)

\* The path behind "scheme://authority".
AbsPath(u, b, i, c) ==
  CASE c \in Ends -> LET v == SavePath(u, b, i) IN IF v.cs = "throw" THEN v ELSE AfterPath(v, c)
    [] c = "%" -> Percent(u, "absPath")
    [] c \in PChar \cup {"/"} -> u
    [] OTHER -> Fail(u)

\* The end of an authority: u.mark is where the path begins, or NULL.
Leave(u, b, i, c) ==
  CASE u.abs /\ c = "/" -> Goto(u, "absPath")
    [] u.abs /\ c \in Ends -> AbsPath(u, b, i, c)
    [] c = "/" -> Goto(u, "path")
    [] c \in Ends -> AfterPath(u, c)
    [] OTHER -> Fail(u)
MarkAt(u, i) == [u EXCEPT !.mark = i]

\* reg_name, or a userinfo without ":" so far.
RegName(u, b, i, c) ==
  CASE c \in RegChar -> Goto(u, "regname")
    [] c = "%" -> Percent(u, "regname")
    [] c = ":" -> Goto(SaveHost(u, b, i), "colon")
    [] c = "@" -> Goto(SaveUserinfo(u, b, i), "host")
    [] OTHER -> Leave(MarkAt(SaveHost(u, b, i), i), b, i, c)

Authority(u, b, i, c) ==
  LET m == MarkAt(u, i)
  IN IF c = "[" THEN [m EXCEPT !.cs = "literal", !.lit = LiteralStart(UriLiteral)]
     ELSE RegName(m, b, i, c)

\* After the first ":", a password or a port may follow.
Colon(u, b, i, c) ==
  CASE c \in Digit -> [u EXCEPT !.cs = "digits", !.mark = i]
    [] c \in RegChar \cup {":"} -> Goto(u, "user")
    [] c = "%" -> Percent(u, "user")
    [] c = "@" -> Goto(SaveUserinfo(u, b, i), "host")
    [] OTHER -> Leave(SavePort(MarkAt(u, i), b, i), b, i, c)

DigitsState(u, b, i, c) ==
  CASE c \in Digit -> u
    [] c \in RegChar \cup {":"} -> Goto(u, "user")
    [] c = "%" -> Percent(u, "user")
    [] c = "@" -> Goto(SaveUserinfo(u, b, i), "host")
    [] OTHER -> Leave(MarkAt(SavePort(u, b, i), i), b, i, c)

User(u, b, i, c) ==
  CASE c \in RegChar \cup {":"} -> u
    [] c = "%" -> Percent(u, "user")
    [] c = "@" -> Goto(SaveUserinfo(u, b, i), "host")
    [] OTHER -> Fail(u)

\* The host behind "@".
HostName(u, b, i, c) ==
  CASE c \in RegChar -> Goto(u, "hostname")
    [] c = "%" -> Percent(u, "hostname")
    [] c = ":" -> Goto(SaveHost(u, b, i), "port0")
    [] OTHER -> Leave(MarkAt(SaveHost(u, b, i), i), b, i, c)

Host(u, b, i, c) ==
  LET m == MarkAt(u, i)
  IN IF c = "[" THEN [m EXCEPT !.cs = "literal", !.lit = LiteralStart(UriLiteral)]
     ELSE HostName(m, b, i, c)

LiteralState(u, c) ==
  LET l == Literal(UriLiteral, u.lit, c)
  IN CASE l.at = "bad" -> Fail(u)
       [] l.at = "closed" -> [u EXCEPT !.cs = "afterLiteral", !.lit = LiteralStart(UriLiteral)]
       [] OTHER -> [u EXCEPT !.lit = l]

AfterLiteral(u, b, i, c) ==
  IF c = ":" THEN Goto(SaveHost(u, b, i), "port0")
  ELSE Leave(MarkAt(SaveHost(u, b, i), i), b, i, c)

Port(u, b, i, c) ==
  CASE c \in Digit -> [u EXCEPT !.cs = "port", !.mark = IF u.cs = "port0" THEN i ELSE @]
    [] u.cs = "port0" -> Leave(SavePort(MarkAt(u, i), b, i), b, i, c)
    [] OTHER -> Leave(MarkAt(SavePort(u, b, i), i), b, i, c)

QueryState(u, b, i, c) ==
  LET m == IF u.cs = "query0" THEN MarkAt(u, i) ELSE u
  IN CASE c \in {"#", "EOF"} -> AfterPath(SaveQuery(m, b, i), c)
       [] c = "%" -> Percent(m, "query")
       [] c \in PChar \cup {"/", "?"} -> Goto(m, "query")
       [] OTHER -> Fail(u)

FragmentState(u, b, i, c) ==
  LET m == IF u.cs = "fragment0" THEN MarkAt(u, i) ELSE u
  IN CASE c = "EOF" -> Goto(SaveFragment(m, b, i), "end")
       [] c = "%" -> Percent(m, "fragment")
       [] c \in PChar \cup {"/", "?"} -> Goto(m, "fragment")
       [] OTHER -> Fail(u)

UriStep(u, b, i) ==
  LET c == IF i > Len(b) THEN "EOF" ELSE b[i]
  IN CASE u.cs = "start" -> Start(u, i, c)
       [] u.cs = "noscheme" -> Noscheme(u, c)
       [] u.cs = "scheme" -> SchemeState(u, b, i, c)
       [] u.cs = "hier" -> Hier(u, c)
       [] u.cs = "slash" -> Slash(u, c)
       [] u.cs = "path" -> Path(u, c)
       [] u.cs = "absPath" -> AbsPath(u, b, i, c)
       [] u.cs = "authority" -> Authority(u, b, i, c)
       [] u.cs = "regname" -> RegName(u, b, i, c)
       [] u.cs = "colon" -> Colon(u, b, i, c)
       [] u.cs = "digits" -> DigitsState(u, b, i, c)
       [] u.cs = "user" -> User(u, b, i, c)
       [] u.cs = "host" -> Host(u, b, i, c)
       [] u.cs = "hostname" -> HostName(u, b, i, c)
       [] u.cs = "literal" -> LiteralState(u, c)
       [] u.cs = "afterLiteral" -> AfterLiteral(u, b, i, c)
       [] u.cs \in {"port0", "port"} -> Port(u, b, i, c)
       [] u.cs \in {"query0", "query"} -> QueryState(u, b, i, c)
       [] u.cs \in {"fragment0", "fragment"} -> FragmentState(u, b, i, c)
       [] u.cs \in {"pct", "pct2"} -> Pct(u, c)
       [] OTHER -> u

\* Uri::Create: cs is "end" for a URI, "error" for nullptr, and "throw" when
\* an action threw.
Create(b) ==
  LET run[i \in 0 .. (Len(b) + 1)] == IF i = 0 THEN NoUri ELSE UriStep(run[i - 1], b, i)
  IN run[Len(b) + 1]

\* Whatever the scheme is.
IsUsualPort(u) == u.port \in {0, 80, 443}
\* A URI whose port is not named is one with the scheme's port.
IsDefaultPort(u) ==
  \/ u.port = 0
  \/ u.port = 80 /\ u.scheme \in {<<"h", "t", "t", "p">>, <<"w", "s">>}
  \/ u.port = 443 /\ u.scheme \in {<<"h", "t", "t", "p", "s">>, <<"w", "s", "s">>}
GetPath(u) == IF u.path = <<>> THEN <<"/">> ELSE u.path
GetPort(u) ==
  CASE u.port # 0 -> u.port
    [] u.scheme \in {<<"h", "t", "t", "p">>, <<"w", "s">>} -> 80
    [] u.scheme \in {<<"h", "t", "t", "p", "s">>, <<"w", "s", "s">>} -> 443
    [] OTHER -> 0

\* to_string of a port.
Decimal(n) ==
  LET digit(k) == <<"0", "1", "2", "3", "4", "5", "6", "7", "8", "9">>[k + 1]
      text[k \in 0 .. n] == IF k < 10 THEN <<digit(k)>> ELSE Append(text[k \div 10], digit(k % 10))
  IN text[n]
Optional(mark, s) == IF s = <<>> THEN <<>> ELSE <<mark>> \o s
\* Uri::dump.
UriDump(u) ==
  u.scheme \o <<":", "/", "/">> \o (IF u.userinfo = <<>> THEN <<>> ELSE Append(u.userinfo, "@"))
  \o u.host \o (IF IsDefaultPort(u) THEN <<>> ELSE <<":">> \o Decimal(u.port))
  \o GetPath(u) \o Optional("?", u.query) \o Optional("#", u.fragment)
=============================================================================
