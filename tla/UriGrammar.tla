----------------------------- MODULE UriGrammar -----------------------------
(***************************************************************************)
(* The part of the RFC 3986 grammar that the two Ragel machines share:     *)
(* character classes, and the IP literals of a host.  uri.rl and           *)
(* http11_parser.rl write the alternatives of an IPv6 address differently, *)
(* so the machine takes them as a parameter.  Characters are strings of    *)
(* length one, control characters have their ASCII names.                  *)
(***************************************************************************)
EXTENDS Integers, Sequences

Lower == {"a", "b", "c", "d", "e", "f", "g", "h", "i", "j", "k", "l", "m",
          "n", "o", "p", "q", "r", "s", "t", "u", "v", "w", "x", "y", "z"}
Upper == {"A", "B", "C", "D", "E", "F", "G", "H", "I", "J", "K", "L", "M",
          "N", "O", "P", "Q", "R", "S", "T", "U", "V", "W", "X", "Y", "Z"}
Digit == {"0", "1", "2", "3", "4", "5", "6", "7", "8", "9"}
Alpha == Lower \cup Upper
HexDigit == Digit \cup {"a", "b", "c", "d", "e", "f", "A", "B", "C", "D", "E", "F"}
Unreserved == Alpha \cup Digit \cup {"-", ".", "_", "~"}
SubDelims == {"!", "$", "&", "'", "(", ")", "*", "+", ",", ";", "="}
\* more_delims, accepted when parser->uri_relaxed is not 0.
MoreDelims == {"{", "}", "^"}
RegChar == Unreserved \cup SubDelims
SchemeChar == Alpha \cup Digit \cup {"+", "-", "."}

(***************************************************************************)
(* An IP literal is read by following every alternative at once.  A        *)
(* position <<rest, w>> is the items still to come and the characters w    *)
(* read of the first of them; group counts the "h16:" groups before a "::" *)
(* and the digits of the current one.  A dialect g is the way a grammar    *)
(* writes dec_octet, the address without "::" (plain), what may follow n   *)
(* groups and "::" (tails), and whether more than 7 groups may precede it. *)
(***************************************************************************)
H16Colon == <<"h16", ":">>
Ls32 == {<<"h16", ":", "h16">>,
         <<"octet", ".", "octet", ".", "octet", ".", "octet">>}
WithLs32(items) == {items \o l : l \in Ls32}

\* Can the characters w begin the item, and are they all of it?
Begins(g, item, w) ==
  CASE item = "h16" -> Len(w) <= 4 /\ \A k \in DOMAIN w : w[k] \in HexDigit
    [] item = "octet" -> \E o \in g.octets : Len(w) <= Len(o) /\ SubSeq(o, 1, Len(w)) = w
    [] OTHER -> w \in {<<>>, <<item>>}
Fills(g, item, w) ==
  Len(w) > 0 /\ (IF item = "octet" THEN w \in g.octets ELSE Begins(g, item, w))

\* The positions that the character c leads to from <<rest, w>>.
Advance(g, rest, w, c) ==
  LET more == IF rest # <<>> /\ Begins(g, rest[1], Append(w, c))
                THEN {<<rest, Append(w, c)>>} ELSE {}
      next == IF Len(rest) > 1 /\ Fills(g, rest[1], w) /\ Begins(g, rest[2], <<c>>)
                THEN {<<Tail(rest), <<c>>>>} ELSE {}
  IN more \cup next
Complete(g, rest, w) ==
  rest = <<>> \/ (Len(rest) = 1 /\ Fills(g, rest[1], w))

LiteralStart(g) ==
  [at |-> "first", n |-> 0, d |-> 0, s |-> {<<items, <<>>>> : items \in g.plain}]

\* One character of the groups before a "::": the group that follows, if any.
Group(g, l, c) ==
  IF c \in HexDigit /\ l.d < 4 /\ (l.n < 7 \/ g.many)
    THEN [l EXCEPT !.at = "groups", !.d = @ + 1]
  ELSE IF c = ":" /\ l.d > 0
    THEN [l EXCEPT !.n = IF @ < 7 THEN @ + 1 ELSE @, !.d = 0]
  ELSE [l EXCEPT !.at = "alternatives"]

\* IP_literal after its "[": at is "closed" after "]" and "bad" when no
\* alternative is left.
Literal(g, l, c) ==
  LET s2 == UNION {Advance(g, q[1], q[2], c) : q \in l.s}
      doubleColon(n) == [l EXCEPT !.at = "alternatives",
                                  !.s = {<<items, <<>>>> : items \in g.tails[n]}]
      next == CASE l.at = "first" /\ c = "v" -> [l EXCEPT !.at = "v"]
                [] l.at = "first" /\ c = ":" -> [l EXCEPT !.at = "colon"]
                [] l.at = "colon" /\ c = ":" -> doubleColon(0)
                [] l.at = "groups" /\ c = ":" /\ l.d = 0 -> doubleColon(l.n)
                [] l.at \in {"first", "groups"} -> [Group(g, l, c) EXCEPT !.s = s2]
                [] l.at = "alternatives" -> [l EXCEPT !.s = s2]
                [] l.at \in {"v", "version"} /\ c \in HexDigit -> [l EXCEPT !.at = "version"]
                [] l.at = "version" /\ c = "." -> [l EXCEPT !.at = "future"]
                [] l.at \in {"future", "text"} /\ c \in RegChar \cup {":"} -> [l EXCEPT !.at = "text"]
                [] OTHER -> [l EXCEPT !.at = "bad"]
  IN IF c = "]" /\ (l.at = "text" \/ \E q \in l.s : Complete(g, q[1], q[2]))
       THEN [l EXCEPT !.at = "closed", !.s = {}]
     ELSE IF next.at = "alternatives" /\ next.s = {} THEN [l EXCEPT !.at = "bad", !.s = {}]
     ELSE next
=============================================================================
