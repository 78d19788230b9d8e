---------------------------- MODULE LogFormatter ----------------------------
(***************************************************************************)
(* LogFormatter::init (log.cpp): a pattern is cut into literal text and    *)
(* items "%xxx" or "%xxx{fmt}".  An item is <<0, text>> or                 *)
(* <<1, name, fmt>>.                                                       *)
(***************************************************************************)
EXTENDS Integers, Sequences, SequencesExt

CONSTANTS
  Letters,     \* the characters for which isalpha is true
  ItemNames    \* the keys of s_format_items, each a sequence of characters

\* The characters that structure a pattern.
Percent == "%"
Open    == "{"
Close   == "}"

\* isalpha holds of none of them.
ASSUME LettersAssumption == {Percent, Open, Close} \cap Letters = {}

\* The first of the positions in K, or behind the pattern.
FirstIn(K, p) == Min(K \cup {Len(p) + 1})

\* The "}" is left to the text that follows.
ItemEndBeforeClose(p, i) ==
  LET stop  == FirstIn({n \in (i + 1) .. Len(p) : p[n] \notin Letters \cup {Close}}, p)
      close == FirstIn({n \in (stop + 1) .. Len(p) : p[n] = Close}, p)
  IN IF stop <= Len(p) /\ p[stop] = Open
     THEN [n |-> close, open |-> close > Len(p)]
     ELSE [n |-> stop, open |-> FALSE]
\* The scan of the item behind the "%" at i stops at a character that is no
\* letter and no "}", or with the pattern; if this is a "{", it goes on behind
\* the next "}", and the brace stays open if there is none.
ItemEnd(p, i) ==
  LET stop  == FirstIn({n \in (i + 1) .. Len(p) : p[n] \notin Letters \cup {Close}}, p)
      close == FirstIn({n \in (stop + 1) .. Len(p) : p[n] = Close}, p)
  IN IF stop <= Len(p) /\ p[stop] = Open
     THEN [n |-> close + 1, open |-> close > Len(p)]
     ELSE [n |-> stop, open |-> FALSE]

\* The item that stands between the "%" at i and e.
ItemAt(p, i, e) ==
  LET brace == Min({k \in (i + 1) .. (e - 1) : p[k] = Open} \cup {e})
  IN <<1, SubSeq(p, i + 1, brace - 1), SubSeq(p, brace + 1, e - 2)>>

Flush(items, text) == IF text = <<>> THEN items ELSE Append(items, <<0, text>>)

\* One round of the loop, at position i with the items and the literal text so
\* far.  A "%" before another one is taken literally, and the other one then
\* begins an item.  After an unclosed "{" the loop goes on behind the "%".
ParseStep(p, s) ==
  LET e == ItemEnd(p, s.i) IN
  IF s.i > Len(p) THEN s
  ELSE IF p[s.i] # Percent THEN [s EXCEPT !.i = @ + 1, !.text = Append(@, p[s.i])]
  ELSE IF s.i < Len(p) /\ p[s.i + 1] = Percent THEN [s EXCEPT !.i = @ + 1, !.text = Append(@, Percent)]
  ELSE IF e.open
    THEN [s EXCEPT !.i = @ + 1, !.items = Append(@, <<0, <<"error">>>>), !.error = TRUE]
  ELSE [i |-> e.n, text |-> <<>>, error |-> s.error,
        items |-> Append(Flush(s.items, s.text), ItemAt(p, s.i, e.n))]
ParseStart == [i |-> 1, text |-> <<>>, items |-> <<>>, error |-> FALSE]
\* An item whose name is unknown is an error too.
Parse(p) ==
  LET run[k \in 0 .. Len(p)] == IF k = 0 THEN ParseStart ELSE ParseStep(p, run[k - 1])
      s == run[Len(p)]
      items == Flush(s.items, s.text)
  IN [pattern |-> p, items |-> items,
      error |-> s.error \/ \E k \in DOMAIN items : items[k][1] = 1 /\ items[k][2] \notin ItemNames]

\* The pattern that the items stand for.
ItemText(x) ==
  IF x[1] = 0 THEN x[2]
  ELSE <<Percent>> \o x[2] \o (IF x[3] = <<>> THEN <<>> ELSE <<Open>> \o x[3] \o <<Close>>)
Written(items) == FlattenSeq([k \in DOMAIN items |-> ItemText(items[k])])
HasPart(p, s) == \E k \in 1 .. (Len(p) - Len(s) + 1) : SubSeq(p, k, k + Len(s) - 1) = s
=============================================================================
