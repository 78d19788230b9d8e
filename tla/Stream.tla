------------------------------- MODULE Stream -------------------------------
(***************************************************************************)
(* Stream::readFixSize, with which server and client read the part of a    *)
(* body that did not come with its head.  f.buf is the body's buffer, f.at *)
(* the index before the next byte, f.left what is still to be read.  late  *)
(* and smashed are history: reads that failed, and a write before buf.     *)
(***************************************************************************)
EXTENDS Integers, Sequences

NoFix == [buf |-> <<>>, at |-> 0, left |-> 0, late |-> 0, smashed |-> FALSE]

\* A body of the given length of which the bytes got are there.
FixStart(length, got) ==
  [NoFix EXCEPT !.at = Len(got), !.left = length - Len(got),
                !.buf = [k \in 1 .. length |-> IF k <= Len(got) THEN got[k] ELSE "NUL"]]

\* A read that forgets to move on.
FixReadStays(f, b) ==
  [f EXCEPT !.left = @ - Len(b),
            !.buf = [k \in DOMAIN f.buf |-> IF k - f.at \in DOMAIN b THEN b[k - f.at] ELSE f.buf[k]]]
\* A read copies what it gets to the place that offset gives.  Bytes before
\* the buffer's first are somebody else's memory.
FixRead(f, b) ==
  [f EXCEPT !.at = @ + Len(b), !.left = @ - Len(b), !.smashed = @ \/ f.at < 0,
            !.buf = [k \in DOMAIN f.buf |-> IF k - f.at \in DOMAIN b THEN b[k - f.at] ELSE f.buf[k]]]

\* The result of read is kept in a size_t: -1 is not an end, it takes one from
\* the offset and adds one to what is left.
FixError(f) == [f EXCEPT !.at = @ - 1, !.left = @ + 1, !.late = @ + 1]
=============================================================================
