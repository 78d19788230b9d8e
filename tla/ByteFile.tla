------------------------------ MODULE ByteFile ------------------------------
(***************************************************************************)
(* What ByteArray promises: a file of bytes with one position.  A write    *)
(* replaces or appends at the position, a read returns what is there, and  *)
(* both move the position; a seek past the end makes the file longer by    *)
(* bytes that nobody wrote.                                                *)
(***************************************************************************)
EXTENDS Integers, Sequences

VARIABLES
  data,   \* the file
  pos,    \* the position, counted from 0
  io      \* the last transfer: its direction and its bytes

fileVars == <<data, pos, io>>

Init == data = <<>> /\ pos = 0 /\ io = [op |-> "none", bytes |-> <<>>]

\* s with the bytes bs put at offset p, which is at most its length.
Overwrite(s, p, bs) ==
  [i \in 1 .. (IF p + Len(bs) > Len(s) THEN p + Len(bs) ELSE Len(s)) |->
     IF p < i /\ i <= p + Len(bs) THEN bs[i - p] ELSE s[i]]

Write ==
  /\ io'.op = "write"
  /\ data' = Overwrite(data, pos, io'.bytes)
  /\ pos' = pos + Len(io'.bytes)

Read ==
  /\ io'.op = "read"
  /\ pos' \in pos .. Len(data)
  /\ io'.bytes = SubSeq(data, pos + 1, pos')
  /\ UNCHANGED data

Seek ==
  /\ \/ pos' \in 0 .. Len(data) /\ UNCHANGED data
     \/ /\ pos' > Len(data) /\ Len(data') = pos'
        /\ data = SubSeq(data', 1, Len(data))
  /\ UNCHANGED io

Clear == data' = <<>> /\ pos' = 0 /\ UNCHANGED io

Next == Write \/ Read \/ Seek \/ Clear

Spec == Init /\ [][Next]_fileVars
=============================================================================
