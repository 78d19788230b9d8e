---------------------------- MODULE MCIOManager ----------------------------
(***************************************************************************)
(* Instances of IOManager for TLC.                                         *)
(***************************************************************************)
EXTENDS IOManager

CONSTANTS c1, c2, w1, w2

\* Both events of one descriptor, each for one client, and one event of another
\* descriptor.
Split == [c \in {c1, c2} |->
            IF c = c1 THEN {<<2, "READ">>, <<3, "READ">>} ELSE {<<2, "WRITE">>}]
=============================================================================
