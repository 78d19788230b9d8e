------------------------------ MODULE MCHookIO ------------------------------
(* HookIO for TLC. *)
EXTENDS HookIO, TLC

CONSTANTS f1, f2

FdOne == {3}
FdTwo == {3, 4}

\* One fiber makes two calls that wait; the other waits too or changes a
\* descriptor's mode, and then opens one, sets a limit or cancels.
EveryOp ==
  (f1 :> <<{"write", "accept", "connect", "sleep"}, {"write"}>>) @@
  (f2 :> <<{"read", "close", "setfl", "fionbio"},
           {"socket", "settimeout", "cancelall"}>>)
=============================================================================
