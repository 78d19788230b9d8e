---------------------------- MODULE MCHttpServer ----------------------------
(* HttpServer for TLC. *)
EXTENDS HttpServer, TLC

CONSTANT c1

Get == <<"G", "E", "T">>
Put2 == <<"P", "U", "T">>
AllMethods == {Get, Put2}
NameL == <<"l">>
NameN == <<"n">>
WordC == <<"c">>
PathA == <<"/", "*">>
PathB == <<"/", "^">>
AllUris == {PathA}

\* A request with a body and then one with a query.
TwoRequests ==
  (c1 :> <<[method |-> Put2, path |-> PathA, query |-> <<>>, body |-> <<"x", " ">>],
           [method |-> Get, path |-> PathB, query |-> <<"q">>, body |-> <<>>]>>)
ThreePieces == (c1 :> 3)
WordEnds == {" ", ":", "LF"}

\* The theorems of ServerProofs are about such a script.
ASSUME ScriptAssumption == PlainScript
=============================================================================
