-------------------------- MODULE MCHttpConnection --------------------------
(* HttpConnection for TLC. *)
EXTENDS HttpConnection, TLC

CONSTANTS c1, c2

\* The header names, as short as the parser tells them apart.
ShortNames == [close |-> <<"n">>, chunked |-> <<"t">>, length |-> <<"l">>]
ShortWords == [close |-> <<"c", "d">>, chunked |-> <<"k">>]
WordEnds == {" ", "LF"}

FormsFor == <<{"chunked"}, {"length"}, {"big"}>>
Http == <<"h", "t", "t", "p">>
AllUrls ==
  {[NoUri EXCEPT !.scheme = s, !.userinfo = u, !.host = h, !.port = n, !.path = p, !.query = q, !.fragment = f] :
     s \in {Http, <<"w", "s">>},
     u \in {<<>>, <<"u">>, <<"u", ":", "p">>, <<"u", ":", "1">>},
     h \in {<<"h">>, <<"h", ".", "3">>, <<"3", ".", "1">>, <<"%", "4", "1">>, <<"[", ":", ":", "1", "]">>},
     n \in {0, 8, 80, 443},
     p \in {<<>>, <<"/">>, <<"/", "a", "/", "zh">>},
     q \in {<<>>, <<"q", "=", "?">>}, f \in {<<>>, <<"f", "/">>}}
=============================================================================
