------------------------------- MODULE MCLog -------------------------------
(* Log for TLC. *)
EXTENDS Log

CONSTANTS t1, t2, w1

Leaf(k, v) == [key |-> k, node |-> [val |-> v]]
\* The text of a map is no number, and has no definition of a logger.
Map(k) == Leaf(k, {})

LogsVar == <<"logs">>
NumVar == <<"s", "n">>
AllVars == {LogsVar, NumVar}
Words == {"logs", "s", "n"}

App(f, p) == [type |-> 1, file |-> f, formatter |-> p]
Console == [type |-> 2, file |-> "none", formatter |-> <<>>]
Def(n, level, p, as) == [name |-> n, level |-> level, formatter |-> p, appenders |-> as]

B == Def("b", 2, <<"%", "{">>, <<App("g", <<"%">>)>>)
One == {Def("a", 2, <<"%", "m">>, <<App("f", <<>>), Console>>)}
\* The root logs to the file of a, also for a logger without appenders.
Other == {B, Def("root", 1, <<>>, <<App("f", <<>>)>>)}
Two == {B, Def("a", 4, <<>>, <<App("f", <<"%", "p">>)>>)}
LogSets == {{}, One, Two, Other}
Defaults == [v \in AllVars |-> IF v = LogsVar THEN {} ELSE 0]
Types == [v \in AllVars |-> IF v = LogsVar THEN LogSets ELSE 0 .. 2]

\* Documents of a value for logs or for the number too, and one whose "logs" is
\* a map and whose number has a wrong name.
AllDocs == {<<Leaf(LogsVar, One)>>, <<Leaf(LogsVar, Two), Leaf(NumVar, 1)>>, <<Leaf(LogsVar, Other)>>,
            <<Map(LogsVar), Map(<<"S">>), Leaf(<<"S", "n">>, 1), Map(<<"s">>), Leaf(NumVar, 2)>>}

Chars == {"%", "m", "d", "{", "}", ":"}
ShortPatterns == UNION {[1 .. k -> Chars] : k \in 0 .. 5}
Names == {<<"m">>, <<"d">>, <<"p">>}
Default == <<"%", "m", "%", "d">>
AllNames == <<"a", "b", "root">>
=============================================================================
