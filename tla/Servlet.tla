------------------------------ MODULE Servlet ------------------------------
(***************************************************************************)
(* ServletDispath: the table of servlets that handleClient looks a path up *)
(* in, and the calls that change it while requests are being handled.      *)
(* Every operation holds m_mutex, so each is one step.  A servlet is what  *)
(* identifies its callback; the handlers of a program put a body into the  *)
(* response, the one of NotFoundServlet also a status.                     *)
(***************************************************************************)
EXTENDS Integers, Sequences

CONSTANTS
  Uris,        \* the uris and patterns that the program registers
  Servlets,    \* the servlets it registers
  NotFound,    \* the NotFoundServlet
  MaxEdits     \* bound on changes of the table

VARIABLES
  datas,       \* m_datas: servlets by exact path
  globs,       \* m_globs: <<pattern, servlet>> in the order of registration
  deflt,       \* m_default
  edits

servletVars == <<datas, globs, deflt, edits>>

\* What the program has registered before it starts the server.
ServletInit ==
  /\ \E slt \in Servlets : /\ datas = [u \in Uris |-> slt]
                            /\ globs \in {<<<<u, slt>>>> : u \in Uris}
  /\ deflt = NotFound /\ edits = 0

\* fnmatch(pattern, uri, 0) for patterns whose only special character is "*".
FnMatch(pattern, uri) ==
  LET m[i \in 0 .. Len(pattern), j \in 0 .. Len(uri)] ==
        CASE i = 0 -> j = 0
          [] i > 0 /\ pattern[i] = "*" -> m[i - 1, j] \/ (j > 0 /\ m[i, j - 1])
          [] OTHER -> j > 0 /\ pattern[i] = uri[j] /\ m[i - 1, j - 1]
  IN m[Len(pattern), Len(uri)]

\* The vector without the first entry whose pattern matches uri.
EraseMatch(gs, uri) ==
  LET hits == {i \in DOMAIN gs : FnMatch(gs[i][1], uri)}
      first == CHOOSE i \in hits : \A j \in hits : i <= j
  IN IF hits = {} THEN gs
     ELSE SubSeq(gs, 1, first - 1) \o SubSeq(gs, first + 1, Len(gs))

AddServlet(uri, slt) ==
  /\ datas' = [u \in DOMAIN datas \cup {uri} |-> IF u = uri THEN slt ELSE datas[u]]
  /\ UNCHANGED <<globs, deflt>>
DelServlet(uri) ==
  /\ datas' = [u \in DOMAIN datas \ {uri} |-> datas[u]]
  /\ UNCHANGED <<globs, deflt>>
AddGlobServlet(uri, slt) ==
  /\ globs' = Append(EraseMatch(globs, uri), <<uri, slt>>)
  /\ UNCHANGED <<datas, deflt>>
DelGlobServlet(uri) ==
  /\ globs' = EraseMatch(globs, uri)
  /\ UNCHANGED <<datas, deflt>>
SetDefault(slt) == deflt' = slt /\ UNCHANGED <<datas, globs>>

EditServlets ==
  /\ edits < MaxEdits
  /\ edits' = edits + 1
  /\ \/ \E uri \in Uris, slt \in Servlets :
          AddServlet(uri, slt) \/ AddGlobServlet(uri, slt)
     \/ \E uri \in Uris : DelServlet(uri) \/ DelGlobServlet(uri)
     \/ \E slt \in Servlets : SetDefault(slt)

\* A glob is found by the pattern's own text.
GetMatchedServlet(uri) ==
  LET hits == {i \in DOMAIN globs : globs[i][1] = uri}
  IN CASE uri \in DOMAIN datas -> datas[uri]
       [] uri \notin DOMAIN datas /\ hits # {} ->
            globs[CHOOSE i \in hits : \A j \in hits : i <= j][2]
       [] OTHER -> deflt
=============================================================================
