---------------------------- MODULE ServerProofs ----------------------------
(***************************************************************************)
(* TcpServer and HttpServer, for any sockets, connections, scripts, cuts   *)
(* of the text, buffer size and bounds.                                    *)
(*                                                                         *)
(* First, when the server can end the process, and what is left of it when *)
(* it has been stopped.  addEvent ends it when two accept fibers of one    *)
(* socket wait together, so the invariant TcpInv keeps track of the fibers *)
(* of different starts.  Unless a start came early only one fiber of a     *)
(* socket is active (OneFiber), which needs that the queue holds each      *)
(* fiber once (QueuedOK) and that a number is given once (NumbersOK).      *)
(* With one thread an early start does no harm either, unless a fiber has  *)
(* been lost: the open socket of a fiber is in m_socks, and a stop task    *)
(* that will close it is queued before the fibers of a later start         *)
(* (StopsOK), which therefore find it closed (LaterClosed).  With one      *)
(* thread, too, nobody waits on a socket that has been closed              *)
(* (WaitsOnOpen).                                                          *)
(*                                                                         *)
(* Then the session.  The parser stays in its buffer whatever it is given  *)
(* (ParserOK), so that recvRequest's arithmetic on the rest of the buffer  *)
(* is right and the body is put together as it was sent (Sessions).  Last, *)
(* that the parser understands what HttpRequest::dump writes: the head is  *)
(* cut into the pieces between which a read may end, Follow says what the  *)
(* parser is like after the first l bytes of piece j, and Tracks that a    *)
(* session whose reads ended between pieces is where its text is.          *)
(***************************************************************************)
EXTENDS HttpServer, FiniteSetTheorems, SequenceTheorems, WellFoundedInduction, TLAPS

States == {"none", "queued", "loop", "accept", "wait", "woken", "done"}
Running == {"loop", "accept", "wait", "woken"}
Closings == [on : BOOLEAN, left : SUBSET Socks, cur : SUBSET Socks]

\* The types of the server's own state.
TcpTypes ==
  /\ acceptor \in [Fibers -> States]
  /\ tasks \in Seq(Fibers \cup {StopTask})
  /\ closing \in Closings
  /\ starts \in Nat /\ made \in Nat /\ socks \subseteq Socks /\ open \subseteq Socks
  /\ isStop \in BOOLEAN /\ early \in BOOLEAN

\* Sockets are numbered as they are bound, fibers as start is called.
NumbersOK ==
  /\ \A s \in socks \cup open : s <= made
  /\ \A f \in Fibers : acceptor[f] # "none" => f[1] <= starts /\ f[2] <= made

\* A fiber in the queue is there once.
QueuedOK ==
  /\ \A i \in 1 .. Len(tasks) : tasks[i] \in Fibers => acceptor[tasks[i]] = "queued"
  /\ \A i, j \in 1 .. Len(tasks) : tasks[i] \in Fibers /\ tasks[i] = tasks[j] => i = j

\* Unless a start came early, one fiber of a socket is queued or runs.
OneFiber == ~early => \A f, g \in Active : f[2] = g[2] => f = g

\* A stop task that will close s runs, or is queued before position i.
Covered(s, i) ==
  \/ closing.on /\ s \in closing.left \cup closing.cur
  \/ \E j \in 1 .. Len(tasks) : j < i /\ tasks[j] = StopTask

\* Unless a fiber has been lost: the open socket of a fiber is in m_socks, a
\* stop task that runs will close it, as will a stop that has been called, and
\* that before a fiber of a later start gets to run.
StopsOK ==
  lost = {} =>
    /\ \A f \in Active : f[2] \in open => f[2] \in socks
    /\ closing.on => \A f \in Active : f[2] \in open => f[2] \in closing.left \cup closing.cur
    /\ isStop => \A f \in Active : f[2] \in open => Covered(f[2], Len(tasks) + 1)
    /\ \A f \in Active : \A i \in 1 .. Len(tasks) :
         tasks[i] \in Fibers /\ tasks[i][2] = f[2] /\ f[1] < tasks[i][1] /\ f[2] \in open
           => Covered(f[2], i)

\* The inductive invariant of the server.
TcpInv == TcpTypes /\ NumbersOK /\ QueuedOK /\ OneFiber /\ StopsOK

\* With one thread, a fiber runs only when the socket of an older one that is
\* still active has been closed.
LaterClosed ==
  lost = {} => \A f, g \in Active :
                 f[1] < g[1] /\ f[2] = g[2] /\ acceptor[g] # "queued" => f[2] \notin open
-----------------------------------------------------------------------------
\* An index of an acceptor is not the stop task.
LEMMA FiberNotStop ==
  ASSUME NEW f \in Fibers
  PROVE  f # StopTask /\ f[1] \in 1 .. MaxStarts /\ f[2] \in 1 .. MaxSocks /\ f = <<f[1], f[2]>>
  BY TcpAssumption DEF TcpAssumption, Fibers, StopTask, Socks

\* Fibers are finitely many, and a free thread of one means that nothing runs.
LEMMA OneFreeThread ==
  ASSUME Threads = 1, FreeThread, closing \in Closings
  PROVE  ~closing.on /\ \A f \in Fibers : acceptor[f] \notin {"loop", "accept"}
  <1>1. IsFiniteSet(Fibers)
    <2>1. IsFiniteSet(1 .. MaxStarts) /\ IsFiniteSet(1 .. MaxSocks)
      BY TcpAssumption, FS_Interval DEF TcpAssumption
    <2> QED BY <2>1, FS_Product DEF Fibers, Socks
  <1>2. IsFiniteSet(OnThread) BY <1>1, FS_Subset DEF OnThread
  <1>3. Cardinality(OnThread) \in Nat BY <1>2, FS_CardinalityType
  <1>4. Cardinality(OnThread) + (IF closing.on THEN 1 ELSE 0) < 1 BY DEF FreeThread
  <1>5. ~closing.on /\ Cardinality(OnThread) = 0 BY <1>3, <1>4
  <1>6. OnThread = {} BY <1>2, <1>5, FS_EmptySet
  <1> QED BY <1>5, <1>6 DEF OnThread

\* A new server has neither fibers nor sockets.
LEMMA TcpInitInv == TcpInit => TcpInv /\ LaterClosed
  <1> SUFFICES ASSUME TcpInit PROVE TcpInv /\ LaterClosed OBVIOUS
  <1>0. Active = {} BY DEF TcpInit, Active
  <1>1. TcpTypes
    <2>1. Idle \in Closings BY DEF Idle, Closings
    <2>2. isStop \in BOOLEAN /\ early \in BOOLEAN BY DEF TcpInit
    <2>3. acceptor \in [Fibers -> States] BY DEF TcpInit, States
    <2> QED BY <2>1, <2>2, <2>3 DEF TcpInit, TcpTypes
  <1>2. NumbersOK BY DEF TcpInit, NumbersOK
  <1>3. QueuedOK BY DEF TcpInit, QueuedOK
  <1> QED BY <1>0, <1>1, <1>2, <1>3 DEF TcpInv, OneFiber, StopsOK, LaterClosed

\* Steps of running fibers and of the stop task, which only close sockets, and a
\* bind that fails.
LEMMA MoveKeeps ==
  ASSUME TcpInv,
         acceptor' \in [Fibers -> States],
         \A f \in Fibers : \/ acceptor'[f] = acceptor[f]
                           \/ /\ acceptor[f] \in Running
                              /\ acceptor'[f] \in Running \cup {"done"},
         closing' \in Closings,
         socks' \subseteq socks, open' \subseteq open, closing'.on => closing.on,
         lost' = {} =>
           /\ lost = {}
           /\ \A f \in Active' : f[2] \in open' => f[2] \in socks'
           /\ closing.on => \A s \in open' \cap (closing.left \cup closing.cur) :
                              closing'.on /\ s \in closing'.left \cup closing'.cur,
         UNCHANGED <<isStop, tasks, starts, made, early>>
  PROVE  TcpInv' /\ (LaterClosed => LaterClosed')
  <1>0. TcpTypes /\ NumbersOK /\ QueuedOK /\ OneFiber /\ StopsOK BY DEF TcpInv
  <1>1. TcpTypes' BY <1>0 DEF TcpTypes
  <1>2. Active' \subseteq Active BY DEF Active, Running
  <1>3. NumbersOK'
    <2>1. \A f \in Fibers : acceptor'[f] # "none" => acceptor[f] # "none" BY DEF Running
    <2> QED BY <1>0, <2>1 DEF NumbersOK
  <1>4. QueuedOK' BY <1>0 DEF QueuedOK, Running
  <1>5. OneFiber' BY <1>0, <1>2 DEF OneFiber
  <1>6. ASSUME lost' = {}, NEW s \in open', NEW i, Covered(s, i) PROVE Covered(s, i)'
    BY <1>6 DEF Covered
  <1>7. StopsOK'
    <2> SUFFICES ASSUME lost' = {} PROVE StopsOK' BY DEF StopsOK
    <2>1. closing'.on => \A f \in Active' : f[2] \in open' =>
            f[2] \in closing'.left \cup closing'.cur
      BY <1>0, <1>2 DEF StopsOK
    <2>2. isStop' => \A f \in Active' : f[2] \in open' => Covered(f[2], Len(tasks) + 1)'
      BY <1>0, <1>2, <1>6 DEF StopsOK
    <2>3. \A f \in Active' : \A i \in 1 .. Len(tasks') :
            tasks'[i] \in Fibers /\ tasks'[i][2] = f[2] /\ f[1] < tasks'[i][1] /\ f[2] \in open'
              => Covered(f[2], i)'
      BY <1>0, <1>2, <1>6 DEF StopsOK
    <2> QED BY <2>1, <2>2, <2>3 DEF StopsOK
  <1>8. LaterClosed => LaterClosed'
    <2>1. \A g \in Active' : acceptor'[g] # "queued" => acceptor[g] # "queued"
      BY DEF Active, Running
    <2> QED BY <1>2, <2>1 DEF LaterClosed
  <1> QED BY <1>1, <1>3, <1>4, <1>5, <1>7, <1>8 DEF TcpInv

\* A bind that fails drops every socket, and loses the fibers that have one.
LEMMA BindFails ==
  ASSUME TcpInv, NEW n \in Nat, NEW failing, NEW fresh, Bind(n, failing, fresh),
         failing \/ (fails > 0 /\ ~fresh)
  PROVE  TcpInv' /\ (LaterClosed => LaterClosed')
  <1>0. TcpTypes /\ StopsOK BY DEF TcpInv
  <1>1. /\ socks' = {} /\ open' \subseteq open
        /\ lost' = lost \cup {f \in Active : f[2] \in socks}
        /\ UNCHANGED <<isStop, acceptor, tasks, closing, starts, early, made>>
    BY DEF Bind, Keep
  <1>2. Active' = Active BY <1>1 DEF Active
  <1>3. ASSUME lost' = {} PROVE lost = {} /\ \A f \in Active' : f[2] \notin open'
    BY <1>0, <1>1, <1>2, <1>3 DEF StopsOK
  <1>4. acceptor' \in [Fibers -> States] /\ closing' \in Closings
    BY <1>0, <1>1 DEF TcpTypes
  <1> QED BY <1>1, <1>3, <1>4, MoveKeeps

\* The sockets that a bind adds are new, and have no fibers yet.
LEMMA BindAdds ==
  ASSUME TcpInv, NEW n \in Nat, NEW failing, NEW fresh, Bind(n, failing, fresh),
         ~(failing \/ (fails > 0 /\ ~fresh))
  PROVE  TcpInv' /\ (LaterClosed => LaterClosed')
  <1>0. TcpTypes /\ NumbersOK /\ QueuedOK /\ OneFiber /\ StopsOK BY DEF TcpInv
  <1> DEFINE new == (made + 1) .. (made + n)
  <1>1. /\ socks' = socks \cup new /\ open' = open \cup new /\ made' = made + n
        /\ made + n <= MaxSocks
        /\ UNCHANGED <<isStop, acceptor, tasks, closing, starts, early, lost>>
    BY DEF Bind, Keep
  <1>2. Active' = Active BY <1>1 DEF Active
  <1>3. made \in Nat /\ MaxSocks \in Nat BY <1>0, TcpAssumption DEF TcpTypes, TcpAssumption
  <1>4. new \subseteq Socks BY <1>1, <1>3 DEF Socks
  <1>5. \A f \in Active : f[2] \notin new
    BY <1>0, <1>3, FiberNotStop DEF Active, NumbersOK
  <1>6. TcpTypes' BY <1>0, <1>1, <1>3, <1>4 DEF TcpTypes
  <1>7. NumbersOK'
    <2>1. \A s \in new : s <= made' BY <1>1, <1>3
    <2>2. \A s \in socks \cup open : s <= made'
      BY <1>0, <1>1, <1>3 DEF NumbersOK, TcpTypes, Socks
    <2>3. \A f \in Fibers : acceptor'[f] # "none" => f[1] <= starts' /\ f[2] <= made'
      BY <1>0, <1>1, <1>3, FiberNotStop DEF NumbersOK
    <2> QED BY <1>1, <2>1, <2>2, <2>3 DEF NumbersOK
  <1> HIDE DEF new
  <1>8. QueuedOK' BY <1>0, <1>1 DEF QueuedOK
  <1>9. OneFiber' BY <1>0, <1>1, <1>2 DEF OneFiber
  <1>10. \A f \in Active : f[2] \in open' <=> f[2] \in open BY <1>1, <1>5
  <1>11. \A s, i : Covered(s, i) <=> Covered(s, i)' BY <1>1 DEF Covered
  <1>12. StopsOK'
    <2> SUFFICES ASSUME lost = {} PROVE StopsOK' BY <1>1 DEF StopsOK
    <2>1. \A f \in Active' : f[2] \in open' => f[2] \in socks'
      BY <1>0, <1>1, <1>2, <1>10 DEF StopsOK
    <2>2. closing'.on => \A f \in Active' : f[2] \in open' =>
            f[2] \in closing'.left \cup closing'.cur
      BY <1>0, <1>1, <1>2, <1>10 DEF StopsOK
    <2>3. isStop' => \A f \in Active' : f[2] \in open' => Covered(f[2], Len(tasks) + 1)'
      BY <1>0, <1>1, <1>2, <1>10, <1>11 DEF StopsOK
    <2>4. \A f \in Active' : \A i \in 1 .. Len(tasks') :
            tasks'[i] \in Fibers /\ tasks'[i][2] = f[2] /\ f[1] < tasks'[i][1] /\ f[2] \in open'
              => Covered(f[2], i)'
      BY <1>0, <1>1, <1>2, <1>10, <1>11 DEF StopsOK
    <2> QED BY <2>1, <2>2, <2>3, <2>4 DEF StopsOK
  <1>13. LaterClosed => LaterClosed' BY <1>1, <1>2, <1>10 DEF LaterClosed
  <1> QED BY <1>6, <1>7, <1>8, <1>9, <1>12, <1>13 DEF TcpInv

\* stop puts its task behind everything that is queued.
LEMMA StopStep ==
  ASSUME TcpInv, Stop
  PROVE  TcpInv' /\ (LaterClosed => LaterClosed')
  <1>0. TcpTypes /\ NumbersOK /\ QueuedOK /\ OneFiber /\ StopsOK BY DEF TcpInv
  <1>1. /\ isStop' = TRUE /\ tasks' = Append(tasks, StopTask)
        /\ UNCHANGED <<socks, made, open, acceptor, closing, starts, early, lost>>
    BY DEF Stop
  <1>2. Active' = Active BY <1>1 DEF Active
  <1>a. tasks \in Seq(Fibers \cup {StopTask}) BY <1>0 DEF TcpTypes
  <1>b. tasks' \in Seq(Fibers \cup {StopTask}) BY <1>1, <1>a
  <1>c. /\ Len(tasks) \in Nat /\ Len(tasks') = Len(tasks) + 1
        /\ tasks'[Len(tasks) + 1] = StopTask
        /\ \A i \in 1 .. Len(tasks) : tasks'[i] = tasks[i]
    BY <1>1, <1>a
  <1>d. \A i \in 1 .. Len(tasks') : i \in 1 .. Len(tasks) \/ i = Len(tasks) + 1
    BY <1>c
  <1>e. StopTask \notin Fibers BY FiberNotStop
  <1>3. TcpTypes' BY <1>0, <1>1, <1>b DEF TcpTypes
  <1>4. NumbersOK' BY <1>0, <1>1 DEF NumbersOK
  <1>5. QueuedOK' BY <1>0, <1>1, <1>c, <1>d, <1>e DEF QueuedOK
  <1>6. OneFiber' BY <1>0, <1>1, <1>2 DEF OneFiber
  <1>7. \A s : Covered(s, Len(tasks) + 1)' BY <1>c DEF Covered
  <1>8. \A s : \A i \in 1 .. Len(tasks) : Covered(s, i) => Covered(s, i)'
    BY <1>1, <1>c DEF Covered
  <1>9. StopsOK'
    <2> SUFFICES ASSUME lost = {} PROVE StopsOK' BY <1>1 DEF StopsOK
    <2>1. \A f \in Active' : f[2] \in open' => f[2] \in socks'
      BY <1>0, <1>1, <1>2 DEF StopsOK
    <2>3. ASSUME NEW f \in Active', NEW i \in 1 .. Len(tasks'), tasks'[i] \in Fibers,
                 tasks'[i][2] = f[2], f[1] < tasks'[i][1], f[2] \in open'
          PROVE  Covered(f[2], i)'
      <3>1. i \in 1 .. Len(tasks) /\ tasks'[i] = tasks[i] BY <1>c, <1>d, <1>e, <2>3
      <3>2. Covered(f[2], i) BY <1>0, <1>1, <1>2, <2>3, <3>1 DEF StopsOK
      <3> QED BY <1>8, <3>1, <3>2
    <2>4. closing'.on => \A f \in Active' : f[2] \in open' =>
            f[2] \in closing'.left \cup closing'.cur
      BY <1>0, <1>1, <1>2 DEF StopsOK
    <2> QED BY <2>1, <2>3, <2>4, <1>7 DEF StopsOK
  <1>10. LaterClosed => LaterClosed' BY <1>1, <1>2 DEF LaterClosed
  <1> QED BY <1>3, <1>4, <1>5, <1>6, <1>9, <1>10 DEF TcpInv

\* cancelAll wakes fibers, and they stay active.
LEMMA StopCancelKeeps ==
  ASSUME TcpInv, NEW s \in Socks, StopCancel(s)
  PROVE  TcpInv' /\ (LaterClosed => LaterClosed')
  <1>0. TcpTypes /\ StopsOK BY DEF TcpInv
  <1>1. /\ closing.on /\ closing.cur = {} /\ s \in closing.left
        /\ acceptor' = [f \in Fibers |-> IF f[2] = s /\ acceptor[f] = "wait"
                                         THEN "woken" ELSE acceptor[f]]
        /\ closing' = [closing EXCEPT !.left = @ \ {s}, !.cur = {s}]
        /\ UNCHANGED <<isStop, socks, made, open, tasks, starts, early, lost>>
    BY DEF StopCancel
  <1>2. acceptor' \in [Fibers -> States] BY <1>0, <1>1 DEF TcpTypes, States
  <1>3. \A f \in Fibers : \/ acceptor'[f] = acceptor[f]
                          \/ /\ acceptor[f] \in Running
                             /\ acceptor'[f] \in Running \cup {"done"}
    BY <1>1 DEF Running
  <1>4. /\ closing' \in Closings /\ closing'.on
        /\ closing'.left = closing.left \ {s} /\ closing'.cur = {s}
    BY <1>0, <1>1 DEF TcpTypes, Closings
  <1>5. \A x \in open' \cap (closing.left \cup closing.cur) : x \in closing'.left \cup closing'.cur
    BY <1>1, <1>4
  <1>6. lost' = {} => \A f \in Active' : f[2] \in open' => f[2] \in socks'
    <2>1. Active' \subseteq Active BY <1>3 DEF Active, Running
    <2> QED BY <1>0, <1>1, <2>1 DEF StopsOK
  <1> QED BY <1>1, <1>2, <1>3, <1>4, <1>5, <1>6, MoveKeeps

\* The socket that the stop task closes is done with.
LEMMA StopCloseKeeps ==
  ASSUME TcpInv, StopClose
  PROVE  TcpInv' /\ (LaterClosed => LaterClosed')
  <1>0. TcpTypes /\ StopsOK BY DEF TcpInv
  <1>1. /\ closing.on /\ open' = open \ closing.cur
        /\ closing' = [closing EXCEPT !.cur = {}]
        /\ UNCHANGED <<isStop, socks, made, acceptor, tasks, starts, early, lost>>
    BY DEF StopClose, Keep
  <1>2. acceptor' \in [Fibers -> States] BY <1>0, <1>1 DEF TcpTypes
  <1>4. /\ closing' \in Closings /\ closing'.on
        /\ closing'.left = closing.left /\ closing'.cur = {}
    BY <1>0, <1>1 DEF TcpTypes, Closings
  <1>5. \A x \in open' \cap (closing.left \cup closing.cur) : x \in closing'.left \cup closing'.cur
    BY <1>1, <1>4
  <1>6. lost' = {} => lost = {} /\ \A f \in Active' : f[2] \in open' => f[2] \in socks'
    BY <1>0, <1>1 DEF StopsOK, Active
  <1> QED BY <1>1, <1>2, <1>4, <1>5, <1>6, MoveKeeps

\* When the stop task ends it has closed every socket that a fiber has, unless
\* one is lost.
LEMMA StopDoneKeeps ==
  ASSUME TcpInv, StopDone
  PROVE  TcpInv' /\ (LaterClosed => LaterClosed')
  <1>0. TcpTypes /\ StopsOK BY DEF TcpInv
  <1>1. /\ closing.on /\ closing.left = {} /\ closing.cur = {}
        /\ socks' = {} /\ closing' = Idle /\ open' \subseteq open
        /\ UNCHANGED <<isStop, made, acceptor, tasks, starts, early, lost>>
    BY DEF StopDone, Keep
  <1>2. acceptor' \in [Fibers -> States] BY <1>0, <1>1 DEF TcpTypes
  <1>3. Active' = Active BY <1>1 DEF Active
  <1>4. lost' = {} => lost = {} /\ \A f \in Active' : f[2] \notin open'
    BY <1>0, <1>1, <1>3 DEF StopsOK
  <1>5. Idle \in Closings /\ ~Idle.on BY DEF Idle, Closings
  <1> QED BY <1>1, <1>2, <1>4, <1>5, MoveKeeps

\* A step of an accept fiber, and its wake-up.
FiberSteps(f) == LoopTest(f) \/ LoopAccept(f) \/ LoopEnds(f) \/ Resume(f) \/ Readable(f)
LEMMA FiberKeeps ==
  ASSUME TcpInv, NEW f \in Fibers, FiberSteps(f)
  PROVE  TcpInv' /\ (LaterClosed => LaterClosed')
  <1>0. TcpTypes /\ StopsOK BY DEF TcpInv
  <1>1. /\ acceptor[f] \in Running
        /\ \E x \in Running \cup {"done"} : acceptor' = [acceptor EXCEPT ![f] = x]
        /\ open' \subseteq open
        /\ lost \subseteq lost'
        /\ UNCHANGED <<isStop, socks, made, tasks, closing, starts, early>>
    BY DEF FiberSteps, LoopTest, LoopAccept, LoopEnds, Resume, Readable, Accept, Keep, Running
  <1>2. acceptor' \in [Fibers -> States] BY <1>0, <1>1 DEF TcpTypes, States, Running
  <1>3. \A g \in Fibers : \/ acceptor'[g] = acceptor[g]
                          \/ /\ acceptor[g] \in Running
                             /\ acceptor'[g] \in Running \cup {"done"}
    BY <1>0, <1>1 DEF TcpTypes
  <1>4. closing' \in Closings BY <1>0, <1>1 DEF TcpTypes
  <1>5. lost' = {} => lost = {} /\ \A g \in Active' : g[2] \in open' => g[2] \in socks'
    <2>1. Active' \subseteq Active BY <1>3 DEF Active, Running
    <2> QED BY <1>0, <1>1, <2>1 DEF StopsOK
  <1> QED BY <1>1, <1>2, <1>3, <1>4, <1>5, MoveKeeps

\* Taking the first task: what was second is first, so that a stop task ahead of
\* it still is, unless it is the one taken; and with one thread a fiber that is
\* taken has no stop task to wait for.
LEMMA RunTaskKeeps ==
  ASSUME TcpInv, RunTask
  PROVE  TcpInv' /\ (Threads = 1 /\ LaterClosed => LaterClosed')
  <1>0. TcpTypes /\ NumbersOK /\ QueuedOK /\ OneFiber /\ StopsOK BY DEF TcpInv
  <1> DEFINE T == Fibers \cup {StopTask}
  <1>1. /\ FreeThread /\ tasks # <<>> /\ tasks' = Tail(tasks)
        /\ UNCHANGED <<isStop, socks, made, open, starts, early, lost>>
    BY DEF RunTask
  <1>2. tasks \in Seq(T) BY <1>0 DEF TcpTypes
  <1>3. /\ tasks' \in Seq(T) /\ Head(tasks) = tasks[1] /\ tasks[1] \in T
        /\ Len(tasks) \in Nat /\ Len(tasks') = Len(tasks) - 1 /\ Len(tasks') \in Nat
        /\ \A i \in 1 .. Len(tasks') : tasks'[i] = tasks[i + 1]
    <2> HIDE DEF T
    <2> QED BY <1>1, <1>2
  <1>4. \A i \in 1 .. Len(tasks') : i + 1 \in 1 .. Len(tasks) BY <1>3
  <1>5. 1 \in 1 .. Len(tasks) BY <1>3
  <1>6. \A i, j \in 1 .. Len(tasks') : tasks'[i] \in Fibers /\ tasks'[i] = tasks'[j] => i = j
    <2>1. SUFFICES ASSUME NEW i \in 1 .. Len(tasks'), NEW j \in 1 .. Len(tasks'),
                          tasks'[i] \in Fibers, tasks'[i] = tasks'[j]
                   PROVE  i = j
      OBVIOUS
    <2>2. i + 1 = j + 1 BY <1>0, <1>3, <1>4, <2>1 DEF QueuedOK
    <2> QED BY <2>2
  <1>7. CASE Head(tasks) = StopTask
    <2>1. closing' = [on |-> TRUE, left |-> socks, cur |-> {}] /\ acceptor' = acceptor
      BY <1>7 DEF RunTask
    <2>2. closing'.on /\ closing'.left = socks /\ closing'.cur = {} BY <2>1
    <2>3. closing' \in Closings BY <2>1, <1>0 DEF TcpTypes, Closings
    <2>4. TcpTypes' BY <1>0, <1>1, <1>3, <2>1, <2>3 DEF TcpTypes
    <2>5. Active' = Active BY <2>1 DEF Active
    <2>6. NumbersOK' BY <1>0, <1>1, <2>1 DEF NumbersOK
    <2>7. QueuedOK'
      <3>1. \A i \in 1 .. Len(tasks') : tasks'[i] \in Fibers => acceptor'[tasks'[i]] = "queued"
        BY <1>0, <1>3, <1>4, <2>1 DEF QueuedOK
      <3> QED BY <1>6, <3>1 DEF QueuedOK
    <2>8. OneFiber' BY <1>0, <1>1, <2>5 DEF OneFiber
    <2>9. StopsOK'
      <3> SUFFICES ASSUME lost = {} PROVE StopsOK' BY <1>1 DEF StopsOK
      <3>1. \A s, i : s \in socks => Covered(s, i)' BY <2>2 DEF Covered
      <3>2. \A f \in Active' : f[2] \in open' => f[2] \in socks
        BY <1>0, <1>1, <2>5 DEF StopsOK
      <3> QED BY <1>1, <2>2, <3>1, <3>2 DEF StopsOK
    <2>10. LaterClosed => LaterClosed' BY <1>1, <2>1, <2>5 DEF LaterClosed
    <2> QED BY <2>4, <2>6, <2>7, <2>8, <2>9, <2>10 DEF TcpInv
  <1>8. CASE Head(tasks) # StopTask
    <2> DEFINE f == tasks[1]
    <2>1. f \in Fibers BY <1>3, <1>8
    <2>2. acceptor' = [acceptor EXCEPT ![f] = "loop"] /\ closing' = closing
      BY <1>3, <1>8 DEF RunTask
    <2>3. acceptor[f] = "queued" BY <1>0, <1>5, <2>1 DEF QueuedOK
    <2>4. acceptor' \in [Fibers -> States] BY <1>0, <2>2 DEF TcpTypes, States
    <2>a. /\ acceptor'[f] = "loop"
          /\ \A g \in Fibers : g # f => acceptor'[g] = acceptor[g]
      BY <1>0, <2>1, <2>2 DEF TcpTypes
    <2>b. f = tasks[1] OBVIOUS
    <2> HIDE DEF f
    <2>5. TcpTypes' BY <1>0, <1>1, <1>3, <2>2, <2>4 DEF TcpTypes
    <2>6. NumbersOK' BY <1>0, <1>1, <2>1, <2>a, <2>3 DEF NumbersOK
    <2>7. QueuedOK'
      <3>1. ASSUME NEW i \in 1 .. Len(tasks'), tasks'[i] \in Fibers
            PROVE  acceptor'[tasks'[i]] = "queued"
        <4>1. i + 1 \in 1 .. Len(tasks) /\ i + 1 # 1 BY <1>3, <1>4
        <4>2. tasks[i + 1] # f
          BY <1>0, <1>3, <1>5, <2>1, <2>b, <3>1, <4>1 DEF QueuedOK
        <4>3. acceptor[tasks[i + 1]] = "queued" BY <1>0, <1>3, <3>1, <4>1 DEF QueuedOK
        <4> QED BY <1>3, <2>a, <3>1, <4>2, <4>3
      <3> QED BY <1>6, <3>1 DEF QueuedOK
    <2>8. Active' = Active BY <2>a, <2>1, <2>3 DEF Active
    <2>9. OneFiber' BY <1>0, <1>1, <2>8 DEF OneFiber
    <2>10. ASSUME NEW s, NEW i \in Nat, Covered(s, i + 1) PROVE Covered(s, i)'
      <3>1. CASE closing.on /\ s \in closing.left \cup closing.cur BY <2>2, <3>1 DEF Covered
      <3>2. ASSUME NEW j \in 1 .. Len(tasks), j < i + 1, tasks[j] = StopTask
            PROVE  Covered(s, i)'
        <4>1. j # 1 BY <1>3, <1>8, <3>2
        <4>2. j - 1 \in 1 .. Len(tasks') /\ tasks'[j - 1] = StopTask
          BY <1>3, <4>1, <3>2
        <4>3. j - 1 < i BY <3>2, <1>3
        <4> QED BY <4>2, <4>3 DEF Covered
      <3> QED BY <2>10, <3>1, <3>2 DEF Covered
    <2>11. StopsOK'
      <3> SUFFICES ASSUME lost = {} PROVE StopsOK' BY <1>1 DEF StopsOK
      <3>1. \A g \in Active' : g[2] \in open' => g[2] \in socks'
        BY <1>0, <1>1, <2>8 DEF StopsOK
      <3>2. ASSUME isStop', NEW g \in Active', g[2] \in open'
            PROVE  Covered(g[2], Len(tasks) + 1)'
        <4>1. Covered(g[2], Len(tasks) + 1) BY <1>0, <1>1, <2>8, <3>2 DEF StopsOK
        <4>2. PICK m \in Nat : m = Len(tasks') + 1 BY <1>3
        <4>3. m + 1 = Len(tasks) + 1 BY <1>3, <4>2
        <4>4. Covered(g[2], m + 1) BY <4>1, <4>3
        <4>5. Covered(g[2], m)' BY <2>10, <4>4
        <4> QED BY <4>2, <4>5 DEF Covered
      <3>3. ASSUME NEW g \in Active', NEW i \in 1 .. Len(tasks'), tasks'[i] \in Fibers,
                   tasks'[i][2] = g[2], g[1] < tasks'[i][1], g[2] \in open'
            PROVE  Covered(g[2], i)'
        <4>1. i \in Nat /\ i + 1 \in 1 .. Len(tasks) /\ tasks[i + 1] = tasks'[i] BY <1>3, <1>4
        <4>2. Covered(g[2], i + 1) BY <1>0, <1>1, <2>8, <3>3, <4>1 DEF StopsOK
        <4> QED BY <2>10, <4>1, <4>2
      <3>4. closing'.on => \A g \in Active' : g[2] \in open' =>
              g[2] \in closing'.left \cup closing'.cur
        BY <1>0, <1>1, <2>2, <2>8 DEF StopsOK
      <3> QED BY <3>1, <3>2, <3>3, <3>4 DEF StopsOK
    <2>12. ASSUME Threads = 1, LaterClosed PROVE LaterClosed'
      <3>1. ~closing.on BY <1>0, <1>1, <2>12, OneFreeThread DEF TcpTypes
      <3>2. ASSUME lost = {}, NEW g \in Active, g[1] < f[1], g[2] = f[2], g[2] \in open
            PROVE  FALSE
        <4>1. Covered(g[2], 1) BY <1>0, <1>5, <2>1, <2>b, <3>2 DEF StopsOK
        <4> QED BY <3>1, <4>1 DEF Covered
      <3> QED BY <1>1, <2>8, <2>a, <2>12, <3>2 DEF LaterClosed, Active
    <2> QED BY <2>5, <2>6, <2>7, <2>9, <2>11, <2>12 DEF TcpInv
  <1> QED BY <1>7, <1>8

\* start queues one fiber for each socket, behind the stop task of the start
\* before it.
LEMMA StartKeeps ==
  ASSUME TcpInv, Start
  PROVE  TcpInv' /\ (LaterClosed => LaterClosed')
  <1>0. TcpTypes /\ NumbersOK /\ QueuedOK /\ OneFiber /\ StopsOK BY DEF TcpInv
  <1> DEFINE T == Fibers \cup {StopTask}
             N == Cardinality(socks)
             k == starts + 1
  <1>1. /\ isStop /\ starts < MaxStarts /\ isStop' = FALSE /\ starts' = k
        /\ acceptor' = [f \in Fibers |-> IF f[1] = k /\ f[2] \in socks
                                         THEN "queued" ELSE acceptor[f]]
        /\ lost' = lost \cup {<<k, s>> : s \in Unseen}
        /\ UNCHANGED <<socks, open, made, closing>>
    BY DEF Start
  <1>2. k \in 1 .. MaxStarts /\ k \in Nat BY <1>0, <1>1, TcpAssumption DEF TcpAssumption, TcpTypes
  <1>3. N \in Nat
    <2>1. socks \subseteq 1 .. MaxSocks /\ IsFiniteSet(1 .. MaxSocks)
      BY <1>0, TcpAssumption, FS_Interval DEF TcpAssumption, TcpTypes, Socks
    <2>2. IsFiniteSet(socks) BY <2>1, FS_Subset
    <2> QED BY <2>2, FS_CardinalityType
  <1>4. PICK order \in [1 .. N -> socks] :
          /\ \A i, j \in DOMAIN order : i < j => order[i] < order[j]
          /\ tasks' = tasks \o [i \in DOMAIN order |-> <<k, order[i]>>]
    BY DEF Start
  <1>b. \A i \in 1 .. N : order[i] \in socks BY <1>4
  <1>5. \A i, j \in 1 .. N : order[i] = order[j] => i = j
    <2>a. socks \subseteq Nat BY <1>0 DEF TcpTypes, Socks
    <2>1. \A i \in 1 .. N : order[i] \in Nat BY <1>b, <2>a
    <2>2. \A i, j \in 1 .. N : i < j => order[i] < order[j] BY <1>4
    <2>3. ASSUME NEW i \in 1 .. N, NEW j \in 1 .. N, order[i] = order[j] PROVE i = j
      <3>1. i \in Int /\ j \in Int /\ order[i] \in Int
        <4> HIDE DEF N
        <4> QED BY <1>3, <2>1
      <3>2. ~(i < j) /\ ~(j < i) BY <2>2, <2>3, <3>1
      <3> QED BY <3>1, <3>2
    <2> QED BY <2>3
  <1>6. \A s \in socks : <<k, s>> \in Fibers BY <1>0, <1>2 DEF TcpTypes, Fibers
  <1> DEFINE new == [i \in 1 .. N |-> <<k, order[i]>>]
  <1>7. new \in Seq(T) /\ Len(new) = N /\ \A i \in 1 .. N : new[i] = <<k, order[i]>>
    <2>1. \A i \in 1 .. N : <<k, order[i]>> \in T BY <1>6, <1>b
    <2> HIDE DEF T, N
    <2> QED BY <1>3, <2>1
  <1>8. tasks \in Seq(T) BY <1>0 DEF TcpTypes
  <1>9. tasks' = tasks \o new BY <1>4
  <1> HIDE DEF new, T, N
  <1>10. /\ tasks' \in Seq(T) /\ Len(tasks) \in Nat /\ Len(tasks') = Len(tasks) + N
         /\ \A i \in 1 .. Len(tasks) : tasks'[i] = tasks[i] /\ i \in 1 .. Len(tasks')
         /\ \A i \in 1 .. Len(tasks') :
              i \in 1 .. Len(tasks) \/
              /\ i > Len(tasks) /\ i - Len(tasks) \in 1 .. N
              /\ tasks'[i] = <<k, order[i - Len(tasks)]>>
    BY <1>3, <1>7, <1>8, <1>9
  <1>11. acceptor' \in [Fibers -> States] BY <1>0, <1>1 DEF TcpTypes, States
  <1>12. \A f \in Fibers : f[1] = k => acceptor[f] = "none"
    BY <1>0, <1>2 DEF NumbersOK, TcpTypes
  <1>13. \A f \in Fibers : acceptor[f] # "none" => f[1] < k
    BY <1>0, FiberNotStop DEF NumbersOK, TcpTypes
  <1>c. \A i \in 1 .. Len(tasks) : tasks[i] \in Fibers => tasks[i][1] < k
    BY <1>0, <1>13 DEF QueuedOK
  <1>a. early' \in BOOLEAN /\ (~early' => ~early /\ Stopped)
    BY <1>0 DEF Start, TcpTypes
  <1>d. \A f \in Active' : f \in Active \/ (f[1] = k /\ f[2] \in socks /\ acceptor'[f] = "queued")
    BY <1>1 DEF Active
  <1>e. \A f \in Active' : acceptor'[f] # "queued" => f \in Active /\ acceptor[f] # "queued"
    BY <1>1 DEF Active
  <1>14. TcpTypes'
    <2>1. tasks' \in Seq(Fibers \cup {StopTask}) BY <1>10 DEF T
    <2>2. isStop' \in BOOLEAN BY DEF Start
    <2> QED BY <1>0, <1>1, <1>2, <1>11, <1>a, <2>1, <2>2 DEF TcpTypes
  <1>15. NumbersOK'
    <2>1. SUFFICES ASSUME NEW f \in Fibers, acceptor'[f] # "none"
                   PROVE  f[1] <= starts' /\ f[2] <= made'
      BY <1>0, <1>1 DEF NumbersOK
    <2>2. CASE f[1] = k /\ f[2] \in socks BY <1>0, <1>1, <1>2, <2>2 DEF NumbersOK
    <2>3. CASE ~(f[1] = k /\ f[2] \in socks)
      <3>1. acceptor[f] # "none" BY <1>1, <2>1, <2>3
      <3>2. f[1] < k /\ f[1] \in Nat /\ f[2] <= made BY <1>0, <1>13, <3>1, FiberNotStop DEF NumbersOK
      <3> QED BY <1>1, <1>2, <3>2
    <2> QED BY <2>2, <2>3
  <1>17. QueuedOK'
    <2>1. ASSUME NEW i \in 1 .. Len(tasks'), tasks'[i] \in Fibers
          PROVE  acceptor'[tasks'[i]] = "queued"
      <3>1. CASE i \in 1 .. Len(tasks)
        <4>1. acceptor[tasks[i]] = "queued" /\ tasks'[i] = tasks[i]
          BY <1>0, <1>10, <2>1, <3>1 DEF QueuedOK
        <4> QED BY <1>1, <1>12, <2>1, <4>1
      <3>2. CASE i \notin 1 .. Len(tasks)
        <4>1. tasks'[i][1] = k /\ tasks'[i][2] \in socks BY <1>b, <1>10, <3>2
        <4> QED BY <1>1, <2>1, <4>1
      <3> QED BY <3>1, <3>2
    <2>2. ASSUME NEW i \in 1 .. Len(tasks'), NEW j \in 1 .. Len(tasks'),
                 tasks'[i] \in Fibers, tasks'[i] = tasks'[j]
          PROVE  i = j
      <3> DEFINE Old(x) == x \in 1 .. Len(tasks)
      <3>1. CASE Old(i) /\ Old(j) BY <1>0, <1>10, <2>2, <3>1 DEF QueuedOK
      <3>2. \A x \in 1 .. Len(tasks') :
              tasks'[x] \in Fibers => (Old(x) <=> tasks'[x][1] # k)
        <4>1. \A x \in 1 .. Len(tasks) : tasks[x] \in Fibers => tasks[x][1] # k
          BY <1>2, <1>c, FiberNotStop
        <4> QED BY <4>1, <1>10
      <3>3. CASE ~Old(i) /\ ~Old(j)
        <4>1. order[i - Len(tasks)] = order[j - Len(tasks)] BY <1>10, <2>2, <3>3
        <4>2. i - Len(tasks) \in 1 .. N /\ j - Len(tasks) \in 1 .. N BY <1>10, <3>3
        <4>3. i - Len(tasks) = j - Len(tasks) BY <1>5, <4>1, <4>2
        <4> QED BY <4>3, <1>10
      <3> QED BY <2>2, <3>1, <3>2, <3>3
    <2> QED BY <2>1, <2>2 DEF QueuedOK
  <1>18. OneFiber'
    <2>1. SUFFICES ASSUME ~early', NEW f \in Active', NEW g \in Active', f[2] = g[2]
                   PROVE  f = g
      BY DEF OneFiber
    <2>2. Active = {} BY <1>a, <2>1 DEF Stopped
    <2>3. f[1] = k /\ g[1] = k BY <1>d, <2>2
    <2>4. f \in Fibers /\ g \in Fibers BY DEF Active
    <2> QED BY <2>1, <2>3, <2>4, FiberNotStop
  <1>16. StopsOK'
    <2> SUFFICES ASSUME lost' = {} PROVE StopsOK' BY DEF StopsOK
    <2>0. lost = {} /\ Unseen = {} BY <1>1
    <2>1. \A f \in Active' : f[2] \in open' => f[2] \in socks'
      BY <1>0, <1>1, <1>d, <2>0 DEF StopsOK
    <2>2. ASSUME NEW s, NEW i \in 1 .. Len(tasks), Covered(s, i) PROVE Covered(s, i)'
      BY <1>1, <1>10, <2>2 DEF Covered
    <2>3. ASSUME NEW f \in Active', NEW i \in 1 .. Len(tasks'), tasks'[i] \in Fibers,
                 tasks'[i][2] = f[2], f[1] < tasks'[i][1], f[2] \in open'
          PROVE  Covered(f[2], i)'
      <3>a. f \in Fibers /\ f[1] \in Nat BY FiberNotStop DEF Active
      <3>1. CASE i \in 1 .. Len(tasks)
        <4>1. tasks'[i] = tasks[i] /\ tasks[i][1] < k /\ tasks[i][1] \in Nat
          BY <1>10, <1>c, <2>3, <3>1, FiberNotStop
        <4>2. f \in Active BY <1>2, <1>d, <2>3, <3>a, <4>1
        <4>3. Covered(f[2], i) BY <1>0, <1>1, <2>0, <2>3, <3>1, <4>1, <4>2 DEF StopsOK
        <4> QED BY <2>2, <3>1, <4>3
      <3>2. CASE i \notin 1 .. Len(tasks)
        <4>1. i > Len(tasks) /\ tasks'[i][1] = k BY <1>10, <3>2
        <4>2. f \in Active BY <1>2, <1>d, <2>3, <3>a, <4>1
        <4>3. Covered(f[2], Len(tasks) + 1) BY <1>0, <1>1, <2>0, <2>3, <4>2 DEF StopsOK
        <4>4. CASE closing.on /\ f[2] \in closing.left \cup closing.cur
          BY <1>1, <4>4 DEF Covered
        <4>5. ASSUME NEW j \in 1 .. Len(tasks), tasks[j] = StopTask PROVE Covered(f[2], i)'
          <5>1. j < i BY <4>1, <1>10
          <5>2. j \in 1 .. Len(tasks') /\ tasks'[j] = StopTask BY <4>5, <1>10
          <5> QED BY <5>1, <5>2 DEF Covered
        <4> QED BY <4>3, <4>4, <4>5 DEF Covered
      <3> QED BY <3>1, <3>2
    <2>4. ~isStop' BY <1>1
    <2>5. closing'.on => \A f \in Active' : f[2] \in open' =>
            f[2] \in closing'.left \cup closing'.cur
      BY <1>0, <1>1, <1>d, <2>0 DEF StopsOK, Unseen
    <2> QED BY <2>1, <2>3, <2>4, <2>5 DEF StopsOK
  <1>19. LaterClosed => LaterClosed'
    <2>1. SUFFICES ASSUME LaterClosed, lost' = {}, NEW f \in Active', NEW g \in Active',
                          f[1] < g[1], f[2] = g[2], acceptor'[g] # "queued"
                   PROVE  f[2] \notin open
      BY <1>1 DEF LaterClosed
    <2>2. g \in Active /\ acceptor[g] # "queued" BY <1>e, <2>1
    <2>3. g[1] < k /\ g[1] \in Nat /\ f[1] \in Nat
      BY <1>13, <2>2, FiberNotStop DEF Active
    <2>4. f \in Active BY <1>2, <1>d, <2>1, <2>3
    <2>5. lost = {} BY <1>1, <2>1
    <2> QED BY <2>1, <2>2, <2>4, <2>5 DEF LaterClosed
  <1> QED BY <1>14, <1>15, <1>16, <1>17, <1>18, <1>19 DEF TcpInv
-----------------------------------------------------------------------------
\* Every step of the server keeps the invariant.
LEMMA TcpStep ==
  ASSUME TcpInv, AcceptWorker \/ TcpCalls
  PROVE  TcpInv' /\ (Threads = 1 /\ LaterClosed => LaterClosed')
  <1>1. CASE RunTask BY <1>1, RunTaskKeeps
  <1>2. CASE StopClose BY <1>2, StopCloseKeeps
  <1>3. CASE StopDone BY <1>3, StopDoneKeeps
  <1>4. ASSUME NEW s \in Socks, StopCancel(s)
        PROVE  TcpInv' /\ (LaterClosed => LaterClosed')
    BY <1>4, StopCancelKeeps
  <1>5. ASSUME NEW f \in Fibers, FiberSteps(f)
        PROVE  TcpInv' /\ (LaterClosed => LaterClosed')
    BY <1>5, FiberKeeps
  <1>6. ASSUME NEW n \in 0 .. MaxSocks, NEW failing \in BOOLEAN, NEW fresh \in BOOLEAN,
               Bind(n, failing, fresh)
        PROVE  TcpInv' /\ (LaterClosed => LaterClosed')
    <2>1. n \in Nat BY TcpAssumption DEF TcpAssumption
    <2> QED BY <1>6, <2>1, BindFails, BindAdds
  <1>7. CASE Start BY <1>7, StartKeeps
  <1>8. CASE Stop BY <1>8, StopStep
  <1> QED BY <1>1, <1>2, <1>3, <1>4, <1>5, <1>6, <1>7, <1>8 DEF AcceptWorker, TcpCalls, FiberSteps

\* The server ends the process only in an accept that has to wait on an open
\* socket while another fiber waits there.
LEMMA DownIsSecondWaiter ==
  ASSUME AcceptWorker \/ TcpCalls, down'
  PROVE  /\ UNCHANGED early /\ lost \subseteq lost'
         /\ \E f, g \in Fibers :
              /\ f[2] = g[2] /\ f[2] \in open
              /\ acceptor[f] = "accept" /\ acceptor[g] = "wait"
  <1>1. ~down
    BY DEF AcceptWorker, TcpCalls, RunTask, StopClose, StopDone, StopCancel, LoopTest,
           LoopAccept, LoopEnds, Resume, Readable, Bind, Start, Stop, FreeThread
  <1>2. \E f \in Fibers : LoopAccept(f)
    BY <1>1 DEF AcceptWorker, TcpCalls, RunTask, StopClose, StopDone, StopCancel, LoopTest,
           LoopEnds, Resume, Readable, Bind, Start, Stop
  <1>3. PICK f \in Fibers : LoopAccept(f) BY <1>2
  <1>4. Accept(f) /\ acceptor[f] = "accept" /\ UNCHANGED early /\ lost \subseteq lost'
    BY <1>1, <1>3 DEF LoopAccept
  <1>5. f[2] \in open /\ \E g \in Fibers : g[2] = f[2] /\ acceptor[g] = "wait"
    BY <1>1, <1>4 DEF Accept
  <1> QED BY <1>4, <1>5

\* With an early start, and more than one thread or a fiber that has been lost.
LEMMA DownNeedsEarly ==
  ASSUME TcpInv, AcceptWorker \/ TcpCalls, down'
  PROVE  early' /\ ~(lost' = {} /\ LaterClosed)
  <1>1. PICK f, g \in Fibers : /\ f[2] = g[2] /\ f[2] \in open
                              /\ UNCHANGED early /\ lost \subseteq lost'
                              /\ acceptor[f] = "accept" /\ acceptor[g] = "wait"
    BY DownIsSecondWaiter
  <1>2. f # g /\ f \in Active /\ g \in Active BY <1>1 DEF Active
  <1>3. early BY <1>1, <1>2 DEF TcpInv, OneFiber
  <1>4. f[1] # g[1] /\ f[1] \in Nat /\ g[1] \in Nat BY <1>1, <1>2, FiberNotStop
  <1>5. lost' = {} /\ LaterClosed => FALSE
    <2>1. f[1] < g[1] \/ g[1] < f[1] BY <1>4
    <2>2. lost' = {} => lost = {} BY <1>1
    <2> QED BY <1>1, <1>2, <2>1, <2>2 DEF LaterClosed
  <1> QED BY <1>1, <1>3, <1>5

\* A connection that completes does not touch the invariant.
LEMMA OthersKeep ==
  ASSUME TcpInv,
         UNCHANGED <<isStop, socks, made, open, acceptor, tasks, closing, starts, early, lost>>
  PROVE  TcpInv' /\ (LaterClosed => LaterClosed')
  <1>1. Active' = Active BY DEF Active
  <1>2. \A s, i : Covered(s, i)' <=> Covered(s, i) BY DEF Covered
  <1>3. StopsOK' BY <1>1, <1>2 DEF TcpInv, StopsOK
  <1> QED BY <1>1, <1>3 DEF TcpInv, TcpTypes, NumbersOK, QueuedOK, OneFiber, LaterClosed

\* What the server itself can end the process for; that is for ever.
TcpDown == NoSecondWaiter /\ (Threads = 1 => LaterClosed)

\* Every step of a server that has no sessions.
LEMMA TcpNextKeeps ==
  ASSUME TcpInv, TcpDown, [TcpNext]_tcpVars
  PROVE  TcpInv' /\ TcpDown'
  <1>0. Threads \in Nat \ {0} BY TcpAssumption DEF TcpAssumption
  <1>1. CASE AcceptWorker \/ TcpCalls
    <2>1. TcpInv' /\ (Threads = 1 /\ LaterClosed => LaterClosed') BY <1>1, TcpStep
    <2>2. down' => early' /\ ~(lost' = {} /\ LaterClosed) BY <1>1, DownNeedsEarly
    <2> QED BY <1>0, <2>1, <2>2 DEF TcpDown, NoSecondWaiter
  <1>2. ASSUME \/ UNCHANGED tcpVars
               \/ \E c \in Conns, s \in Socks : Connect(c, s)
        PROVE  TcpInv' /\ TcpDown'
    <2>1. /\ UNCHANGED <<isStop, socks, made, open, acceptor, tasks, closing, starts, early, lost>>
          /\ UNCHANGED down
      BY <1>2 DEF tcpVars, Connect
    <2>2. TcpInv' /\ (LaterClosed => LaterClosed') BY <2>1, OthersKeep
    <2> QED BY <2>1, <2>2 DEF TcpDown, NoSecondWaiter
  <1> QED BY <1>1, <1>2 DEF TcpNext

\* The invariant holds in every reachable state of the server.
THEOREM TcpInvariant == TcpSpec => [](TcpInv /\ TcpDown)
  <1>1. TcpInit => TcpInv /\ TcpDown
    <2>1. TcpInit => TcpInv /\ LaterClosed BY TcpInitInv
    <2>2. TcpInit => ~down BY DEF TcpInit
    <2> QED BY <2>1, <2>2 DEF TcpDown, NoSecondWaiter
  <1> QED BY <1>1, TcpNextKeeps, PTL DEF TcpSpec

\* Whatever is bound, and however bind, start and stop follow each other:
\* addEvent's assertion ends the process only if start was called before the stop
\* task and the accept fibers of the start before had ended; and with an accept
\* worker of one thread only if, besides, a fiber's socket has been dropped.
THEOREM TcpNoSecondWaiter == TcpSpec => []NoSecondWaiter
  <1>1. TcpDown => NoSecondWaiter BY DEF TcpDown
  <1> QED BY <1>1, TcpInvariant, PTL

\* With any number of threads: when the stop tasks of a server are through, no
\* accept fiber has an open listening socket, unless a fiber has been lost.
THEOREM TcpStoppedIsClosed == TcpSpec => []StoppedIsClosed
  <1>1. TcpInv => StoppedIsClosed
    <2> SUFFICES ASSUME TcpInv, isStop, tasks = <<>>, ~closing.on, lost = {},
                        NEW f \in Active
                 PROVE  f[2] \notin open
      BY DEF StoppedIsClosed
    <2>1. f[2] \in open => Covered(f[2], Len(tasks) + 1) BY DEF TcpInv, StopsOK
    <2>2. \A j \in 1 .. Len(tasks) : FALSE OBVIOUS
    <2> QED BY <2>1, <2>2 DEF Covered
  <1> QED BY <1>1, TcpInvariant, PTL

-----------------------------------------------------------------------------
\* With one thread nothing runs while the stop task does, so that a fiber waits
\* only on a socket that is open and whose waiters the stop task has not woken.
WaitsOnOpen ==
  /\ \A f \in Fibers : acceptor[f] = "wait" => f[2] \in open \ closing.cur
  /\ closing.on \/ closing.cur = {}
  /\ closing.on => \A f \in Fibers : acceptor[f] \notin {"loop", "accept"}

LEMMA WaitsOnOpenStep ==
  ASSUME TcpInv, WaitsOnOpen, Threads = 1, [TcpNext]_tcpVars
  PROVE  WaitsOnOpen'
  <1>0. /\ acceptor \in [Fibers -> States] /\ TcpTypes
        /\ closing \in Closings
    BY DEF TcpInv, TcpTypes
  <1>a. ASSUME UNCHANGED closing, open \subseteq open',
               \A f \in Fibers : acceptor'[f] = "wait" => acceptor[f] = "wait",
               \A f \in Fibers : closing.on /\ acceptor'[f] \in {"loop", "accept"}
                                   => acceptor[f] \in {"loop", "accept"}
        PROVE  WaitsOnOpen'
    BY <1>a DEF WaitsOnOpen
  <1>b. ASSUME NEW kept, Keep(kept), UNCHANGED acceptor,
               \A f \in Fibers : acceptor[f] = "wait" => f[2] \in kept,
               closing' \in {closing, Idle}
        PROVE  WaitsOnOpen'
    <2>1. CASE closing' = closing BY <1>b, <2>1 DEF WaitsOnOpen, Keep
    <2>2. CASE closing' = Idle
      <3>1. closing'.cur = {} /\ ~closing'.on BY <2>2 DEF Idle
      <3> QED BY <1>b, <3>1 DEF WaitsOnOpen, Keep
    <2> QED BY <1>b, <2>1, <2>2
  <1>c. \A f \in Fibers : acceptor[f] = "wait" => f[2] \in open /\ f \in Holders(f[2])
    BY DEF WaitsOnOpen, Holders, Active
  <1>1. CASE UNCHANGED tcpVars BY <1>1, <1>a DEF tcpVars
  <1>2. CASE RunTask
    <2>0. ~closing.on /\ \A f \in Fibers : acceptor[f] \notin {"loop", "accept"}
      BY <1>0, <1>2, OneFreeThread DEF RunTask
    <2>1. CASE Head(tasks) = StopTask
      <3>1. UNCHANGED <<open, acceptor>> /\ closing' = [on |-> TRUE, left |-> socks, cur |-> {}]
        BY <1>2, <2>1 DEF RunTask
      <3> QED BY <2>0, <3>1 DEF WaitsOnOpen
    <2>2. CASE Head(tasks) # StopTask
      <3>1. /\ UNCHANGED <<open, closing>>
            /\ acceptor' = [acceptor EXCEPT ![Head(tasks)] = "loop"]
        BY <1>2, <2>2 DEF RunTask
      <3> QED BY <2>0, <3>1, <1>0, <1>a
    <2> QED BY <2>1, <2>2
  <1>3. ASSUME NEW s \in Socks, StopCancel(s) PROVE WaitsOnOpen'
    <2>1. /\ closing.on /\ UNCHANGED open
          /\ closing' = [closing EXCEPT !.left = @ \ {s}, !.cur = {s}]
          /\ acceptor' = [f \in Fibers |-> IF f[2] = s /\ acceptor[f] = "wait"
                                             THEN "woken" ELSE acceptor[f]]
      BY <1>3 DEF StopCancel
    <2>2. closing'.on /\ closing'.cur = {s} BY <2>1, <1>0 DEF Closings
    <2>3. \A f \in Fibers : /\ acceptor'[f] = "wait" => acceptor[f] = "wait" /\ f[2] # s
                            /\ acceptor'[f] \notin {"loop", "accept"}
      BY <2>1 DEF WaitsOnOpen
    <2> QED BY <2>1, <2>2, <2>3 DEF WaitsOnOpen
  <1>4. CASE StopClose
    <2>1. /\ open' = open \ closing.cur /\ UNCHANGED acceptor /\ closing.on
          /\ closing' = [closing EXCEPT !.cur = {}]
      BY <1>4 DEF StopClose, Keep
    <2>2. closing'.cur = {} /\ closing'.on BY <2>1, <1>0 DEF Closings
    <2> QED BY <2>1, <2>2 DEF WaitsOnOpen
  <1>5. CASE StopDone BY <1>5, <1>b, <1>c DEF StopDone
  <1>6. ASSUME NEW f \in Fibers, FiberSteps(f) PROVE WaitsOnOpen'
    <2>1. CASE LoopTest(f) \/ Readable(f)
      <3>1. /\ UNCHANGED <<open, closing>> /\ acceptor[f] \in {"loop", "wait"}
            /\ \/ acceptor[f] = "loop" /\ acceptor' = [acceptor EXCEPT ![f] = "accept"]
               \/ acceptor' = [acceptor EXCEPT ![f] = "woken"]
        BY <2>1 DEF LoopTest, Readable
      <3> QED BY <3>1, <1>0, <1>a
    <2>2. CASE Resume(f)
      <3>1. ~closing.on /\ UNCHANGED <<open, closing>>
            /\ acceptor' = [acceptor EXCEPT ![f] = "accept"]
        BY <1>0, <2>2, OneFreeThread DEF Resume
      <3> QED BY <3>1, <1>0, <1>a
    <2>3. CASE LoopAccept(f)
      <3>1. /\ ~closing.on /\ UNCHANGED <<open, closing>> /\ Accept(f)
        BY <2>3 DEF LoopAccept, WaitsOnOpen
      <3>2. \/ acceptor' = [acceptor EXCEPT ![f] = "loop"]
            \/ acceptor' = [acceptor EXCEPT ![f] = "wait"] /\ f[2] \in open
        BY <3>1 DEF Accept
      <3>3. closing.cur = {} BY <3>1 DEF WaitsOnOpen
      <3>4. \A g \in Fibers : acceptor'[g] = "wait" =>
              acceptor[g] = "wait" \/ (g = f /\ f[2] \in open)
        BY <3>2, <1>0
      <3> QED BY <3>1, <3>3, <3>4 DEF WaitsOnOpen
    <2>4. CASE LoopEnds(f)
      <3>1. /\ acceptor[f] = "loop" /\ UNCHANGED closing
            /\ acceptor' = [acceptor EXCEPT ![f] = "done"]
            /\ open' = IF f[2] \notin socks /\ Holders(f[2]) = {f} THEN open \ {f[2]} ELSE open
        BY <2>4 DEF LoopEnds, Keep
      <3>2. ASSUME NEW g \in Fibers, acceptor'[g] = "wait"
            PROVE  acceptor[g] = "wait" /\ g # f /\ g[2] \in open'
        <4>1. acceptor[g] = "wait" /\ g # f BY <3>1, <3>2, <1>0
        <4>2. g[2] = f[2] => Holders(f[2]) # {f} BY <1>c, <4>1
        <4> QED BY <1>c, <3>1, <4>1, <4>2
      <3>3. \A g \in Fibers : closing.on => acceptor'[g] \notin {"loop", "accept"}
        BY <3>1, <1>0 DEF WaitsOnOpen
      <3> QED BY <3>1, <3>2, <3>3 DEF WaitsOnOpen
    <2> QED BY <1>6, <2>1, <2>2, <2>3, <2>4 DEF FiberSteps
  <1>8. ASSUME NEW n, NEW failing, NEW fresh, Bind(n, failing, fresh) PROVE WaitsOnOpen'
    <2>1. UNCHANGED <<acceptor, closing>> BY <1>8 DEF Bind
    <2>2. \/ Keep({s \in open : Holders(s) # {}})
          \/ Keep(open \cup ((made + 1) .. (made + n)))
      BY <1>8 DEF Bind
    <2> QED BY <1>b, <1>c, <2>1, <2>2
  <1>9. CASE Start
    <2>1. /\ UNCHANGED <<open, closing>>
          /\ acceptor' = [f \in Fibers |-> IF f[1] = starts + 1 /\ f[2] \in socks
                                             THEN "queued" ELSE acceptor[f]]
      BY <1>9 DEF Start
    <2> QED BY <2>1, <1>a
  <1>10. CASE Stop
    <2>1. UNCHANGED <<open, closing, acceptor>> BY <1>10 DEF Stop
    <2> QED BY <2>1, <1>a
  <1>11. ASSUME NEW c \in Conns, NEW s \in Socks, Connect(c, s) PROVE WaitsOnOpen'
    <2>1. UNCHANGED <<open, closing, acceptor>> BY <1>11 DEF Connect
    <2> QED BY <2>1, <1>a
  <1> QED BY <1>1, <1>2, <1>3, <1>4, <1>5, <1>6, <1>8, <1>9, <1>10, <1>11
          DEF TcpNext, AcceptWorker, TcpCalls, FiberSteps

\* With an accept worker of one thread no accept fiber waits on a socket that has
\* been closed: close takes it from epoll, and nothing would wake it.
THEOREM TcpNoWaiterLeft ==
  TcpSpec => [](Threads = 1 => \A f \in Fibers : acceptor[f] = "wait" => f[2] \in open)
  <1>1. TcpInit => (Threads = 1 => WaitsOnOpen)
    <2> SUFFICES ASSUME TcpInit PROVE WaitsOnOpen OBVIOUS
    <2>1. closing.cur = {} /\ ~closing.on BY DEF TcpInit, Idle
    <2> QED BY <2>1 DEF TcpInit, WaitsOnOpen
  <1>2. TcpInv /\ (Threads = 1 => WaitsOnOpen) /\ [TcpNext]_tcpVars
          => (Threads = 1 => WaitsOnOpen)'
    BY WaitsOnOpenStep
  <1>3. (Threads = 1 => WaitsOnOpen)
          => (Threads = 1 => \A f \in Fibers : acceptor[f] = "wait" => f[2] \in open)
    BY DEF WaitsOnOpen
  <1> QED BY <1>1, <1>2, <1>3, TcpInvariant, PTL DEF TcpSpec

-----------------------------------------------------------------------------
\* A set of numbers that holds any holds a least one.
LEMMA LeastNumber ==
  ASSUME NEW T, T \subseteq Nat, T # {}
  PROVE  \E x \in T : \A y \in T : x <= y
  <1> DEFINE R == {ss \in Nat \X Nat : ss[1] < ss[2]}
  <1>1. R = OpToRel(<, Nat)
    BY DEF OpToRel
  <1>2. IsWellFoundedOn(R, Nat)
    BY <1>1, NatLessThanWellFounded
  <1> HIDE DEF R
  <1>3. PICK x \in T : \A y \in T : ~ (<<y, x>> \in R)
    BY <1>2, WFMin
  <1>4. \A y \in T : ~(y < x)
    <2> TAKE y \in T
    <2>1. <<y, x>> \in Nat \X Nat /\ <<y, x>> \notin R
      BY <1>3
    <2> QED BY <2>1 DEF R
  <1> QED BY <1>4

\* A set that holds 0 and, with every number, the next one holds them all.
LEMMA Induct ==
  ASSUME NEW S, 0 \in S, \A n \in Nat : n \in S => n + 1 \in S
  PROVE  \A n \in Nat : n \in S
  <1> DEFINE T == Nat \ S
  <1> SUFFICES ASSUME T # {} PROVE FALSE OBVIOUS
  <1>1. T \subseteq Nat OBVIOUS
  <1> HIDE DEF T
  <1>2. PICK x \in T : \A y \in T : x <= y BY <1>1, LeastNumber
  <1> QED BY <1>2 DEF T

\* The function g on 0 .. N that begins with c and goes on with the steps h[k].
Recursive(g, c, h, N) == \A k \in 0 .. N : g[k] = IF k = 0 THEN c ELSE h[k][g[k - 1]]

\* A function that is defined by recursion over 0 .. N exists; step k of the
\* recursion is the function h[k].
LEMMA Recursion ==
  ASSUME NEW T, NEW c \in T, NEW N \in Nat, NEW h \in [1 .. N -> [T -> T]]
  PROVE  \E g \in [0 .. N -> T] : Recursive(g, c, h, N)
  <1> DEFINE S == {m \in Nat : m <= N => \E g \in [0 .. m -> T] : Recursive(g, c, h, m)}
  <1>1. 0 \in S
    <2>1. [k \in 0 .. 0 |-> c] \in [0 .. 0 -> T] /\ Recursive([k \in 0 .. 0 |-> c], c, h, 0)
      BY DEF Recursive
    <2> QED BY <2>1
  <1>2. ASSUME NEW m \in Nat, m \in S PROVE m + 1 \in S
    <2> SUFFICES ASSUME m + 1 <= N PROVE \E g \in [0 .. m + 1 -> T] : Recursive(g, c, h, m + 1)
      OBVIOUS
    <2>1. PICK g \in [0 .. m -> T] : Recursive(g, c, h, m)
      BY <1>2
    <2> DEFINE f == [k \in 0 .. m + 1 |-> IF k = m + 1 THEN h[m + 1][g[m]] ELSE g[k]]
    <2>2. g[m] \in T /\ m + 1 \in 1 .. N
      OBVIOUS
    <2>3. h[m + 1] \in [T -> T]
      BY <2>2
    <2>4. h[m + 1][g[m]] \in T
      BY <2>2, <2>3
    <2>5. f \in [0 .. m + 1 -> T]
      BY <2>4
    <2>6. ASSUME NEW k \in 0 .. m + 1 PROVE f[k] = IF k = 0 THEN c ELSE h[k][f[k - 1]]
      <3>1. CASE k = m + 1
        <4>1. f[k] = h[m + 1][g[m]] /\ f[k - 1] = g[m] /\ k # 0
          BY <3>1
        <4> QED BY <4>1, <3>1
      <3>2. CASE k # m + 1
        <4>1. k \in 0 .. m /\ f[k] = g[k] /\ (k # 0 => f[k - 1] = g[k - 1])
          BY <3>2
        <4>2. g[k] = IF k = 0 THEN c ELSE h[k][g[k - 1]]
          BY <4>1, <2>1 DEF Recursive
        <4> HIDE DEF f
        <4> QED BY <4>1, <4>2
      <3> QED BY <3>1, <3>2
    <2> HIDE DEF f
    <2> QED BY <2>5, <2>6 DEF Recursive
  <1> HIDE DEF S
  <1>3. \A m \in Nat : m \in S
    BY <1>1, <1>2, Induct
  <1>4. N \in S
    BY <1>3
  <1> QED BY <1>4 DEF S

-----------------------------------------------------------------------------
\* The characters of a text.
Chars ==
  STRING \cup Digit
  \cup {SP, ":", "?", "/", ".", "CR", "LF", "H", "T", "P", "NUL"}

\* The states of the request parser.
InValue == {"value0", "value"}
Ended == {"done", "error"}
Outside ==
  {"start", "method", "target", "segment", "path", "slash", "scheme", "hier", "authority",
   "regname", "colon", "user", "host", "hostname", "literal", "closed", "port", "query0",
   "query", "fragment0", "fragment", "pct", "pct2", "version", "header", "cr", "name", "lf",
   "xml0", "xmlTag", "xml", "xmlEnd", "brace", "json", "jsonEnd"} \cup Ended

\* A parser between two calls.
ParserFields ==
  {"cs", "n", "back", "json", "lit", "relaxed", "mark", "fieldStart", "fieldLen",
   "queryStart", "error", "req"}
RequestFields == {"method", "path", "query", "fragment", "version", "headers"}
ParserShape(p) ==
  /\ DOMAIN p = ParserFields
  /\ p.cs \in Outside \cup InValue /\ p.back \in Outside
  /\ p.queryStart \in Nat \ {0}
  /\ DOMAIN p.req = RequestFields
  /\ \A h \in DOMAIN p.req.headers : p.req.headers[h] \in Seq(Chars)

\* What a parser has marked of the buffer, before it reads the byte at i.
Marks(p, i) ==
  /\ p.mark \in 1 .. i /\ p.fieldStart \in 1 .. i /\ p.fieldLen \in Nat
  /\ p.cs \in InValue => p.fieldStart + p.fieldLen <= i

ParserOK(p, i) == ParserShape(p) /\ Marks(p, i)

\* One more byte does no harm.
LEMMA MarksGrow ==
  ASSUME NEW i \in Nat \ {0}, NEW p, ParserOK(p, i)
  PROVE  ParserOK(p, i + 1)
  BY DEF ParserOK, Marks

\* A change of state.
LEMMA ToOK ==
  ASSUME NEW i \in Nat \ {0}, NEW p, ParserOK(p, i), NEW s \in Outside
  PROVE  ParserOK(To(p, s), i + 1) /\ ParserOK(To(p, s), i)
  <1>1. ParserShape(To(p, s)) BY DEF ParserOK, ParserShape, To, ParserFields
  <1>2. To(p, s).mark = p.mark /\ To(p, s).fieldStart = p.fieldStart
        /\ To(p, s).fieldLen = p.fieldLen /\ To(p, s).cs = s
    BY DEF ParserOK, ParserShape, To, ParserFields
  <1>3. s \notin InValue BY DEF Outside, InValue, Ended
  <1>4. Marks(To(p, s), i + 1) /\ Marks(To(p, s), i) BY <1>2, <1>3 DEF ParserOK, Marks
  <1> QED BY <1>1, <1>4 DEF ParserOK

\* A new mark.
LEMMA AtOK ==
  ASSUME NEW i \in Nat \ {0}, NEW p, ParserOK(p, i)
  PROVE  ParserOK(At(p, i), i) /\ At(p, i).cs = p.cs /\ At(p, i).json = p.json
  <1>1. ParserShape(At(p, i)) /\ At(p, i).cs = p.cs /\ At(p, i).json = p.json
    BY DEF ParserOK, ParserShape, At, ParserFields
  <1>2. Marks(At(p, i), i) BY DEF ParserOK, ParserShape, Marks, At, ParserFields
  <1> QED BY <1>1, <1>2 DEF ParserOK

\* Two updates that more than one handler makes.
LEMMA UpdateOK ==
  ASSUME NEW i \in Nat \ {0}, NEW p, ParserOK(p, i), NEW s \in Outside
  PROVE  /\ ParserOK(PctTo(p, s), i + 1)
         /\ \A m : ParserOK([p EXCEPT !.n = m], i + 1)
         /\ \A m : ParserOK([p EXCEPT !.cs = s, !.n = m], i + 1)
         /\ \A l : ParserOK([p EXCEPT !.cs = s, !.lit = l], i + 1)
         /\ \A l : ParserOK([p EXCEPT !.lit = l], i + 1)
  <1> SUFFICES ASSUME NEW m, NEW l
               PROVE  /\ ParserOK(PctTo(p, s), i + 1)
                      /\ ParserOK([p EXCEPT !.n = m], i + 1)
                      /\ ParserOK([p EXCEPT !.cs = s, !.n = m], i + 1)
                      /\ ParserOK([p EXCEPT !.cs = s, !.lit = l], i + 1)
                      /\ ParserOK([p EXCEPT !.lit = l], i + 1)
    OBVIOUS
  <1>0. s \notin InValue /\ "pct" \in Outside /\ "pct" \notin InValue BY DEF Outside, InValue, Ended
  <1>a. DOMAIN p = ParserFields BY DEF ParserOK, ParserShape
  <1>1. ASSUME NEW q, DOMAIN q = DOMAIN p, q.cs = p.cs \/ q.cs \in Outside,
               q.back = p.back \/ q.back \in Outside,
               q.queryStart = p.queryStart, q.req = p.req, q.mark = p.mark,
               q.fieldStart = p.fieldStart, q.fieldLen = p.fieldLen
        PROVE  ParserOK(q, i + 1)
    <2>1. ParserShape(q) BY <1>1 DEF ParserOK, ParserShape
    <2>2. q.cs \in InValue => p.cs \in InValue BY <1>1 DEF Outside, InValue, Ended
    <2>3. Marks(q, i + 1)
      <3>1. Marks(p, i) BY DEF ParserOK
      <3> QED BY <1>1, <2>2, <3>1 DEF Marks
    <2> QED BY <2>1, <2>3 DEF ParserOK
  <1>2. ParserOK(PctTo(p, s), i + 1)
    <2>1. PICK q : q = PctTo(p, s) OBVIOUS
    <2> QED BY <2>1, <1>0, <1>a, <1>1 DEF PctTo, ParserFields
  <1>3. ParserOK([p EXCEPT !.n = m], i + 1)
    <2>1. PICK q : q = [p EXCEPT !.n = m] OBVIOUS
    <2> QED BY <2>1, <1>0, <1>a, <1>1 DEF ParserFields
  <1>4. ParserOK([p EXCEPT !.cs = s, !.n = m], i + 1)
    <2>1. PICK q : q = [p EXCEPT !.cs = s, !.n = m] OBVIOUS
    <2> QED BY <2>1, <1>0, <1>a, <1>1 DEF ParserFields
  <1>5. ParserOK([p EXCEPT !.cs = s, !.lit = l], i + 1)
    <2>1. PICK q : q = [p EXCEPT !.cs = s, !.lit = l] OBVIOUS
    <2> QED BY <2>1, <1>0, <1>a, <1>1 DEF ParserFields
  <1>6. ParserOK([p EXCEPT !.lit = l], i + 1)
    <2>1. PICK q : q = [p EXCEPT !.lit = l] OBVIOUS
    <2> QED BY <2>1, <1>0, <1>a, <1>1 DEF ParserFields
  <1> QED BY <1>2, <1>3, <1>4, <1>5, <1>6

\* The callbacks, with tokens that lie in the buffer.
LEMMA CallbacksOK ==
  ASSUME NEW b \in Seq(Chars), NEW i \in 1 .. Len(b), NEW p, ParserOK(p, i)
  PROVE  /\ ParserOK(OnMethod(p, b, i), i) /\ ParserOK(OnPath(p, b, i), i)
         /\ ParserOK(OnFragment(p, b, i), i) /\ ParserOK(OnQuery(p, b, i), i)
         /\ ParserOK(OnVersion(p, b, i), i) /\ ParserOK(OnField(p, b, i), i)
         /\ Token(p, b, i) \in Seq(Chars)
  <1>0. i \in Nat \ {0} /\ Len(b) \in Nat BY LenProperties
  <1>a. ASSUME NEW q, DOMAIN q = DOMAIN p, q.cs = p.cs, q.back = p.back,
               q.queryStart = p.queryStart, q.mark = p.mark, DOMAIN q.req = DOMAIN p.req,
               q.fieldStart = p.fieldStart, q.fieldLen = p.fieldLen,
               \A h \in DOMAIN q.req.headers : q.req.headers[h] \in Seq(Chars)
        PROVE  ParserOK(q, i)
    BY <1>a DEF ParserOK, ParserShape, Marks
  <1>b. Token(p, b, i) \in Seq(Chars)
    <2>1. p.mark \in 1 .. i BY DEF ParserOK, Marks
    <2>2. p.mark \in 1 .. Len(b) + 1 /\ i - 1 \in p.mark - 1 .. Len(b) BY <2>1, <1>0
    <2> QED BY <2>2, <1>0, SubSeqProperties DEF Token
  <1>c. \A h \in DOMAIN p.req.headers : p.req.headers[h] \in Seq(Chars)
    BY DEF ParserOK, ParserShape
  <1>d. DOMAIN p = ParserFields /\ DOMAIN p.req = RequestFields BY DEF ParserOK, ParserShape
  <1>1. ParserOK(OnMethod(p, b, i), i)
    <2>1. PICK q : q = OnMethod(p, b, i) OBVIOUS
    <2> QED BY <2>1, <1>a, <1>c, <1>d DEF OnMethod, ParserFields, RequestFields
  <1>2. ParserOK(OnPath(p, b, i), i)
    <2>1. PICK q : q = OnPath(p, b, i) OBVIOUS
    <2> QED BY <2>1, <1>a, <1>c, <1>d DEF OnPath, ParserFields, RequestFields
  <1>3. ParserOK(OnFragment(p, b, i), i)
    <2>1. PICK q : q = OnFragment(p, b, i) OBVIOUS
    <2> QED BY <2>1, <1>a, <1>c, <1>d DEF OnFragment, ParserFields, RequestFields
  <1>4. ParserOK(OnQuery(p, b, i), i)
    <2>1. PICK q : q = OnQuery(p, b, i) OBVIOUS
    <2> QED BY <2>1, <1>a, <1>c, <1>d DEF OnQuery, ParserFields, RequestFields
  <1>5. ParserOK(OnVersion(p, b, i), i)
    <2>1. PICK x, y, z : x = "1.1" /\ y = "1.0" /\ z = "0" OBVIOUS
    <2>2. PICK u, v, w : /\ u = [p EXCEPT !.req.version = x] /\ v = [p EXCEPT !.req.version = y]
                         /\ w = [p EXCEPT !.error = 1001, !.req.version = z]
      BY ZenonT(60)
    <2>3. ParserOK(u, i) BY <2>2, <1>a, <1>c, <1>d DEF ParserFields, RequestFields
    <2>4. ParserOK(v, i) BY <2>2, <1>a, <1>c, <1>d DEF ParserFields, RequestFields
    <2>5. ParserOK(w, i)
      <3>1. /\ DOMAIN w = ParserFields /\ w.cs = p.cs /\ w.back = p.back /\ w.mark = p.mark
            /\ w.queryStart = p.queryStart /\ w.fieldStart = p.fieldStart
            /\ w.fieldLen = p.fieldLen /\ w.req = [p.req EXCEPT !.version = z]
        BY <2>2, <1>d DEF ParserFields
      <3>2. DOMAIN w.req = DOMAIN p.req /\ w.req.headers = p.req.headers
        BY <3>1, <1>d DEF RequestFields
      <3> QED BY <3>1, <3>2, <1>a, <1>c, <1>d
    <2>6. OnVersion(p, b, i) \in {u, v, w} BY <2>1, <2>2 DEF OnVersion
    <2> QED BY <2>3, <2>4, <2>5, <2>6
  <1>6. ParserOK(OnField(p, b, i), i)
    <2>1. PICK name : name = SubSeq(b, p.fieldStart, p.fieldStart + p.fieldLen - 1) OBVIOUS
    <2>2. PICK q : q = [p EXCEPT !.req.headers = SetHeader(@, name, Token(p, b, i))] OBVIOUS
    <2>3. q.req.headers = SetHeader(p.req.headers, name, Token(p, b, i))
      BY <2>2, <1>d DEF ParserFields, RequestFields
    <2>4. \A h \in DOMAIN q.req.headers : q.req.headers[h] \in Seq(Chars)
      BY <2>3, <1>b, <1>c DEF SetHeader
    <2>5. ParserOK(q, i) BY <2>2, <2>4, <1>a, <1>d DEF ParserFields, RequestFields
    <2> QED BY <2>1, <2>2, <2>5 DEF OnField
  <1> QED BY <1>b, <1>1, <1>2, <1>3, <1>4, <1>5, <1>6

\* The handlers of the request line.
LEMMA TargetEndOK ==
  ASSUME NEW b \in Seq(Chars), NEW i \in 1 .. Len(b), NEW p, ParserOK(p, i), NEW c
  PROVE  ParserOK(TargetEnd(p, b, i, c), i + 1) /\ ParserOK(Err(p), i + 1)
  <1>0. i \in Nat \ {0} BY LenProperties
  <1>1. PICK q : q = OnPath(p, b, i) /\ ParserOK(q, i) BY CallbacksOK
  <1>2. {"brace", "query0", "fragment0", "version", "error"} \subseteq Outside BY DEF Outside, Ended
  <1>3. \A s \in Outside : ParserOK(To(q, s), i + 1) /\ ParserOK([q EXCEPT !.cs = s, !.n = 0], i + 1)
    BY <1>0, <1>1, ToOK, UpdateOK
  <1>4. ParserOK(Err(p), i + 1) BY <1>0, <1>2, ToOK DEF Err
  <1> QED BY <1>1, <1>2, <1>3, <1>4 DEF TargetEnd

\* What a handler of the target's parts may answer a character with.
Answers(p, b, i, q) ==
  \/ \E s \in Outside : q \in {To(p, s), PctTo(p, s)}
  \/ \E c : q = TargetEnd(p, b, i, c)
  \/ q = p

\* Each such answer leaves a parser that has stayed in its buffer.
LEMMA AnswersOK ==
  ASSUME NEW b \in Seq(Chars), NEW i \in 1 .. Len(b), NEW p, ParserOK(p, i), NEW q,
         Answers(p, b, i, q)
  PROVE  ParserOK(q, i + 1)
  <1>0. i \in Nat \ {0} BY LenProperties
  <1>1. ASSUME NEW s \in Outside, q \in {To(p, s), PctTo(p, s)} PROVE ParserOK(q, i + 1)
    <2>1. ParserOK(To(p, s), i + 1) BY <1>0, ToOK
    <2>2. ParserOK(PctTo(p, s), i + 1) BY <1>0, UpdateOK
    <2> QED BY <1>1, <2>1, <2>2
  <1>2. ASSUME NEW c, q = TargetEnd(p, b, i, c) PROVE ParserOK(q, i + 1)
    BY <1>2, TargetEndOK
  <1>3. CASE q = p BY <1>0, <1>3, MarksGrow
  <1> QED BY <1>1, <1>2, <1>3 DEF Answers

\* And the handlers of the target's parts answer like that.
LEMMA PartsAnswer ==
  ASSUME NEW b, NEW i, NEW p, NEW c
  PROVE  /\ Answers(p, b, i, Segment(p, b, i, c)) /\ Answers(p, b, i, TargetPath(p, b, i, c))
         /\ Answers(p, b, i, TargetSlash(p, b, i, c)) /\ Answers(p, b, i, Scheme(p, b, i, c))
         /\ Answers(p, b, i, InRegName(p, b, i, c)) /\ Answers(p, b, i, PortOrUser(p, b, i, c))
         /\ Answers(p, b, i, Userinfo(p, c)) /\ Answers(p, b, i, InHostName(p, b, i, c))
         /\ Answers(p, b, i, Closed(p, b, i, c)) /\ Answers(p, b, i, InPort(p, b, i, c))
         /\ Answers(p, b, i, Err(p))
  <1>0. {"path", "segment", "slash", "authority", "hier", "regname", "colon", "host", "user",
         "hostname", "port", "closed", "error"} \subseteq Outside
    BY DEF Outside, Ended
  <1>a. /\ \A s \in Outside : Answers(p, b, i, To(p, s)) /\ Answers(p, b, i, PctTo(p, s))
        /\ Answers(p, b, i, TargetEnd(p, b, i, c)) /\ Answers(p, b, i, p)
    BY DEF Answers
  <1>b. Answers(p, b, i, Err(p)) BY <1>0, <1>a DEF Err
  <1>1. Answers(p, b, i, Segment(p, b, i, c)) BY <1>0, <1>a DEF Segment
  <1>2. Answers(p, b, i, TargetPath(p, b, i, c)) BY <1>0, <1>a DEF TargetPath
  <1>3. Answers(p, b, i, TargetSlash(p, b, i, c)) BY <1>0, <1>a, <1>2 DEF TargetSlash
  <1>4. Answers(p, b, i, Scheme(p, b, i, c)) BY <1>0, <1>a, <1>1 DEF Scheme
  <1>5. Answers(p, b, i, InRegName(p, b, i, c)) BY <1>0, <1>a DEF InRegName
  <1>6. Answers(p, b, i, PortOrUser(p, b, i, c)) BY <1>0, <1>a DEF PortOrUser
  <1>7. Answers(p, b, i, Userinfo(p, c)) BY <1>0, <1>a, <1>b DEF Userinfo
  <1>8. Answers(p, b, i, InHostName(p, b, i, c)) BY <1>0, <1>a DEF InHostName
  <1>9. Answers(p, b, i, Closed(p, b, i, c)) BY <1>0, <1>a DEF Closed
  <1>10. Answers(p, b, i, InPort(p, b, i, c)) BY <1>0, <1>a DEF InPort
  <1> QED BY <1>b, <1>1, <1>2, <1>3, <1>4, <1>5, <1>6, <1>7, <1>8, <1>9, <1>10

\* Marks of a word's beginning, of a header's name and of a query.
LEMMA MarkOK ==
  ASSUME NEW i \in Nat \ {0}, NEW p, ParserOK(p, i), NEW s \in Outside, NEW x
  PROVE  /\ ParserOK([p EXCEPT !.cs = s, !.mark = i], i + 1)
         /\ ParserOK([p EXCEPT !.cs = s, !.mark = i, !.n = x], i + 1)
         /\ ParserOK([p EXCEPT !.cs = s, !.mark = i, !.json = x], i + 1)
         /\ ParserOK([p EXCEPT !.queryStart = i], i)
         /\ p.cs \notin InValue => ParserOK([p EXCEPT !.fieldStart = i], i)
         /\ ParserOK(FieldLen(p, i), i + 1)
  <1>a. DOMAIN p = ParserFields /\ ParserShape(p) /\ Marks(p, i) BY DEF ParserOK, ParserShape
  <1>b. i \in 1 .. i /\ i \in 1 .. i + 1 /\ i \in Nat OBVIOUS
  <1>0. s \notin InValue BY DEF Outside, InValue, Ended
  <1>1. ASSUME NEW q, DOMAIN q = ParserFields, q.cs = s, q.back = p.back, q.req = p.req,
               q.queryStart = p.queryStart, q.mark = i, q.fieldStart = p.fieldStart,
               q.fieldLen = p.fieldLen
        PROVE  ParserOK(q, i + 1)
    <2>1. ParserShape(q) BY <1>1, <1>a DEF ParserShape
    <2>2. Marks(q, i + 1) BY <1>1, <1>0, <1>a DEF Marks
    <2> QED BY <2>1, <2>2 DEF ParserOK
  <1>2. ParserOK([p EXCEPT !.cs = s, !.mark = i], i + 1)
    <2>1. PICK q : q = [p EXCEPT !.cs = s, !.mark = i] OBVIOUS
    <2> QED BY <2>1, <1>1, <1>a DEF ParserFields
  <1>3. ParserOK([p EXCEPT !.cs = s, !.mark = i, !.n = x], i + 1)
    <2>1. PICK q : q = [p EXCEPT !.cs = s, !.mark = i, !.n = x] OBVIOUS
    <2> QED BY <2>1, <1>1, <1>a DEF ParserFields
  <1>4. ParserOK([p EXCEPT !.cs = s, !.mark = i, !.json = x], i + 1)
    <2>1. PICK q : q = [p EXCEPT !.cs = s, !.mark = i, !.json = x] OBVIOUS
    <2> QED BY <2>1, <1>1, <1>a DEF ParserFields
  <1>5. ParserOK([p EXCEPT !.queryStart = i], i)
    <2>1. PICK q : q = [p EXCEPT !.queryStart = i] OBVIOUS
    <2>2. /\ DOMAIN q = ParserFields /\ q.cs = p.cs /\ q.back = p.back /\ q.req = p.req
          /\ q.queryStart = i /\ q.mark = p.mark /\ q.fieldStart = p.fieldStart
          /\ q.fieldLen = p.fieldLen
      BY <2>1, <1>a DEF ParserFields
    <2>3. ParserShape(q) BY <2>2, <1>a DEF ParserShape
    <2>4. Marks(q, i) BY <2>2, <1>a DEF Marks
    <2> QED BY <2>1, <2>3, <2>4 DEF ParserOK
  <1>6. ASSUME p.cs \notin InValue PROVE ParserOK([p EXCEPT !.fieldStart = i], i)
    <2>1. PICK q : q = [p EXCEPT !.fieldStart = i] OBVIOUS
    <2>2. /\ DOMAIN q = ParserFields /\ q.cs = p.cs /\ q.back = p.back /\ q.req = p.req
          /\ q.queryStart = p.queryStart /\ q.mark = p.mark /\ q.fieldStart = i
          /\ q.fieldLen = p.fieldLen
      BY <2>1, <1>a DEF ParserFields
    <2>3. ParserShape(q) BY <2>2, <1>a DEF ParserShape
    <2>4. Marks(q, i) BY <2>2, <1>6, <1>a DEF Marks
    <2> QED BY <2>1, <2>3, <2>4 DEF ParserOK
  <1>7. ParserOK(FieldLen(p, i), i + 1)
    <2>1. PICK q : q = FieldLen(p, i) OBVIOUS
    <2>2. /\ DOMAIN q = ParserFields /\ q.cs = "value0" /\ q.back = p.back /\ q.req = p.req
          /\ q.queryStart = p.queryStart /\ q.mark = p.mark /\ q.fieldStart = p.fieldStart
          /\ q.fieldLen = i - p.fieldStart
      BY <2>1, <1>a DEF ParserFields, FieldLen
    <2>3. ParserShape(q) BY <2>2, <1>a DEF ParserShape, InValue
    <2>4. Marks(q, i + 1) BY <2>2, <1>a DEF Marks
    <2> QED BY <2>1, <2>3, <2>4 DEF ParserOK
  <1> QED BY <1>2, <1>3, <1>4, <1>5, <1>6, <1>7

\* Every step of the machine.
LEMMA StepOK ==
  ASSUME NEW b \in Seq(Chars), NEW i \in 1 .. Len(b), NEW p, ParserOK(p, i), p.cs \notin Ended
  PROVE  ParserOK(ParserStep(p, b, i), i + 1)
  <1> DEFINE c == b[i]
  <1> HIDE DEF c
  <1>0. i \in Nat \ {0} BY LenProperties
  <1>a. \A s \in Outside : /\ ParserOK(To(p, s), i + 1) /\ ParserOK(PctTo(p, s), i + 1)
    BY <1>0, ToOK, UpdateOK
  <1>b. ParserOK(Err(p), i + 1) /\ ParserOK(p, i + 1) /\ ParserOK(TargetEnd(p, b, i, c), i + 1)
    BY <1>0, TargetEndOK, MarksGrow
  <1>c. PICK m : m = At(p, i) /\ ParserOK(m, i) /\ m.cs = p.cs BY <1>0, AtOK
  <1>d. ASSUME NEW q, ParserOK(q, i)
        PROVE  /\ ParserOK(Segment(q, b, i, c), i + 1) /\ ParserOK(TargetPath(q, b, i, c), i + 1)
               /\ ParserOK(TargetSlash(q, b, i, c), i + 1) /\ ParserOK(Scheme(q, b, i, c), i + 1)
               /\ ParserOK(InRegName(q, b, i, c), i + 1) /\ ParserOK(PortOrUser(q, b, i, c), i + 1)
               /\ ParserOK(Userinfo(q, c), i + 1) /\ ParserOK(InHostName(q, b, i, c), i + 1)
               /\ ParserOK(Closed(q, b, i, c), i + 1) /\ ParserOK(InPort(q, b, i, c), i + 1)
    BY <1>d, PartsAnswer, AnswersOK
  <1>e. \A s \in Outside : ParserOK(To(m, s), i + 1) BY <1>0, <1>c, ToOK
  <1>f. ASSUME NEW s \in Outside, NEW x
        PROVE  /\ ParserOK([p EXCEPT !.cs = s, !.mark = i], i + 1)
               /\ ParserOK([p EXCEPT !.cs = s, !.mark = i, !.n = x], i + 1)
               /\ ParserOK([p EXCEPT !.cs = s, !.mark = i, !.json = x], i + 1)
               /\ ParserOK([p EXCEPT !.n = x], i + 1)
               /\ ParserOK([p EXCEPT !.cs = s, !.lit = x], i + 1)
               /\ ParserOK([p EXCEPT !.lit = x], i + 1)
    BY <1>0, <1>f, MarkOK, UpdateOK
  <1>1. ParserOK(FirstByte(p, i, c), i + 1)
    <2>1. {"method", "xml0", "target"} \subseteq Outside BY DEF Outside, Ended
    <2>2. PICK q1, q2, q3 : /\ q1 = [p EXCEPT !.cs = "method", !.mark = i, !.n = 1]
                            /\ q2 = [p EXCEPT !.cs = "xml0", !.mark = i]
                            /\ q3 = [p EXCEPT !.cs = "target", !.mark = i, !.json = TRUE]
      OBVIOUS
    <2>3. ParserOK(q1, i + 1) BY <2>1, <2>2, <1>f
    <2>4. ParserOK(q2, i + 1) BY <2>1, <2>2, <1>f
    <2>5. ParserOK(q3, i + 1) BY <2>1, <2>2, <1>f
    <2> QED BY <1>b, <2>2, <2>3, <2>4, <2>5 DEF FirstByte
  <1>2. ParserOK(Method(p, b, i, c), i + 1)
    <2>1. "target" \in Outside BY DEF Outside, Ended
    <2>2. PICK q : q = OnMethod(p, b, i) /\ ParserOK(q, i) BY CallbacksOK
    <2>3. ParserOK(To(q, "target"), i + 1) BY <1>0, <2>1, <2>2, ToOK
    <2>4. ParserOK([p EXCEPT !.n = p.n + 1], i + 1) BY <2>1, <1>f
    <2> QED BY <1>b, <2>2, <2>3, <2>4 DEF Method
  <1>3. ParserOK(Target(p, b, i, c), i + 1)
    <2>1. {"slash", "scheme"} \subseteq Outside BY DEF Outside, Ended
    <2>2. ParserOK(Segment(m, b, i, c), i + 1) BY <1>c, <1>d
    <2> QED BY <1>c, <1>e, <2>1, <2>2 DEF Target
  <1>4. ParserOK(JsonTarget(p, b, i, c), i + 1)
    <2>1. "slash" \in Outside BY DEF Outside, Ended
    <2> QED BY <1>a, <1>d, <2>1 DEF JsonTarget
  <1>5. ParserOK(HierPart(p, b, i, c), i + 1)
    <2>1. "slash" \in Outside BY DEF Outside, Ended
    <2>2. ParserOK(TargetPath(m, b, i, c), i + 1) BY <1>c, <1>d
    <2> QED BY <1>c, <1>e, <2>1, <2>2 DEF HierPart
  <1>6. ParserOK(InAuthority(p, b, i, c), i + 1) /\ ParserOK(InHost(p, b, i, c), i + 1)
    <2>1. "literal" \in Outside BY DEF Outside, Ended
    <2>2. PICK l : l = LiteralStart(Literal11) OBVIOUS
    <2>3. ParserOK([p EXCEPT !.cs = "literal", !.lit = l], i + 1) BY <2>1, <1>f
    <2> QED BY <1>d, <2>2, <2>3 DEF InAuthority, InHost
  <1>7. ParserOK(InLiteral(p, c), i + 1)
    <2>1. "closed" \in Outside BY DEF Outside, Ended
    <2>2. PICK l, k : l = Literal(Literal11, p.lit, c) /\ k = LiteralStart(Literal11) OBVIOUS
    <2>3. ParserOK([p EXCEPT !.cs = "closed", !.lit = k], i + 1) BY <2>1, <1>f
    <2>4. ParserOK([p EXCEPT !.lit = l], i + 1) BY <2>1, <1>f
    <2> QED BY <1>b, <2>2, <2>3, <2>4 DEF InLiteral
  <1>8. ParserOK(Query(p, b, i, c), i + 1)
    <2>1. {"version", "fragment0", "query"} \subseteq Outside BY DEF Outside, Ended
    <2>2. PICK q : q = (IF p.cs = "query0" THEN [p EXCEPT !.queryStart = i] ELSE p) OBVIOUS
    <2>3. ParserOK(q, i)
      <3>1. PICK q1 : q1 = [p EXCEPT !.queryStart = i] OBVIOUS
      <3>2. ParserOK(q1, i) BY <1>0, <3>1, <2>1, MarkOK
      <3> QED BY <2>2, <3>1, <3>2
    <2>4. PICK r : r = OnQuery(q, b, i) /\ ParserOK(r, i) BY <2>3, CallbacksOK
    <2>5. ParserOK([r EXCEPT !.cs = "version", !.n = 0], i + 1) BY <1>0, <2>1, <2>4, UpdateOK
    <2>6. ParserOK(To(r, "fragment0"), i + 1) BY <1>0, <2>1, <2>4, ToOK
    <2>7. ParserOK(PctTo(q, "query"), i + 1) BY <1>0, <2>1, <2>3, UpdateOK
    <2>8. ParserOK(To(q, "query"), i + 1) BY <1>0, <2>1, <2>3, ToOK
    <2> QED BY <1>b, <2>2, <2>4, <2>5, <2>6, <2>7, <2>8 DEF Query
  <1>9. ParserOK(Fragment(p, b, i, c), i + 1)
    <2>1. {"version", "fragment"} \subseteq Outside BY DEF Outside, Ended
    <2>2. PICK q : q = (IF p.cs = "fragment0" THEN At(p, i) ELSE p) /\ ParserOK(q, i) BY <1>c
    <2>3. PICK r : r = OnFragment(q, b, i) /\ ParserOK(r, i) BY <2>2, CallbacksOK
    <2>4. ParserOK([r EXCEPT !.cs = "version", !.n = 0], i + 1) BY <1>0, <2>1, <2>3, UpdateOK
    <2>5. ParserOK(PctTo(q, "fragment"), i + 1) BY <1>0, <2>1, <2>2, UpdateOK
    <2>6. ParserOK(To(q, "fragment"), i + 1) BY <1>0, <2>1, <2>2, ToOK
    <2> QED BY <1>b, <2>2, <2>3, <2>4, <2>5, <2>6 DEF Fragment
  <1>10. ParserOK(PctDigit(p, c), i + 1)
    <2>1. "pct2" \in Outside /\ p.back \in Outside BY DEF Outside, Ended, ParserOK, ParserShape
    <2> QED BY <1>a, <1>b, <2>1 DEF PctDigit
  <1>11. ParserOK(Version(p, b, i, c), i + 1)
    <2>1. {"header", "lf"} \subseteq Outside BY DEF Outside, Ended
    <2>2. PICK q : q = (IF p.n = 0 THEN At(p, i) ELSE p) /\ ParserOK(q, i) BY <1>c
    <2>3. PICK r : r = OnVersion(p, b, i) /\ ParserOK(r, i) BY CallbacksOK
    <2>4. ParserOK([q EXCEPT !.n = q.n + 1], i + 1) BY <1>0, <2>1, <2>2, UpdateOK
    <2>5. ParserOK(To(r, "header"), i + 1) /\ ParserOK(To(r, "lf"), i + 1)
      BY <1>0, <2>1, <2>3, ToOK
    <2> QED BY <1>b, <2>2, <2>3, <2>4, <2>5 DEF Version
  <1>12. ASSUME p.cs = "header" PROVE ParserOK(HeaderLine(p, i, c), i + 1)
    <2>1. {"done", "cr", "name"} \subseteq Outside BY DEF Outside, Ended
    <2>2. PICK q : q = [p EXCEPT !.fieldStart = i] OBVIOUS
    <2>3. ParserOK(q, i) BY <1>0, <1>12, <2>1, <2>2, MarkOK DEF InValue
    <2>4. \A s \in Outside : ParserOK(To(q, s), i + 1) BY <1>0, <2>3, ToOK
    <2> QED BY <1>b, <2>1, <2>2, <2>4 DEF HeaderLine, Done
  <1>13. ParserOK(FieldLen(p, i), i + 1)
    <2>1. "name" \in Outside BY DEF Outside, Ended
    <2> QED BY <1>0, <2>1, MarkOK
  <1>14. ParserOK(HeaderCr(p, i, c), i + 1) /\ ParserOK(FieldName(p, i, c), i + 1)
    <2>1. {"done", "name"} \subseteq Outside BY DEF Outside, Ended
    <2> QED BY <1>a, <1>b, <1>13, <2>1 DEF HeaderCr, FieldName, Done
  <1>15. ASSUME p.cs \in InValue PROVE ParserOK(FieldValue(p, b, i, c), i + 1)
    <2>1. {"header", "lf"} \subseteq Outside BY DEF Outside, Ended
    <2>2. PICK q : /\ q = (IF p.cs = "value0" THEN At(p, i) ELSE p)
                   /\ ParserOK(q, i) /\ q.cs = p.cs
      BY <1>c
    <2>3. PICK r : r = OnField(q, b, i) /\ ParserOK(r, i) BY <2>2, CallbacksOK
    <2>4. ParserOK(To(r, "header"), i + 1) /\ ParserOK(To(r, "lf"), i + 1)
      BY <1>0, <2>1, <2>3, ToOK
    <2>5. ParserOK(q, i + 1) BY <1>0, <2>2, MarksGrow
    <2>6. ParserOK(To(q, "value"), i + 1)
      <3>1. PICK u : u = To(q, "value") OBVIOUS
      <3>2. DOMAIN q = ParserFields /\ ParserShape(q) /\ Marks(q, i)
        BY <2>2 DEF ParserOK, ParserShape
      <3>3. /\ DOMAIN u = ParserFields /\ u.cs = "value" /\ u.back = q.back /\ u.req = q.req
            /\ u.queryStart = q.queryStart /\ u.mark = q.mark /\ u.fieldStart = q.fieldStart
            /\ u.fieldLen = q.fieldLen
        BY <3>1, <3>2 DEF ParserFields, To
      <3>4. ParserShape(u) BY <3>2, <3>3 DEF ParserShape, InValue
      <3>5. Marks(u, i + 1) BY <3>2, <3>3, <2>2, <1>15 DEF Marks
      <3> QED BY <3>1, <3>4, <3>5 DEF ParserOK
    <2> QED BY <1>b, <2>2, <2>3, <2>4, <2>5, <2>6 DEF FieldValue
  <1>16. ParserOK(LineFeed(p, c), i + 1)
    <2>1. "header" \in Outside BY DEF Outside, Ended
    <2> QED BY <1>a, <1>b, <2>1 DEF LineFeed
  <1>17. ParserOK(XmlTag(p, b, i, c), i + 1)
    <2>1. {"xmlTag", "xml"} \subseteq Outside BY DEF Outside, Ended
    <2>2. PICK q : q = OnPath(p, b, i) /\ ParserOK(q, i) BY CallbacksOK
    <2>3. ParserOK(To(q, "xml"), i + 1) BY <1>0, <2>1, <2>2, ToOK
    <2> QED BY <1>a, <1>b, <2>1, <2>2, <2>3 DEF XmlTag
  <1>18. ParserOK(XmlData(p, c), i + 1) /\ ParserOK(JsonData(p, c), i + 1)
    <2>1. {"xmlEnd", "done", "xml", "jsonEnd", "json"} \subseteq Outside BY DEF Outside, Ended
    <2> QED BY <1>a, <1>b, <2>1 DEF XmlData, JsonData, Done
  <1>19. ParserOK(JsonBrace(p, i, c), i + 1)
    <2>1. "json" \in Outside BY DEF Outside, Ended
    <2> QED BY <1>b, <1>c, <1>e, <2>1 DEF JsonBrace
  <1>20. p.cs \in Outside \cup InValue BY DEF ParserOK, ParserShape
  <1>21. \A q : q \in {Segment(p, b, i, c), TargetPath(p, b, i, c), TargetSlash(p, b, i, c),
                       Scheme(p, b, i, c), InRegName(p, b, i, c), PortOrUser(p, b, i, c),
                       Userinfo(p, c), InHostName(p, b, i, c), Closed(p, b, i, c),
                       InPort(p, b, i, c)} => ParserOK(q, i + 1)
    BY <1>d
  <1> QED
    BY <1>1, <1>2, <1>3, <1>4, <1>5, <1>6, <1>7, <1>8, <1>9, <1>10, <1>11, <1>12, <1>14, <1>15,
       <1>16, <1>17, <1>18, <1>19, <1>20, <1>21
    DEF ParserStep, c, Outside, InValue, Ended

\* The recursive function of Execute, on the first N bytes.
Runs(g, p, b, N) ==
  \A i \in 0 .. N : g[i] = IF i = 0 THEN [p |-> Reset(p), n |-> 0]
                           ELSE ExecuteByte(g[i - 1], b, i)

\* It exists.
LEMMA RunExists ==
  ASSUME NEW p, NEW b
  PROVE  \A N \in Nat : \E g : g = [i \in 0 .. N |-> g[i]] /\ Runs(g, p, b, N)
  <1> DEFINE S == {N \in Nat : \E g : g = [i \in 0 .. N |-> g[i]] /\ Runs(g, p, b, N)}
  <1>1. 0 \in S
    <2>1. PICK z : z = [p |-> Reset(p), n |-> 0] OBVIOUS
    <2>2. PICK g : g = [i \in 0 .. 0 |-> z] OBVIOUS
    <2>3. g = [i \in 0 .. 0 |-> g[i]] BY <2>2
    <2>4. Runs(g, p, b, 0) BY <2>1, <2>2 DEF Runs
    <2> QED BY <2>3, <2>4
  <1>2. ASSUME NEW N \in Nat, N \in S PROVE N + 1 \in S
    <2>1. PICK g : Runs(g, p, b, N) BY <1>2
    <2>2. PICK z : z = ExecuteByte(g[N], b, N + 1) OBVIOUS
    <2>3. PICK f : f = [i \in 0 .. N + 1 |-> IF i = N + 1 THEN z ELSE g[i]] OBVIOUS
    <2>4. f = [i \in 0 .. N + 1 |-> f[i]] BY <2>3
    <2>5. ASSUME NEW i \in 0 .. N + 1
          PROVE  f[i] = IF i = 0 THEN [p |-> Reset(p), n |-> 0] ELSE ExecuteByte(f[i - 1], b, i)
      <3>1. CASE i = N + 1
        <4>1. f[i] = z /\ f[i - 1] = g[N] /\ i # 0 BY <3>1, <2>3
        <4> QED BY <4>1, <3>1, <2>2
      <3>2. CASE i # N + 1
        <4>1. i \in 0 .. N /\ f[i] = g[i] /\ (i # 0 => f[i - 1] = g[i - 1]) BY <3>2, <2>3
        <4> QED BY <4>1, <2>1 DEF Runs
      <3> QED BY <3>1, <3>2
    <2>6. Runs(f, p, b, N + 1) BY <2>5 DEF Runs
    <2> QED BY <2>4, <2>6
  <1> HIDE DEF S
  <1>3. \A N \in Nat : N \in S BY <1>1, <1>2, Induct
  <1> QED BY <1>3 DEF S

\* What the recursion of Execute reads as.
IsRun(g, p, b) ==
  g = [i \in 0 .. Len(b) |->
         IF i = 0 THEN [p |-> Reset(p), n |-> 0]
         ELSE CHOOSE x \in {ExecuteByte(r, b, i) : r \in {g[i - 1]}} : TRUE]

\* What the recursive function of Execute computes is such a run.
LEMMA ExecuteRuns ==
  ASSUME NEW p, NEW b, Len(b) \in Nat
  PROVE  \E g : Runs(g, p, b, Len(b)) /\ Execute(p, b) = g[Len(b)]
  <1>0. \A x : \A i : (CHOOSE y \in {ExecuteByte(r, b, i) : r \in {x}} : TRUE) = ExecuteByte(x, b, i)
    OBVIOUS
  <1>1. PICK f : f = [i \in 0 .. Len(b) |-> f[i]] /\ Runs(f, p, b, Len(b)) BY RunExists
  <1>2. IsRun(f, p, b)
    <2>1. f = [i \in 0 .. Len(b) |->
                 IF i = 0 THEN [p |-> Reset(p), n |-> 0] ELSE ExecuteByte(f[i - 1], b, i)]
      BY <1>1 DEF Runs
    <2> QED BY <2>1, <1>0 DEF IsRun
  <1> DEFINE g == CHOOSE g : IsRun(g, p, b)
  <1>3. IsRun(g, p, b) BY <1>2
  <1>4. Execute(p, b) = g[Len(b)] BY DEF Execute, IsRun
  <1> HIDE DEF g
  <1>5. Runs(g, p, b, Len(b)) BY <1>0, <1>3 DEF IsRun, Runs
  <1> QED BY <1>4, <1>5

\* A run of execute has stayed in its buffer after every byte.
LEMMA RunInBuffer ==
  ASSUME NEW b \in Seq(Chars), NEW p, ParserShape(p), NEW g, Runs(g, p, b, Len(b))
  PROVE  \A i \in 0 .. Len(b) : g[i].n \in 0 .. i /\ ParserOK(g[i].p, i + 1)
  <1>0. Len(b) \in Nat BY LenProperties
  <1> DEFINE S == {i \in Nat : i <= Len(b) => g[i].n \in 0 .. i /\ ParserOK(g[i].p, i + 1)}
  <1>2. 0 \in S
    <2>1. g[0] = [p |-> Reset(p), n |-> 0] BY <1>0 DEF Runs
    <2>2. PICK q : q = Reset(p) OBVIOUS
    <2>3. ParserShape(q) BY <2>2 DEF ParserShape, Reset, ParserFields
    <2>4. q.mark = 1 /\ q.fieldStart = 1 /\ q.fieldLen = 0
      BY <2>2 DEF ParserShape, Reset, ParserFields
    <2>5. Marks(q, 1) BY <2>4 DEF Marks
    <2>6. ParserOK(q, 0 + 1) BY <2>3, <2>5 DEF ParserOK
    <2> QED BY <2>1, <2>2, <2>6
  <1>3. ASSUME NEW i \in Nat, i \in S PROVE i + 1 \in S
    <2> SUFFICES ASSUME i + 1 <= Len(b)
                 PROVE  g[i + 1].n \in 0 .. i + 1 /\ ParserOK(g[i + 1].p, (i + 1) + 1)
      OBVIOUS
    <2>1. PICK r, j : r = g[i] /\ j = i + 1 OBVIOUS
    <2>2. j \in 1 .. Len(b) /\ j \in Nat \ {0} BY <1>0, <2>1
    <2>3. r.n \in 0 .. i /\ ParserOK(r.p, j) BY <1>3, <2>1
    <2>4. g[j] = ExecuteByte(r, b, j) BY <1>0, <2>1, <2>2 DEF Runs
    <2>5. CASE r.p.cs \in {"done", "error"} \/ Threw(r.p)
      <3>1. g[j] = r BY <2>4, <2>5 DEF ExecuteByte
      <3>2. ParserOK(r.p, j + 1) BY <2>2, <2>3, MarksGrow
      <3> QED BY <3>1, <3>2, <2>1, <2>3
    <2>6. CASE ~(r.p.cs \in {"done", "error"} \/ Threw(r.p))
      <3>1. g[j] = [p |-> ParserStep(r.p, b, j), n |-> j] BY <2>4, <2>6 DEF ExecuteByte
      <3>2. PICK q : q = r.p OBVIOUS
      <3>3. ParserOK(ParserStep(q, b, j), j + 1) BY <2>2, <2>3, <2>6, <3>2, StepOK DEF Ended
      <3> QED BY <3>1, <3>2, <3>3, <2>1
    <2> QED BY <2>5, <2>6
  <1> HIDE DEF S
  <1>4. \A i \in Nat : i \in S BY <1>2, <1>3, Induct
  <1> QED BY <1>0, <1>4 DEF S

\* Whatever has been read before, a call of execute stays in its buffer: it takes
\* no more bytes than there are, and every pointer it leaves and every token it
\* hands to a callback (CallbacksOK) lies in the buffer.
THEOREM ExecuteInBuffer ==
  ASSUME NEW b \in Seq(Chars), NEW p, ParserShape(p)
  PROVE  /\ Execute(p, b).n \in 0 .. Len(b)
         /\ ParserOK(Execute(p, b).p, Len(b) + 1)
  <1>0. Len(b) \in Nat /\ Len(b) \in 0 .. Len(b) BY LenProperties
  <1>1. PICK g : Runs(g, p, b, Len(b)) /\ Execute(p, b) = g[Len(b)] BY <1>0, ExecuteRuns
  <1>2. \A i \in 0 .. Len(b) : g[i].n \in 0 .. i /\ ParserOK(g[i].p, i + 1)
    BY <1>1, RunInBuffer
  <1> QED BY <1>0, <1>1, <1>2

-----------------------------------------------------------------------------
\* A number's text stands for a number.
LEMMA DigitHasValue ==
  \A d \in Digit : \E v \in 0 .. 9 :
    <<"0", "1", "2", "3", "4", "5", "6", "7", "8", "9">>[v + 1] = d
  BY DEF Digit
\* A digit of a number is one of the ten.
LEMMA DigitOfType == \A n \in 0 .. 9 : DigitOf(n) \in Digit
  BY DEF Digit, DigitOf

IsVal(g, s) ==
  g = [k \in 0 .. Len(s) |->
         IF k = 0 THEN 0
         ELSE 10 * g[k - 1] + (CHOOSE v \in 0 .. 9 :
                <<"0", "1", "2", "3", "4", "5", "6", "7", "8", "9">>[v + 1] = s[k])]

\* getHeaderAs<uint64_t> returns a number for every text.
LEMMA NumberType ==
  ASSUME NEW s \in Seq(Chars)
  PROVE  NumberOf(s) \in Nat
  <1>1. CASE s = <<>> \/ \E k \in DOMAIN s : s[k] \notin Digit BY <1>1 DEF NumberOf
  <1>2. CASE ~(s = <<>> \/ \E k \in DOMAIN s : s[k] \notin Digit)
    <2>1. PICK n \in Nat : n = Len(s) BY LenProperties
    <2>2. DOMAIN s = 1 .. n BY <2>1, LenProperties
    <2> DEFINE d(k) == CHOOSE v \in 0 .. 9 :
                         <<"0", "1", "2", "3", "4", "5", "6", "7", "8", "9">>[v + 1] = s[k]
    <2>3. \A k \in 1 .. n : d(k) \in Nat
      <3> TAKE k \in 1 .. n
      <3>1. s[k] \in Digit BY <1>2, <2>2
      <3>2. PICK x : x = s[k] OBVIOUS
      <3>3. \E v \in 0 .. 9 : <<"0", "1", "2", "3", "4", "5", "6", "7", "8", "9">>[v + 1] = s[k]
        BY <3>1, DigitHasValue
      <3>4. (CHOOSE v \in 0 .. 9 :
               <<"0", "1", "2", "3", "4", "5", "6", "7", "8", "9">>[v + 1] = s[k]) \in 0 .. 9
        BY <3>3, Zenon
      <3>5. 0 .. 9 \subseteq Nat OBVIOUS
      <3> QED BY <3>4, <3>5, Zenon
    <2>4. NumberOf(s) = (CHOOSE g : IsVal(g, s))[n] BY <1>2, <2>1 DEF NumberOf, IsVal
    <2>5. \A g : IsVal(g, s) <=> g = [k \in 0 .. n |-> IF k = 0 THEN 0 ELSE 10 * g[k - 1] + d(k)]
      BY <2>1 DEF IsVal
    <2> HIDE DEF d
    <2> DEFINE h == [k \in 1 .. n |-> [x \in Nat |-> 10 * x + d(k)]]
    <2>6. h \in [1 .. n -> [Nat -> Nat]] BY <2>3
    <2>7. \A k \in 1 .. n : \A x \in Nat : h[k][x] = 10 * x + d(k) OBVIOUS
    <2> HIDE DEF h
    <2>8. PICK f \in [0 .. n -> Nat] : Recursive(f, 0, h, n) BY <2>6, Recursion
    <2>9. \A k \in 0 .. n : f[k] = IF k = 0 THEN 0 ELSE 10 * f[k - 1] + d(k)
      <3> TAKE k \in 0 .. n
      <3>1. k # 0 => k \in 1 .. n /\ f[k - 1] \in Nat OBVIOUS
      <3> QED BY <3>1, <2>7, <2>8 DEF Recursive
    <2>10. IsVal(f, s)
      <3>1. f = [k \in 0 .. n |-> IF k = 0 THEN 0 ELSE 10 * f[k - 1] + d(k)] BY <2>9
      <3> QED BY <3>1, <2>5
    <2>11. PICK g : g = (CHOOSE z : IsVal(z, s)) /\ IsVal(g, s) BY <2>10
    <2>12. g = [k \in 0 .. n |-> IF k = 0 THEN 0 ELSE 10 * g[k - 1] + d(k)] BY <2>5, <2>11
    <2>13. \A k \in 0 .. n : g[k] = IF k = 0 THEN 0 ELSE 10 * g[k - 1] + d(k) BY <2>12
    <2> DEFINE S == {k \in Nat : k <= n => g[k] \in Nat}
    <2>14. 0 \in S BY <2>13
    <2>15. ASSUME NEW k \in Nat, k \in S PROVE k + 1 \in S
      <3> SUFFICES ASSUME k + 1 <= n PROVE g[k + 1] \in Nat OBVIOUS
      <3>1. k + 1 \in 0 .. n /\ k + 1 # 0 /\ (k + 1) - 1 = k /\ k + 1 \in 1 .. n OBVIOUS
      <3>2. g[k + 1] = 10 * g[k] + d(k + 1) BY <3>1, <2>13
      <3>3. g[k] \in Nat BY <2>15
      <3>4. d(k + 1) \in Nat BY <3>1, <2>3
      <3> QED BY <3>2, <3>3, <3>4
    <2> HIDE DEF S
    <2>16. n \in S BY <2>14, <2>15, Induct
    <2> QED BY <2>4, <2>11, <2>16 DEF S
  <1> QED BY <1>1, <1>2

\* getContentLength of a parsed head.
LEMMA LengthType ==
  ASSUME NEW p, ParserShape(p)
  PROVE  GetContentLength(p) \in Nat
  BY NumberType DEF GetContentLength, ParserShape

\* Sequences over a larger set.
LEMMA SeqGrows ==
  ASSUME NEW A, NEW B, A \subseteq B
  PROVE  Seq(A) \subseteq Seq(B)
  <1> SUFFICES ASSUME NEW s \in Seq(A) PROVE s \in Seq(B)
    OBVIOUS
  <1>1. Len(s) \in Nat /\ DOMAIN s = 1 .. Len(s) BY LenProperties
  <1>2. \A i \in 1 .. Len(s) : s[i] \in B BY ElementOfSeq
  <1>3. s = [i \in 1 .. Len(s) |-> s[i]] BY <1>1
  <1> QED BY <1>1, <1>2, <1>3, IsASeq

\* What the client sends is a text.
LEMMA DumpType ==
  ASSUME NEW m \in [method : Seq(STRING), path : Seq(STRING), query : Seq(STRING),
                    body : Seq(STRING)],
         Len(m.body) < 10
  PROVE  Dump(m) \in Seq(Chars)
  <1> DEFINE T == Seq(Chars)
  <1>0. \A s, t \in T : s \o t \in T BY ConcatProperties
  <1>1. Seq(STRING) \subseteq T
    <2>1. STRING \subseteq Chars BY Zenon DEF Chars
    <2> QED BY <2>1, SeqGrows, Zenon
  <1>2. /\ m.method \in T /\ m.path \in T /\ m.query \in T /\ m.body \in T
        /\ Connection \in T /\ CloseWord \in T /\ ContentLength \in T
    <2>1. m.method \in Seq(STRING) /\ m.path \in Seq(STRING) /\ m.query \in Seq(STRING)
          /\ m.body \in Seq(STRING)
      OBVIOUS
    <2>2. {Connection, CloseWord, ContentLength} \subseteq Seq(STRING)
      BY SessionAssumption, Zenon DEF SessionAssumption
    <2> HIDE DEF T
    <2> QED BY <1>1, <2>1, <2>2
  <1>a. SP \in Chars /\ ":" \in Chars BY Zenon DEF Chars
  <1>b. \A x, y, z \in Chars : <<x>> \in T /\ <<x, y>> \in T /\ <<x, y, z>> \in T OBVIOUS
  <1>3. <<SP>> \in T /\ <<":", SP>> \in T BY <1>a, <1>b, Zenon
  <1>4. <<"?">> \in T /\ CrLf \in T /\ Http11 \in T /\ <<>> \in T BY DEF CrLf, Http11, Chars, Digit
  <1>5. <<":", SP, DigitOf(Len(m.body))>> \in T
    <2>1. PICK n \in 0 .. 9 : n = Len(m.body)
      <3>1. m.body \in Seq(STRING) OBVIOUS
      <3>2. Len(m.body) \in Nat BY <3>1, LenProperties, Zenon
      <3>3. Len(m.body) \in 0 .. 9
        <4>1. PICK n : n = Len(m.body) OBVIOUS
        <4>2. n \in Nat /\ n < 10 BY <4>1, <3>2, Zenon
        <4>3. n \in 0 .. 9 BY <4>2
        <4> QED BY <4>1, <4>3, Zenon
      <3> QED BY <3>3, Zenon
    <2>2. DigitOf(n) \in Chars BY DigitOfType DEF Chars
    <2> QED BY <1>a, <1>b, <2>1, <2>2, Zenon
  <1> HIDE DEF T
  <1>6. PICK blank, colon, number \in T :
          blank = <<SP>> /\ colon = <<":", SP>> /\ number = <<":", SP, DigitOf(Len(m.body))>>
    BY <1>3, <1>5, Zenon
  <1>7. PICK q \in T : q = (IF m.query = <<>> THEN <<>> ELSE <<"?">> \o m.query)
    BY <1>0, <1>2, <1>4
  <1>8. PICK l \in T : l = (IF m.body = <<>> THEN <<>> ELSE ContentLength \o number \o CrLf)
    BY <1>0, <1>2, <1>4
  <1>9. PICK t \in T : t = (IF m.body = <<>> THEN <<>> ELSE m.body \o CrLf) BY <1>0, <1>2, <1>4
  <1>10. PICK a \in T : a = m.method \o blank \o m.path \o q BY <1>0, <1>2
  <1>11. PICK d \in T : d = a \o blank \o Http11 \o CrLf BY <1>0, <1>4
  <1>12. PICK e \in T : e = d \o Connection \o colon \o CloseWord BY <1>0, <1>2
  <1>13. PICK r \in T : r = e \o CrLf \o l \o CrLf BY <1>0, <1>4
  <1>14. DumpHead(m) =
           m.method \o blank \o m.path \o q \o blank \o Http11 \o CrLf \o Connection \o colon
           \o CloseWord \o CrLf \o l \o CrLf
    BY <1>6, <1>7, <1>8, Zenon DEF DumpHead
  <1>15. DumpHead(m) = r BY <1>10, <1>11, <1>12, <1>13, <1>14, Zenon
  <1>16. Dump(m) = r \o t BY <1>9, <1>15, Zenon DEF Dump
  <1> QED BY <1>0, <1>16 DEF T

\* So is the text of a connection.
LEMMA TextType == Text \in [Clients -> Seq(Chars)]
  <1> SUFFICES ASSUME NEW c \in Clients PROVE Text[c] \in Seq(Chars)
    BY DEF Text
  <1>1. Script[c] \in Seq([method : Seq(STRING), path : Seq(STRING), query : Seq(STRING),
                           body : Seq(STRING)])
        /\ \A k \in DOMAIN Script[c] : Len(Script[c][k].body) < 10
    BY SessionAssumption DEF SessionAssumption, Clients
  <1>2. PICK n \in Nat : n = Len(Script[c]) /\ DOMAIN Script[c] = 1 .. n BY <1>1, LenProperties
  <1>3. \A k \in 1 .. n : Dump(Script[c][k]) \in Seq(Chars)
    <2> TAKE k \in 1 .. n
    <2>1. PICK m : m = Script[c][k] OBVIOUS
    <2>2. m \in [method : Seq(STRING), path : Seq(STRING), query : Seq(STRING), body : Seq(STRING)]
          /\ Len(m.body) < 10
      BY <1>1, <1>2, <2>1, ElementOfSeq
    <2> QED BY <2>1, <2>2, DumpType
  <1>4. PICK T : T = Seq(Chars) OBVIOUS
  <1>5. <<>> \in T /\ \A s, t \in T : s \o t \in T BY <1>4, ConcatProperties
  <1>6. PICK d : d = [k \in 1 .. n |-> Dump(Script[c][k])] OBVIOUS
  <1>7. d \in [1 .. n -> T] BY <1>3, <1>4, <1>6
  <1> DEFINE IsText(g) == g = [k \in 0 .. n |-> IF k = 0 THEN <<>> ELSE g[k - 1] \o Dump(Script[c][k])]
  <1>8. Text[c] = (CHOOSE g : IsText(g))[n] BY <1>2 DEF Text
  <1>9. \A g : IsText(g) <=> g = [k \in 0 .. n |-> IF k = 0 THEN <<>> ELSE g[k - 1] \o d[k]]
    <2>1. \A k \in 0 .. n : k # 0 => d[k] = Dump(Script[c][k]) BY <1>6
    <2> QED BY <2>1
  <1> HIDE DEF IsText
  <1> DEFINE h == [k \in 1 .. n |-> [x \in T |-> x \o d[k]]]
  <1>10. h \in [1 .. n -> [T -> T]] BY <1>5, <1>7
  <1>11. \A k \in 1 .. n : \A x \in T : h[k][x] = x \o d[k] OBVIOUS
  <1> HIDE DEF h
  <1>12. PICK f \in [0 .. n -> T] : Recursive(f, <<>>, h, n) BY <1>5, <1>10, Recursion
  <1>13. f = [k \in 0 .. n |-> IF k = 0 THEN <<>> ELSE f[k - 1] \o d[k]]
    <2>1. ASSUME NEW k \in 0 .. n PROVE f[k] = IF k = 0 THEN <<>> ELSE f[k - 1] \o d[k]
      <3>1. k # 0 => k \in 1 .. n /\ f[k - 1] \in T OBVIOUS
      <3> QED BY <3>1, <1>11, <1>12 DEF Recursive
    <2> QED BY <2>1
  <1>14. PICK g : g = (CHOOSE z : IsText(z)) /\ IsText(g) BY <1>9, <1>13
  <1>15. \A k \in 0 .. n : g[k] = IF k = 0 THEN <<>> ELSE g[k - 1] \o d[k]
    <2>1. g = [k \in 0 .. n |-> IF k = 0 THEN <<>> ELSE g[k - 1] \o d[k]] BY <1>9, <1>14
    <2> QED BY <2>1
  <1> DEFINE S == {k \in Nat : k <= n => g[k] \in T}
  <1>16. 0 \in S BY <1>5, <1>15
  <1>17. ASSUME NEW k \in Nat, k \in S PROVE k + 1 \in S
    <2> SUFFICES ASSUME k + 1 <= n PROVE g[k + 1] \in T OBVIOUS
    <2>1. k + 1 \in 0 .. n /\ k + 1 # 0 /\ (k + 1) - 1 = k /\ k + 1 \in 1 .. n OBVIOUS
    <2>2. g[k + 1] = g[k] \o d[k + 1] BY <2>1, <1>15
    <2>3. g[k] \in T /\ d[k + 1] \in T BY <2>1, <1>17, <1>7
    <2> QED BY <2>2, <2>3, <1>5
  <1> HIDE DEF S
  <1>18. n \in S BY <1>16, <1>17, Induct
  <1> QED BY <1>4, <1>8, <1>14, <1>18 DEF S

-----------------------------------------------------------------------------
\* A session.
ConnFields ==
  {"pc", "sent", "sends", "taken", "peer", "p", "req", "fix", "slt", "unsent", "queued", "why",
   "from", "upto", "torn"}
FixFields == {"buf", "at", "left", "late", "smashed"}
Idling == {"idle", "accept", "recv", "closed"}

\* The buffer of a body.  Only a read that failed can move the offset back.
FixOK(f) ==
  /\ DOMAIN f = FixFields
  /\ f.buf \in Seq(Chars)
  /\ f.at \in Int /\ f.left \in Nat /\ f.late \in Nat
  /\ f.at + f.left = Len(f.buf)
  /\ f.late = 0 => f.at >= 0 /\ ~f.smashed

\* What has been read of a body is the part of the text before the next byte.
BodyOK(f, taken, t) ==
  f.late = 0 => f.at <= taken /\ \A k \in 1 .. f.at : f.buf[k] = t[taken - f.at + k]

LengthOK(f, r) == Len(f.buf) > 0 => Len(f.buf) = GetContentLength(r)

SessionOK(r, t) ==
  /\ DOMAIN r = ConnFields
  /\ r.pc \in Idling \cup {"body", "dispatch", "send"}
  /\ ParserShape(r.p)
  /\ r.sent \in Nat /\ r.taken \in Nat /\ r.taken <= r.sent /\ r.sent <= Len(t)
  /\ FixOK(r.fix) /\ BodyOK(r.fix, r.taken, t) /\ LengthOK(r.fix, r)
  /\ r.pc \in Idling => r.fix = NoFix
  /\ r.pc \in {"dispatch", "send"} => r.fix.left = 0

\* A parser and a buffer that are new.
LEMMA NewParserShape ==
  ASSUME NEW relaxed
  PROVE  ParserShape(NewParser(relaxed))
  <1>1. "start" \in Outside BY DEF Outside
  <1> QED BY <1>1 DEF ParserShape, NewParser, ParserFields, RequestFields, NoRequest

\* No body has been read into no buffer.
LEMMA NoFixOK ==
  ASSUME NEW t, NEW r, NEW taken \in Nat
  PROVE  FixOK(NoFix) /\ BodyOK(NoFix, taken, t) /\ LengthOK(NoFix, r) /\ NoFix.left = 0
  <1>1. <<>> \in Seq(Chars) /\ Len(<<>>) = 0 OBVIOUS
  <1> QED BY <1>1 DEF FixOK, BodyOK, LengthOK, NoFix, FixFields

\* A change that leaves the body alone.
LEMMA SameBody ==
  ASSUME NEW t, NEW r, SessionOK(r, t), NEW s,
         DOMAIN s = ConnFields, s.p = r.p, s.fix = r.fix, s.req = r.req, s.taken = r.taken,
         s.sent \in Nat, r.sent <= s.sent, s.sent <= Len(t), Len(t) \in Nat,
         \/ s.pc = r.pc
         \/ r.pc \in Idling /\ s.pc \in Idling
         \/ r.pc = "dispatch" /\ s.pc = "send"
  PROVE  SessionOK(s, t)
  <1>1. LengthOK(s.fix, s) BY DEF SessionOK, LengthOK, GetContentLength
  <1>2. FixOK(s.fix) /\ BodyOK(s.fix, s.taken, t) BY DEF SessionOK
  <1>3. /\ s.pc \in Idling \cup {"body", "dispatch", "send"}
        /\ s.pc \in Idling => s.fix = NoFix
        /\ s.pc \in {"dispatch", "send"} => s.fix.left = 0
    BY DEF SessionOK, Idling
  <1>4. s.taken \in Nat /\ s.taken <= s.sent BY DEF SessionOK
  <1> QED BY <1>1, <1>2, <1>3, <1>4 DEF SessionOK

\* A session without a body.
LEMMA Bodyless ==
  ASSUME NEW t, Len(t) \in Nat, NEW s,
         DOMAIN s = ConnFields, s.pc \in Idling \cup {"dispatch"}, ParserShape(s.p),
         s.sent \in Nat, s.taken \in Nat, s.taken <= s.sent, s.sent <= Len(t), s.fix = NoFix
  PROVE  SessionOK(s, t)
  <1>1. FixOK(s.fix) /\ BodyOK(s.fix, s.taken, t) /\ LengthOK(s.fix, s) /\ s.fix.left = 0
    BY NoFixOK
  <1> QED BY <1>1 DEF SessionOK

\* A connection that nobody has made is in order.
LEMMA NoConnOK ==
  ASSUME NEW t, Len(t) \in Nat
  PROVE  SessionOK(NoConn, t)
  <1>1. PICK s : s = NoConn OBVIOUS
  <1>2. PICK q : q = NewParser(FALSE) OBVIOUS
  <1>3. /\ DOMAIN s = ConnFields /\ s.pc = "idle" /\ s.p = q /\ s.sent = 0 /\ s.taken = 0
        /\ s.fix = NoFix
    BY <1>1, <1>2 DEF NoConn, ConnFields
  <1>4. ParserShape(s.p) BY <1>2, <1>3, NewParserShape
  <1>5. s.pc \in Idling BY <1>3 DEF Idling
  <1>6. SessionOK(s, t) BY <1>3, <1>4, <1>5, Bodyless
  <1> QED BY <1>1, <1>6

\* close and the beginning of recvRequest.
LEMMA CloseOK ==
  ASSUME NEW t, Len(t) \in Nat, NEW r, NEW why
  PROVE  SessionOK(CloseSession(r, why), t)
  <1>1. PICK s : s = CloseSession(r, why) OBVIOUS
  <1>2. PICK q : q = NewParser(r.p.relaxed) OBVIOUS
  <1>3. /\ DOMAIN s = ConnFields /\ s.pc = "closed" /\ s.p = q /\ s.sent = 0 /\ s.taken = 0
        /\ s.fix = NoFix
    BY <1>1, <1>2 DEF CloseSession, NoConn, ConnFields
  <1>4. ParserShape(s.p) BY <1>2, <1>3, NewParserShape
  <1>5. s.pc \in Idling BY <1>3 DEF Idling
  <1>6. SessionOK(s, t) BY <1>3, <1>4, <1>5, Bodyless
  <1> QED BY <1>1, <1>6

\* recvRequest begins with a new parser and where the last read ended.
LEMMA NewRequestOK ==
  ASSUME NEW t, Len(t) \in Nat, NEW r, SessionOK(r, t), NEW relaxed
  PROVE  SessionOK(NewRequest(r, relaxed), t)
  <1>1. PICK s : s = NewRequest(r, relaxed) OBVIOUS
  <1>2. PICK q : q = NewParser(relaxed) OBVIOUS
  <1>3. DOMAIN r = ConnFields BY DEF SessionOK
  <1>4. /\ DOMAIN s = ConnFields /\ s.pc = "recv" /\ s.p = q /\ s.sent = r.sent
        /\ s.taken = r.taken /\ s.fix = NoFix
    BY <1>1, <1>2, <1>3 DEF NewRequest, ConnFields
  <1>5. ParserShape(s.p) BY <1>2, <1>4, NewParserShape
  <1>6. s.pc \in Idling BY <1>4 DEF Idling
  <1>7. s.sent \in Nat /\ s.taken \in Nat /\ s.taken <= s.sent /\ s.sent <= Len(t)
    BY <1>4 DEF SessionOK
  <1>8. SessionOK(s, t) BY <1>4, <1>5, <1>6, <1>7, Bodyless
  <1> QED BY <1>1, <1>8

\* w is the part of t that ends at position upto.
EndsAt(w, t, upto) ==
  /\ w \in Seq(Chars) /\ Len(w) <= upto
  /\ \A k \in 1 .. Len(w) : w[k] = t[upto - Len(w) + k]

\* The beginning of a body that came with its head.
LEMMA FixStartOK ==
  ASSUME NEW length \in Nat, NEW t, NEW taken \in Nat, NEW got, EndsAt(got, t, taken),
         length > Len(got)
  PROVE  /\ FixOK(FixStart(length, got)) /\ BodyOK(FixStart(length, got), taken, t)
         /\ Len(FixStart(length, got).buf) = length
  <1>1. PICK n \in Nat : n = Len(got) BY LenProperties DEF EndsAt
  <1>2. PICK f : f = FixStart(length, got) OBVIOUS
  <1>3. PICK w : w = [k \in 1 .. length |-> IF k <= n THEN got[k] ELSE "NUL"] OBVIOUS
  <1>4. /\ DOMAIN f = FixFields /\ f.at = n /\ f.left = length - n /\ f.late = 0 /\ f.buf = w
        /\ f.smashed = FALSE
    BY <1>1, <1>2, <1>3 DEF FixStart, NoFix, FixFields
  <1>5. w \in Seq(Chars) /\ Len(w) = length
    <2>1. \A k \in 1 .. length : w[k] \in Chars
      <3>1. "NUL" \in Chars BY DEF Chars
      <3>2. \A k \in 1 .. n : got[k] \in Chars BY <1>1, ElementOfSeq DEF EndsAt
      <3> QED BY <1>1, <1>3, <3>1, <3>2
    <2> QED BY <1>3, <2>1
  <1>6. FixOK(f) BY <1>1, <1>4, <1>5 DEF FixOK
  <1>7. BodyOK(f, taken, t)
    <2>1. n <= taken /\ \A k \in 1 .. n : w[k] = t[taken - n + k] BY <1>1, <1>3 DEF EndsAt
    <2> QED BY <1>1, <1>4, <2>1 DEF BodyOK
  <1> QED BY <1>2, <1>4, <1>5, <1>6, <1>7

\* More of a body.
LEMMA FixReadOK ==
  ASSUME NEW f, FixOK(f), NEW taken \in Nat, NEW t, BodyOK(f, taken, t),
         NEW b \in Seq(Chars), Len(b) <= f.left,
         \A k \in 1 .. Len(b) : b[k] = t[taken + k]
  PROVE  /\ FixOK(FixRead(f, b)) /\ BodyOK(FixRead(f, b), taken + Len(b), t)
         /\ Len(FixRead(f, b).buf) = Len(f.buf) /\ FixRead(f, b).left = f.left - Len(b)
  <1>1. PICK n \in Nat : n = Len(b) /\ DOMAIN b = 1 .. n BY LenProperties
  <1>2. PICK g : g = FixRead(f, b) OBVIOUS
  <1>3. PICK m \in Nat : m = Len(f.buf) /\ DOMAIN f.buf = 1 .. m BY LenProperties DEF FixOK
  <1>4. PICK w : w = [k \in 1 .. m |-> IF k - f.at \in 1 .. n THEN b[k - f.at] ELSE f.buf[k]]
    OBVIOUS
  <1>5. DOMAIN f = FixFields BY DEF FixOK
  <1>6. /\ DOMAIN g = FixFields /\ g.at = f.at + n /\ g.left = f.left - n /\ g.late = f.late
        /\ g.buf = w /\ g.smashed = (f.smashed \/ f.at < 0)
    BY <1>1, <1>2, <1>3, <1>4, <1>5 DEF FixRead, FixFields
  <1>7. w \in Seq(Chars) /\ Len(w) = m
    <2>1. \A k \in 1 .. m : w[k] \in Chars
      <3>1. \A k \in 1 .. n : b[k] \in Chars BY <1>1, ElementOfSeq
      <3>2. \A k \in 1 .. m : f.buf[k] \in Chars BY <1>3, ElementOfSeq DEF FixOK
      <3> QED BY <1>4, <3>1, <3>2
    <2> QED BY <1>4, <2>1
  <1>8. FixOK(g)
    <2>1. g.at \in Int /\ g.left \in Nat /\ g.at + g.left = Len(g.buf)
      BY <1>1, <1>3, <1>6, <1>7 DEF FixOK
    <2>2. g.late = 0 => g.at >= 0 /\ ~g.smashed
      <3>1. g.late = 0 => g.at >= 0 /\ ~(f.at < 0) BY <1>1, <1>6 DEF FixOK
      <3>2. g.late = 0 => ~f.smashed BY <1>6, Zenon DEF FixOK
      <3>3. g.smashed = (f.smashed \/ f.at < 0) BY <1>6
      <3> QED BY <3>1, <3>2, <3>3, Zenon
    <2>3. g.late \in Nat BY <1>6 DEF FixOK
    <2> QED BY <1>6, <1>7, <2>1, <2>2, <2>3 DEF FixOK
  <1>9. BodyOK(g, taken + n, t)
    <2> SUFFICES ASSUME f.late = 0
                 PROVE  /\ g.at <= taken + n
                        /\ \A k \in 1 .. g.at : w[k] = t[(taken + n) - g.at + k]
      BY <1>6 DEF BodyOK
    <2>1. PICK a \in Nat : a = f.at BY DEF FixOK
    <2>2. a <= taken /\ \A k \in 1 .. a : f.buf[k] = t[taken - a + k] BY <2>1 DEF BodyOK
    <2>3. a + n <= m BY <1>1, <1>3, <2>1 DEF FixOK
    <2>4. ASSUME NEW k \in 1 .. a + n PROVE w[k] = t[(taken + n) - (a + n) + k]
      <3>1. k \in 1 .. m /\ (taken + n) - (a + n) + k = taken - a + k BY <2>3
      <3>2. CASE k <= a
        <4>1. k \in 1 .. a /\ k - a \notin 1 .. n BY <3>2
        <4> QED BY <1>4, <2>1, <2>2, <3>1, <4>1
      <3>3. CASE ~(k <= a)
        <4>1. k - a \in 1 .. n /\ taken + (k - a) = taken - a + k BY <3>3
        <4>2. w[k] = b[k - a] BY <1>4, <2>1, <3>1, <4>1
        <4>3. b[k - a] = t[taken + (k - a)] BY <1>1, <4>1
        <4> QED BY <3>1, <4>1, <4>2, <4>3
      <3> QED BY <3>2, <3>3
    <2> QED BY <1>6, <2>1, <2>2, <2>4
  <1> QED BY <1>1, <1>2, <1>3, <1>6, <1>7, <1>8, <1>9

\* A read that failed.
LEMMA FixErrorOK ==
  ASSUME NEW f, FixOK(f), NEW taken, NEW t
  PROVE  /\ FixOK(FixError(f)) /\ BodyOK(FixError(f), taken, t)
         /\ FixError(f).buf = f.buf
  <1>1. PICK g : g = FixError(f) OBVIOUS
  <1>2. DOMAIN f = FixFields BY DEF FixOK
  <1>3. /\ DOMAIN g = FixFields /\ g.at = f.at - 1 /\ g.left = f.left + 1
        /\ g.late = f.late + 1 /\ g.buf = f.buf
    BY <1>1, <1>2 DEF FixError, FixFields
  <1>4. FixOK(g) /\ g.late # 0 BY <1>3, SMTT(60) DEF FixOK
  <1> QED BY <1>1, <1>3, <1>4 DEF BodyOK

\* What a read returns.
LEMMA ReadIsText ==
  ASSUME NEW t \in Seq(Chars), NEW taken \in Nat, NEW n \in Nat, taken + n <= Len(t)
  PROVE  /\ SubSeq(t, taken + 1, taken + n) \in Seq(Chars)
         /\ Len(SubSeq(t, taken + 1, taken + n)) = n
         /\ \A k \in 1 .. n : SubSeq(t, taken + 1, taken + n)[k] = t[taken + k]
  <1>1. PICK m \in Nat : m = Len(t) BY LenProperties
  <1>2. \A i \in taken + 1 .. taken + n : i \in 1 .. Len(t) BY <1>1
  <1>3. taken + 1 \in 1 .. Len(t) + 1 /\ taken + n \in 0 .. Len(t) BY <1>1
  <1> QED BY <1>2, <1>3, SubSeqProperties

\* What follows the first j bytes of it.
LEMMA RestIsText ==
  ASSUME NEW t \in Seq(Chars), NEW taken \in Nat, NEW size \in Nat, taken + size <= Len(t),
         NEW j \in Nat, j <= size, NEW b, b = SubSeq(t, taken + 1, taken + size),
         NEW got, got = SubSeq(b, j + 1, size)
  PROVE  EndsAt(got, t, taken + size)
  <1>1. b \in Seq(Chars) /\ Len(b) = size /\ \A k \in 1 .. size : b[k] = t[taken + k]
    BY ReadIsText
  <1>2. PICK m \in Nat : m = size - j /\ j + m = size OBVIOUS
  <1>3. got \in Seq(Chars) /\ Len(got) = m /\ \A k \in 1 .. m : got[k] = b[j + k]
    <2>1. j + m <= Len(b) /\ b \in Seq(Chars) /\ got = SubSeq(b, j + 1, j + m) BY <1>1, <1>2
    <2>2. /\ SubSeq(b, j + 1, j + m) \in Seq(Chars) /\ Len(SubSeq(b, j + 1, j + m)) = m
          /\ \A k \in 1 .. m : SubSeq(b, j + 1, j + m)[k] = b[j + k]
      BY <2>1, ReadIsText, ZenonT(60)
    <2> QED BY <2>1, <2>2, Zenon
  <1>4. ASSUME NEW k \in 1 .. m PROVE got[k] = t[(taken + size) - m + k]
    <2>1. j + k \in 1 .. size /\ taken + (j + k) = (taken + size) - m + k BY <1>2
    <2>2. got[k] = b[j + k] BY <1>3
    <2>3. b[j + k] = t[taken + (j + k)] BY <1>1, <2>1, Zenon
    <2> QED BY <2>1, <2>2, <2>3, Zenon
  <1>5. m <= taken + size BY <1>2
  <1> QED BY <1>3, <1>4, <1>5, Zenon DEF EndsAt

\* The head of a request has been parsed.
LEMMA HeadDoneOK ==
  ASSUME NEW t, Len(t) \in Nat, NEW r, DOMAIN r = ConnFields, ParserShape(r.p), r.fix = NoFix,
         r.sent \in Nat, r.taken \in Nat, r.taken <= r.sent, r.sent <= Len(t),
         NEW got, EndsAt(got, t, r.taken)
  PROVE  SessionOK(HeadDone(r, got), t)
  <1>1. PICK length \in Nat : length = GetContentLength(r.p) BY LengthType
  <1>2. PICK q : q = NewParser(r.p.relaxed) OBVIOUS
  <1>3. ParserShape(q) BY <1>2, NewParserShape
  <1>4. PICK s : s = HeadDone(r, got) OBVIOUS
  <1>5. CASE length > Len(got)
    <2>1. PICK f : f = FixStart(length, got) OBVIOUS
    <2>2. FixOK(f) /\ BodyOK(f, r.taken, t) /\ Len(f.buf) = length BY <1>5, <2>1, FixStartOK
    <2>3. /\ DOMAIN s = ConnFields /\ s.pc = "body" /\ s.p = q /\ s.req = r.p.req
          /\ s.sent = r.sent /\ s.taken = r.taken /\ s.fix = f
      BY <1>1, <1>2, <1>4, <1>5, <2>1 DEF HeadDone, ConnFields
    <2>4. LengthOK(s.fix, s) BY <1>1, <2>2, <2>3 DEF LengthOK, GetContentLength
    <2>5. s.pc \in Idling \cup {"body", "dispatch", "send"} /\ s.pc \notin Idling
          /\ s.pc \notin {"dispatch", "send"}
      BY <2>3 DEF Idling
    <2> QED BY <1>3, <1>4, <2>2, <2>3, <2>4, <2>5 DEF SessionOK
  <1>6. CASE ~(length > Len(got))
    <2>1. /\ DOMAIN s = ConnFields /\ s.pc = "dispatch" /\ s.p = q
          /\ s.sent = r.sent /\ s.taken = r.taken /\ s.fix = NoFix
      BY <1>1, <1>2, <1>4, <1>6 DEF HeadDone, ConnFields
    <2>2. SessionOK(s, t) BY <1>3, <2>1, Bodyless
    <2> QED BY <1>4, <2>2
  <1> QED BY <1>5, <1>6

\* One round of recvRequest's loop.
LEMMA ReceivedOK ==
  ASSUME NEW t \in Seq(Chars), NEW r, SessionOK(r, t), r.pc = "recv", NEW size \in Nat,
         r.taken + size <= r.sent, NEW inside, NEW b, NEW x,
         b = SubSeq(t, r.taken + 1, r.taken + size), x = Execute(r.p, b)
  PROVE  SessionOK(Received(r, b, x, inside), t)
  <1>0. /\ DOMAIN r = ConnFields /\ ParserShape(r.p) /\ r.sent \in Nat /\ r.taken \in Nat
        /\ r.taken <= r.sent /\ r.sent <= Len(t) /\ Len(t) \in Nat /\ r.fix = NoFix
    BY LenProperties DEF SessionOK, Idling
  <1>a. r.taken + size <= Len(t) BY <1>0
  <1>1. b \in Seq(Chars) /\ Len(b) = size /\ \A k \in 1 .. size : b[k] = t[r.taken + k]
    <2>1. PICK taken \in Nat : taken = r.taken BY <1>0
    <2> QED BY <1>a, <2>1, ReadIsText, ZenonT(60)
  <1>2. x.n \in 0 .. size /\ ParserShape(x.p)
    <2>1. PICK p : p = r.p OBVIOUS
    <2> QED BY <1>0, <1>1, <2>1, ExecuteInBuffer DEF ParserOK
  <1>3. PICK s : s = [r EXCEPT !.p = x.p, !.taken = r.taken + Len(b)] OBVIOUS
  <1>4. /\ DOMAIN s = ConnFields /\ s.p = x.p /\ s.taken = r.taken + size /\ s.sent = r.sent
        /\ s.fix = NoFix /\ s.pc = "recv"
    BY <1>0, <1>1, <1>3 DEF ConnFields
  <1>5. PICK got : got = SubSeq(b, x.n + 1, Len(b)) OBVIOUS
  <1>6. SessionOK(HeadDone(s, got), t)
    <2>1. PICK j, taken \in Nat : j = x.n /\ j <= size /\ taken = r.taken BY <1>0, <1>2
    <2>2. EndsAt(got, t, s.taken)
      <3>1. got = SubSeq(b, j + 1, size) /\ b = SubSeq(t, taken + 1, taken + size)
        BY <1>1, <1>5, <2>1, Zenon
      <3>2. taken + size <= Len(t) BY <1>a, <2>1, Zenon
      <3>3. s.taken = taken + size BY <1>4, <2>1, Zenon
      <3>4. EndsAt(got, t, taken + size) BY <2>1, <3>1, <3>2, RestIsText
      <3> QED BY <3>3, <3>4, Zenon
    <2>3. s.taken \in Nat /\ s.taken <= s.sent BY <1>0, <1>4
    <2>4. DOMAIN s = ConnFields /\ ParserShape(s.p) /\ s.fix = NoFix BY <1>2, <1>4
    <2>5. s.sent \in Nat /\ s.sent <= Len(t) BY <1>0, <1>4
    <2> QED BY <1>0, <2>2, <2>3, <2>4, <2>5, HeadDoneOK
  <1>7. PICK u : u = [s EXCEPT !.torn = @ \/ inside] OBVIOUS
  <1>8. SessionOK(u, t)
    <2>1. /\ DOMAIN u = ConnFields /\ u.p = x.p /\ u.taken = r.taken + size /\ u.sent = r.sent
          /\ u.fix = NoFix /\ u.pc = "recv"
      BY <1>4, <1>7 DEF ConnFields
    <2>2. u.pc \in Idling BY <2>1 DEF Idling
    <2>3. u.taken \in Nat /\ u.taken <= u.sent BY <1>0, <2>1
    <2> QED BY <1>0, <1>2, <2>1, <2>2, <2>3, Bodyless
  <1>9. \A why : SessionOK(CloseSession(s, why), t) BY <1>0, CloseOK
  <1> QED
    <2>1. Received(r, b, x, inside) \in
            {CloseSession(s, "parse"), CloseSession(s, "full"), HeadDone(s, got), u}
      BY <1>3, <1>5, <1>7 DEF Received
    <2> QED BY <1>6, <1>8, <1>9, <2>1

\* One read of the rest of a body.
LEMMA BodyReadOK ==
  ASSUME NEW t \in Seq(Chars), NEW r, SessionOK(r, t), r.pc = "body", NEW n \in Nat,
         r.taken + n <= r.sent, n <= r.fix.left, NEW f,
         f = FixRead(r.fix, SubSeq(t, r.taken + 1, r.taken + n)), NEW s,
         s = [r EXCEPT !.taken = @ + n, !.fix = f, !.pc = IF f.left = 0 THEN "dispatch" ELSE @]
  PROVE  SessionOK(s, t)
  <1>0. /\ DOMAIN r = ConnFields /\ r.sent \in Nat /\ r.taken \in Nat /\ r.sent <= Len(t)
        /\ Len(t) \in Nat /\ ParserShape(r.p)
    BY LenProperties DEF SessionOK
  <1>1. PICK e, taken, b : e = r.fix /\ taken = r.taken /\ b = SubSeq(t, r.taken + 1, r.taken + n)
    OBVIOUS
  <1>a. taken \in Nat /\ taken + n <= Len(t) BY <1>0, <1>1
  <1>2. b \in Seq(Chars) /\ Len(b) = n /\ \A k \in 1 .. n : b[k] = t[taken + k]
    BY <1>1, <1>a, ReadIsText, ZenonT(60)
  <1>3. FixOK(e) /\ BodyOK(e, taken, t) /\ LengthOK(e, r) /\ Len(b) <= e.left
    BY <1>1, <1>2 DEF SessionOK
  <1>4. /\ FixOK(FixRead(e, b)) /\ BodyOK(FixRead(e, b), taken + Len(b), t)
        /\ Len(FixRead(e, b).buf) = Len(e.buf)
    BY <1>a, <1>2, <1>3, FixReadOK
  <1>5. f = FixRead(e, b) BY <1>1
  <1>6. FixOK(f) /\ BodyOK(f, taken + n, t) /\ Len(f.buf) = Len(e.buf) BY <1>2, <1>4, <1>5
  <1>7. /\ DOMAIN s = ConnFields /\ s.p = r.p /\ s.req = r.req /\ s.sent = r.sent
        /\ s.taken = taken + n /\ s.fix = f
        /\ s.pc = IF f.left = 0 THEN "dispatch" ELSE "body"
    BY <1>0, <1>1 DEF ConnFields
  <1>8. LengthOK(s.fix, s) BY <1>3, <1>6, <1>7 DEF LengthOK, GetContentLength
  <1>9. s.taken \in Nat /\ s.taken <= s.sent BY <1>0, <1>1, <1>7
  <1>10. /\ s.pc \in Idling \cup {"body", "dispatch", "send"} /\ s.pc \notin Idling
         /\ s.pc \in {"dispatch", "send"} => s.fix.left = 0
    BY <1>7 DEF Idling
  <1> QED BY <1>0, <1>6, <1>7, <1>8, <1>9, <1>10 DEF SessionOK

\* A read of it that failed.
LEMMA BodyErrorOK ==
  ASSUME NEW t, NEW r, SessionOK(r, t), r.pc = "body", NEW s,
         s = [AfterRead(r) EXCEPT !.fix = FixError(@)]
  PROVE  SessionOK(s, t)
  <1>0. DOMAIN r = ConnFields BY DEF SessionOK
  <1>1. PICK e, f, u : e = r.fix /\ f = FixError(e) /\ u = AfterRead(r) OBVIOUS
  <1>2. /\ DOMAIN u = ConnFields /\ u.p = r.p /\ u.req = r.req /\ u.sent = r.sent
        /\ u.taken = r.taken /\ u.fix = r.fix /\ u.pc = r.pc
    BY <1>0, <1>1 DEF AfterRead, ConnFields
  <1>3. /\ DOMAIN s = ConnFields /\ s.p = r.p /\ s.req = r.req /\ s.sent = r.sent
        /\ s.taken = r.taken /\ s.fix = f /\ s.pc = "body"
    BY <1>1, <1>2 DEF ConnFields
  <1>4. FixOK(e) /\ LengthOK(e, r) BY <1>1 DEF SessionOK
  <1>5. FixOK(f) /\ BodyOK(f, r.taken, t) /\ f.buf = e.buf BY <1>1, <1>4, FixErrorOK
  <1>6. LengthOK(s.fix, s) BY <1>3, <1>4, <1>5 DEF LengthOK, GetContentLength
  <1>7. /\ s.pc \in Idling \cup {"body", "dispatch", "send"} /\ s.pc \notin Idling
        /\ s.pc \notin {"dispatch", "send"}
    BY <1>3 DEF Idling
  <1> QED BY <1>3, <1>5, <1>6, <1>7 DEF SessionOK

-----------------------------------------------------------------------------
\* Every connection, and what one step of one connection may do to it.
Sessions ==
  /\ DOMAIN conn = Conns
  /\ \A c \in Conns : SessionOK(conn[c], Text[c])

\* The text of a connection is a text.
LEMMA TextOf ==
  ASSUME NEW c \in Conns
  PROVE  Text[c] \in Seq(Chars) /\ Len(Text[c]) \in Nat
  BY TextType, ServerAssumption, LenProperties DEF ServerAssumption, Clients

\* A step that changes one connection.
LEMMA PutOK ==
  ASSUME Sessions, NEW c \in Conns, NEW r, SessionOK(r, Text[c]), Put(c, r)
  PROVE  Sessions'
  <1>1. conn' = [conn EXCEPT ![c] = r] BY DEF Put
  <1>2. DOMAIN conn' = Conns BY <1>1 DEF Sessions
  <1>3. ASSUME NEW d \in Conns PROVE SessionOK(conn'[d], Text[d])
    <2>1. CASE d = c BY <1>1, <2>1 DEF Sessions
    <2>2. CASE d # c BY <1>1, <2>2 DEF Sessions
    <2> QED BY <2>1, <2>2
  <1> QED BY <1>2, <1>3 DEF Sessions

\* More of the text arrives.
LEMMA SendOK ==
  ASSUME Sessions, NEW c \in Conns, NEW n \in 1 .. Len(Text[c]), Send(c, n)
  PROVE  Sessions'
  <1>0. Text[c] \in Seq(Chars) /\ Len(Text[c]) \in Nat BY TextOf
  <1>1. PICK r, t, s : r = conn[c] /\ t = Text[c]
                       /\ s = [conn[c] EXCEPT !.sent = @ + n, !.sends = @ + 1]
    OBVIOUS
  <1>2. SessionOK(r, t) /\ DOMAIN r = ConnFields /\ r.sent \in Nat BY <1>1 DEF Sessions, SessionOK
  <1>3. /\ DOMAIN s = ConnFields /\ s.p = r.p /\ s.fix = r.fix /\ s.req = r.req
        /\ s.taken = r.taken /\ s.pc = r.pc /\ s.sent = r.sent + n
    BY <1>1, <1>2 DEF ConnFields
  <1>4. r.sent + n \in DOMAIN t
    BY <1>1, ServerAssumption DEF Send, Cuts, ServerAssumption, Clients
  <1>5. n \in Nat /\ r.sent + n <= Len(t) BY <1>0, <1>1, <1>4, LenProperties
  <1>6. s.sent \in Nat /\ r.sent <= s.sent /\ s.sent <= Len(t) BY <1>2, <1>3, <1>5
  <1>7. SessionOK(s, t) BY <1>0, <1>1, <1>2, <1>3, <1>6, SameBody
  <1> QED BY <1>1, <1>7, PutOK DEF Send

\* The peer reads an answer, closes or resets.
Peer(c) == PeerReads(c) \/ PeerClose(c) \/ PeerResets(c)
LEMMA PeerOK ==
  ASSUME Sessions, NEW c \in Conns, Peer(c)
  PROVE  Sessions'
  <1>0. Text[c] \in Seq(Chars) /\ Len(Text[c]) \in Nat BY TextOf
  <1>1. PICK r, t : r = conn[c] /\ t = Text[c] OBVIOUS
  <1>2. PICK s : Put(c, s) /\ (\/ \E how : s = [r EXCEPT !.peer = how]
                               \/ \E n : s = [r EXCEPT !.queued = @ - n])
    BY <1>1 DEF Peer, PeerReads, PeerClose, PeerResets
  <1>3. SessionOK(r, t) /\ DOMAIN r = ConnFields /\ r.sent \in Nat /\ r.sent <= Len(t)
    BY <1>1 DEF Sessions, SessionOK
  <1>4. /\ DOMAIN s = ConnFields /\ s.p = r.p /\ s.fix = r.fix /\ s.req = r.req
        /\ s.taken = r.taken /\ s.pc = r.pc /\ s.sent = r.sent
    BY <1>2, <1>3 DEF ConnFields
  <1>5. s.sent \in Nat /\ r.sent <= s.sent /\ s.sent <= Len(t) BY <1>3, <1>4
  <1>6. Len(t) \in Nat BY <1>0, <1>1
  <1>7. SessionOK(s, t) BY <1>3, <1>4, <1>5, <1>6, SameBody
  <1> QED BY <1>1, <1>2, <1>7, PutOK

\* One round of recvRequest's loop, as a step of the server.
LEMMA RecvHeadOK ==
  ASSUME Sessions, NEW c \in Conns, RecvHead(c)
  PROVE  Sessions'
  <1>0. Text[c] \in Seq(Chars) BY TextOf
  <1>1. PICK r, t : r = conn[c] /\ t = Text[c] OBVIOUS
  <1>2. SessionOK(r, t) /\ r.sent \in Nat /\ r.taken \in Nat BY <1>1 DEF Sessions, SessionOK
  <1>3. BufSize \in Nat BY SessionAssumption, Zenon DEF SessionAssumption
  <1>4. PICK size : size = IF r.sent - r.taken < BufSize THEN r.sent - r.taken ELSE BufSize
    OBVIOUS
  <1>5. /\ r.pc = "recv" /\ size > 0
        /\ \E b \in {SubSeq(t, r.taken + 1, r.taken + size)} : \E x \in {Execute(r.p, b)} :
             Put(c, Received(r, b, x, InsideWord(c, r.taken + size)))
    BY <1>1, <1>4 DEF RecvHead
  <1>6. size \in Nat /\ r.taken + size <= r.sent BY <1>2, <1>3, <1>4, <1>5
  <1>7. PICK b, x, inside :
          /\ b = SubSeq(t, r.taken + 1, r.taken + size) /\ x = Execute(r.p, b)
          /\ Put(c, Received(r, b, x, inside))
    BY <1>5
  <1>8. SessionOK(Received(r, b, x, inside), t) BY <1>0, <1>1, <1>2, <1>5, <1>6, <1>7, ReceivedOK
  <1>9. PICK s : s = Received(r, b, x, inside) OBVIOUS
  <1> QED BY <1>1, <1>7, <1>8, <1>9, PutOK

\* One read of a body, as a step of the server.
LEMMA RecvBodyOK ==
  ASSUME Sessions, NEW c \in Conns, RecvBody(c)
  PROVE  Sessions'
  <1>0. Text[c] \in Seq(Chars) BY TextOf
  <1>1. PICK r, t : r = conn[c] /\ t = Text[c] OBVIOUS
  <1>2. /\ SessionOK(r, t) /\ r.sent \in Nat /\ r.taken \in Nat /\ r.taken <= r.sent
        /\ r.fix.left \in Nat
    BY <1>1 DEF Sessions, SessionOK, FixOK
  <1>3. PICK n : n = IF r.sent - r.taken < r.fix.left THEN r.sent - r.taken ELSE r.fix.left
    OBVIOUS
  <1>4. PICK f : f = FixRead(r.fix, SubSeq(t, r.taken + 1, r.taken + n)) OBVIOUS
  <1>5. PICK s : s = [r EXCEPT !.taken = @ + n, !.fix = f,
                               !.pc = IF f.left = 0 THEN "dispatch" ELSE @]
    OBVIOUS
  <1>6. r.pc = "body" /\ Put(c, s) BY <1>1, <1>3, <1>4, <1>5 DEF RecvBody
  <1>7. n \in Nat /\ r.taken + n <= r.sent /\ n <= r.fix.left BY <1>2, <1>3
  <1>8. SessionOK(s, t) BY <1>0, <1>1, <1>2, <1>4, <1>5, <1>6, <1>7, BodyReadOK
  <1> QED BY <1>1, <1>6, <1>8, PutOK

\* A read that returns nothing or fails.
LEMMA EndsOK ==
  ASSUME Sessions, NEW c \in Conns, NEW timeout \in BOOLEAN,
         RecvHeadEnds(c, timeout) \/ RecvBodyEnds(c, timeout)
  PROVE  Sessions'
  <1>0. Len(Text[c]) \in Nat BY TextOf
  <1>1. PICK r, t : r = conn[c] /\ t = Text[c] OBVIOUS
  <1>2. SessionOK(r, t) BY <1>1 DEF Sessions
  <1>3. ASSUME NEW why, Put(c, CloseSession(r, why)) PROVE Sessions'
    <2>1. PICK s : s = CloseSession(r, why) OBVIOUS
    <2>2. SessionOK(s, t) BY <1>0, <1>1, <2>1, CloseOK
    <2> QED BY <1>1, <1>3, <2>1, <2>2, PutOK
  <1>4. CASE RecvHeadEnds(c, timeout)
    <2>1. PICK why : Put(c, CloseSession(r, why)) BY <1>1, <1>4 DEF RecvHeadEnds
    <2> QED BY <1>3, <2>1
  <1>5. CASE RecvBodyEnds(c, timeout)
    <2>1. PICK s : s = [AfterRead(r) EXCEPT !.fix = FixError(@)] OBVIOUS
    <2>2. r.pc = "body" /\ (Put(c, s) \/ Put(c, CloseSession(r, "eof")))
      BY <1>1, <1>5, <2>1 DEF RecvBodyEnds
    <2>3. SessionOK(s, t) BY <1>2, <2>1, <2>2, BodyErrorOK
    <2> QED BY <1>1, <1>3, <2>2, <2>3, PutOK
  <1> QED BY <1>4, <1>5

\* The steps of the server's worker, and the arrival of a client.
LEMMA WorkerOK ==
  ASSUME Sessions, NEW c \in Conns, Worker(c) \/ Arrive(c)
  PROVE  Sessions'
  <1>0. Len(Text[c]) \in Nat BY TextOf
  <1>1. PICK r, t : r = conn[c] /\ t = Text[c] OBVIOUS
  <1>2. SessionOK(r, t) /\ DOMAIN r = ConnFields /\ r.sent \in Nat /\ r.sent <= Len(t)
    BY <1>1 DEF Sessions, SessionOK
  <1>3. CASE SessionRead(c) \/ RecvTimeout(c)
    BY <1>3, RecvHeadOK, RecvBodyOK, EndsOK DEF SessionRead, RecvTimeout
  <1>4. CASE HandleClient(c)
    <2>1. PICK relaxed : Put(c, NewRequest(r, relaxed)) BY <1>1, <1>4 DEF HandleClient
    <2>2. PICK s : s = NewRequest(r, relaxed) OBVIOUS
    <2>3. SessionOK(s, t) BY <1>0, <1>1, <1>2, <2>2, NewRequestOK
    <2> QED BY <1>1, <2>1, <2>2, <2>3, PutOK
  <1>5. CASE Arrive(c)
    <2>1. PICK s : s = [r EXCEPT !.pc = "accept"] OBVIOUS
    <2>2. Put(c, s) /\ r.pc = "idle" BY <1>1, <1>5, <2>1 DEF Arrive
    <2>3. /\ DOMAIN s = ConnFields /\ s.p = r.p /\ s.fix = r.fix /\ s.req = r.req
          /\ s.taken = r.taken /\ s.sent = r.sent /\ s.pc = "accept"
      BY <1>2, <2>1 DEF ConnFields
    <2>4. r.pc \in Idling /\ s.pc \in Idling BY <2>2, <2>3 DEF Idling
    <2>5. SessionOK(s, t) BY <1>0, <1>1, <1>2, <2>3, <2>4, SameBody
    <2> QED BY <1>1, <2>2, <2>5, PutOK
  <1>6. CASE Dispatch(c)
    <2>1. PICK slt, s : s = BeginAnswer(r, slt) /\ Put(c, s) BY <1>1, <1>6 DEF Dispatch
    <2>2. /\ DOMAIN s = ConnFields /\ s.p = r.p /\ s.fix = r.fix /\ s.req = r.req
          /\ s.taken = r.taken /\ s.sent = r.sent /\ s.pc = "send"
      BY <1>2, <2>1 DEF BeginAnswer, ConnFields
    <2>3. r.pc = "dispatch" BY <1>1, <1>6 DEF Dispatch
    <2>4. SessionOK(s, t) BY <1>0, <1>1, <1>2, <2>2, <2>3, SameBody
    <2> QED BY <1>1, <2>1, <2>4, PutOK
  <1>7. CASE SendResponse(c)
    <2>1. \/ UNCHANGED conn
          \/ \E n, relaxed : Put(c, AfterSend(SendTo(r, n), relaxed))
      BY <1>1, <1>7 DEF SendResponse
    <2>2. CASE UNCHANGED conn BY <2>2 DEF Sessions
    <2>3. ASSUME NEW n, NEW relaxed, Put(c, AfterSend(SendTo(r, n), relaxed)) PROVE Sessions'
      <3>1. PICK u, s : u = SendTo(r, n) /\ s = AfterSend(u, relaxed) OBVIOUS
      <3>2. /\ DOMAIN u = ConnFields /\ u.p = r.p /\ u.fix = r.fix /\ u.req = r.req
            /\ u.taken = r.taken /\ u.sent = r.sent /\ u.pc = r.pc
        BY <1>2, <3>1 DEF SendTo, ConnFields
      <3>3. SessionOK(u, t) BY <1>0, <1>1, <1>2, <3>2, SameBody
      <3>4. PICK again, end : again = NewRequest(u, relaxed) /\ end = CloseSession(u, "done")
        OBVIOUS
      <3>5. SessionOK(again, t) /\ SessionOK(end, t)
        BY <1>0, <1>1, <3>3, <3>4, NewRequestOK, CloseOK
      <3>6. s \in {u, again, end} BY <3>1, <3>4 DEF AfterSend
      <3> QED BY <1>1, <2>3, <3>1, <3>3, <3>5, <3>6, PutOK
    <2> QED BY <2>1, <2>2, <2>3
  <1> QED BY <1>3, <1>4, <1>5, <1>6, <1>7 DEF Worker

\* No step of the server harms a session.
LEMMA SessionsStep ==
  ASSUME Sessions, [Next]_vars
  PROVE  Sessions'
  <1>1. CASE UNCHANGED conn BY <1>1 DEF Sessions
  <1>2. ASSUME NEW c \in Conns, Client(c) \/ ClientResets(c) PROVE Sessions'
    BY <1>2, SendOK, PeerOK DEF Client, ClientResets, Peer
  <1>3. ASSUME NEW c \in Conns, Smash(c) PROVE Sessions'
    BY <1>1, <1>3 DEF Smash
  <1> QED BY <1>1, <1>2, <1>3, WorkerOK DEF Next, vars

\* What a session may be, for every script, however its text is cut into pieces
\* and whatever the buffer's size.
THEOREM ServerSessions == Spec => []Sessions
  <1>1. Init => Sessions
    <2> SUFFICES ASSUME Init PROVE Sessions OBVIOUS
    <2>1. conn = [c \in Conns |-> NoConn]
      BY ServerAssumption DEF Init, SessionInit, Clients, ServerAssumption
    <2>2. \A c \in Conns : SessionOK(NoConn, Text[c]) BY TextOf, NoConnOK
    <2> QED BY <2>1, <2>2 DEF Sessions
  <1> QED BY <1>1, SessionsStep, PTL DEF Spec

\* recvRequest and readFixSize put the body together as it was sent.
THEOREM ServerBodyAsSent == Spec => []BodyAsSent
  <1>1. Sessions => BodyAsSent
    <2> SUFFICES ASSUME Sessions, NEW c \in Conns, Handling(c), Len(conn[c].fix.buf) > 0,
                        conn[c].fix.late = 0
                 PROVE  /\ Len(conn[c].fix.buf) = GetContentLength(conn[c])
                        /\ conn[c].fix.buf = SubSeq(Text[c], conn[c].taken - Len(conn[c].fix.buf) + 1,
                                                    conn[c].taken)
                        /\ ~conn[c].fix.smashed
      BY DEF BodyAsSent
    <2>1. PICK r, t, f, w : r = conn[c] /\ t = Text[c] /\ f = r.fix /\ w = f.buf OBVIOUS
    <2>2. SessionOK(r, t) /\ t \in Seq(Chars) /\ Len(t) \in Nat BY <2>1, TextOf DEF Sessions
    <2>3. r.pc \in {"dispatch", "send"} BY <2>1 DEF Handling
    <2>4. FixOK(f) /\ BodyOK(f, r.taken, t) /\ LengthOK(f, r) /\ f.left = 0
      BY <2>1, <2>2, <2>3 DEF SessionOK
    <2>5. r.taken \in Nat /\ r.taken <= Len(t) BY <2>2 DEF SessionOK
    <2>6. PICK n, m \in Nat : n = Len(w) /\ m = r.taken - n /\ m + n = r.taken
      <3>1. Len(w) \in Nat /\ f.at = Len(w) BY <2>1, <2>4, LenProperties DEF FixOK
      <3>2. Len(w) <= r.taken BY <2>1, <2>4, <3>1 DEF BodyOK
      <3> QED BY <2>5, <3>1, <3>2
    <2>7. f.at = n /\ w \in Seq(Chars) BY <2>1, <2>4, <2>6 DEF FixOK
    <2>8. \A k \in 1 .. n : w[k] = t[m + k] BY <2>1, <2>4, <2>6, <2>7 DEF BodyOK
    <2>9. w = SubSeq(t, m + 1, m + n)
      <3>1. m + n <= Len(t) BY <2>5, <2>6
      <3>2. PICK v : v = SubSeq(t, m + 1, m + n) OBVIOUS
      <3>3. v \in Seq(Chars) /\ Len(v) = n /\ \A k \in 1 .. n : v[k] = t[m + k]
        BY <2>2, <3>1, <3>2, ReadIsText
      <3>4. \A k \in 1 .. n : w[k] = v[k] BY <2>8, <3>3
      <3> QED BY <2>6, <2>7, <3>2, <3>3, <3>4, SeqEqual
    <2>10. ~f.smashed BY <2>1, <2>4, Zenon DEF FixOK
    <2>11. n = GetContentLength(r) BY <2>1, <2>4, <2>6 DEF LengthOK
    <2>12. r.taken - n + 1 = m + 1 BY <2>6
    <2> QED BY <2>1, <2>6, <2>9, <2>10, <2>11, <2>12
  <1> QED BY <1>1, ServerSessions, PTL

-----------------------------------------------------------------------------
\* How a session follows the head of a request that a client sends.
\* The head of a request in pieces, each of which ends where a read may end
\* without tearing a word.  A request without a query has no piece 2, one
\* without a body no pieces 7 and 8; piece 11 is what follows the head.
HeaderPiece(name, val) == name \o <<":", SP>> \o val \o <<"CR">>
Piece(m, j) ==
  CASE j = 0 -> m.method \o <<SP>>
    [] j = 1 -> m.path \o (IF m.query = <<>> THEN <<SP>> ELSE <<"?">>)
    [] j = 2 -> (IF m.query = <<>> THEN <<>> ELSE m.query \o <<SP>>)
    [] j = 3 -> Http11 \o <<"CR">>
    [] j = 5 -> HeaderPiece(Connection, CloseWord)
    [] j = 7 -> (IF m.body = <<>> THEN <<>>
                 ELSE HeaderPiece(ContentLength, <<DigitOf(Len(m.body))>>))
    [] j = 8 -> (IF m.body = <<>> THEN <<>> ELSE <<"LF">>)
    [] j = 9 -> <<"CR">>
    [] OTHER -> <<"LF">>

\* Where a piece begins, and which piece follows it.
Upto(m, j) ==
  LET h[k \in 0 .. 11] == IF k = 0 THEN <<>> ELSE h[k - 1] \o Piece(m, k - 1)
  IN h[j]
Offset(m, j) == Len(Upto(m, j))
Follows(m, j) ==
  CASE j = 1 /\ m.query = <<>> -> 3
    [] j = 6 /\ m.body = <<>> -> 9
    [] OTHER -> j + 1

\* What has been parsed of the request m before piece j.
HeadersAt(m, j) ==
  CASE j <= 5 -> <<>>
    [] j \in {6, 7} -> [h \in {Connection} |-> CloseWord]
    [] OTHER -> Seen(m).headers
RequestAt(m, j) ==
  [method |-> IF j > 0 THEN m.method ELSE NoRequest.method,
   path |-> IF j > 1 THEN m.path ELSE NoRequest.path,
   query |-> IF j > 2 THEN m.query ELSE <<>>,
   fragment |-> <<>>, version |-> "1.1", headers |-> HeadersAt(m, j)]

\* The parser after the first l bytes of piece j; base bytes of the buffer come
\* before the piece.
InMethod(p, l, base) ==
  IF l = 0 THEN p.cs = "start" ELSE p.cs = "method" /\ p.mark = base + 1 /\ p.n = l
InPath(p, l, base) ==
  CASE l = 0 -> p.cs = "target"
    [] l = 1 -> p.cs = "slash" /\ p.mark = base + 1
    [] OTHER -> p.cs = "path" /\ p.mark = base + 1
InQuery(p, l, base) ==
  IF l = 0 THEN p.cs = "query0" ELSE p.cs = "query" /\ p.queryStart = base + 1
InVersion(p, l, base) == p.cs = "version" /\ p.n = l /\ (l > 0 => p.mark = base + 1)
InHeader(p, len, l, base) ==
  /\ l = 0 => p.cs = "header"
  /\ l \in 1 .. len => p.cs = "name"
  /\ l \in {len + 1, len + 2} => p.cs = "value0"
  /\ l > len + 2 => p.cs = "value" /\ p.mark = base + len + 3
  /\ l > 0 => p.fieldStart = base + 1
  /\ l > len => p.fieldLen = len
InPiece(p, j, l, base) ==
  CASE j = 0 -> InMethod(p, l, base)
    [] j = 1 -> InPath(p, l, base)
    [] j = 2 -> InQuery(p, l, base)
    [] j = 3 -> InVersion(p, l, base)
    [] j \in {4, 6, 8} -> p.cs = "lf"
    [] j = 5 -> InHeader(p, Len(Connection), l, base)
    [] j = 7 -> InHeader(p, Len(ContentLength), l, base)
    [] j = 9 -> p.cs = "header"
    [] j = 10 -> p.cs = "cr"
    [] OTHER -> p.cs = "done"
Follow(p, m, j, l, base) ==
  /\ p.error = 0 /\ p.json = FALSE /\ p.req = RequestAt(m, j)
  /\ InPiece(p, j, l, base)
\* Refused for a character of more_delims.
HasMoreDelims(m) == \E x \in DOMAIN m.path : m.path[x] \in MoreDelims
Refused(p, m) ==
  p.cs = "error" /\ p.error = 0 /\ ~p.relaxed /\ HasMoreDelims(m)

\* Where the head of a request ends.
HeadEnd(c, k) == StartOf(c, k) + Offset(Script[c][k], 11)

\* A session that reads the head of m is between two pieces of it.
InHead(r, m, start) ==
  \E j \in 0 .. 10 : /\ r.taken = start + Offset(m, j) /\ Len(Piece(m, j)) > 0
                     /\ Follow(r.p, m, j, 0, 0)
\* One that has it knows the request, and where its body is.
InBody(r, m, end) ==
  /\ r.req = Seen(m) /\ r.upto \in Nat
  /\ r.fix.late = 0 =>
       IF r.fix.buf = <<>> THEN r.upto >= end + Len(m.body)
       ELSE r.upto < end + Len(m.body) /\ r.taken - r.fix.at = end
Tracked(r, c, k) ==
  /\ r.pc = "recv" => InHead(r, Script[c][k], StartOf(c, k))
  /\ r.pc \in {"body", "dispatch", "send"} => InBody(r, Script[c][k], HeadEnd(c, k))
  /\ r.why = "parse" => ~r.p.relaxed /\ HasMoreDelims(Script[c][k])
TrackedConn(r, c) ==
  /\ r.pc # "closed" => r.why = "none"
  /\ \A k \in DOMAIN Script[c] :
       r.from = StartOf(c, k) /\ ~r.torn /\ r.pc \notin {"idle", "accept"} => Tracked(r, c, k)
Tracks == \A c \in Conns : TrackedConn(conn[c], c)

-----------------------------------------------------------------------------
\* A text that is put together from pieces d[1], d[2] ...; h[k] is what the
\* first k of them make.
Joins(h, d, N) ==
  /\ h \in [0 .. N -> Seq(Chars)] /\ d \in [1 .. N -> Seq(Chars)]
  /\ h[0] = <<>> /\ \A k \in 1 .. N : h[k] = h[k - 1] \o d[k]
HasPiece(w, u, v) ==
  /\ Len(u) + Len(v) <= Len(w)
  /\ \A x \in 1 .. Len(v) : w[Len(u) + x] = v[x]

\* The text exists, and is what the recursive functions of Text and Upto compute.
IsUpto(h, d, N) == h = [k \in 0 .. N |-> IF k = 0 THEN <<>> ELSE h[k - 1] \o d[k]]
LEMMA JoinExists ==
  ASSUME NEW N \in Nat, NEW d \in [1 .. N -> Seq(Chars)]
  PROVE  /\ \E h : IsUpto(h, d, N)
         /\ \A h : IsUpto(h, d, N) => Joins(h, d, N)
  <1>1. PICK T : T = Seq(Chars) OBVIOUS
  <1>2. <<>> \in T /\ \A s, t \in T : s \o t \in T BY <1>1, ConcatProperties
  <1>3. \E h : IsUpto(h, d, N)
    <2> DEFINE f == [k \in 1 .. N |-> [x \in T |-> x \o d[k]]]
    <2>1. f \in [1 .. N -> [T -> T]] BY <1>1, <1>2
    <2>2. \A k \in 1 .. N : \A x \in T : f[k][x] = x \o d[k] OBVIOUS
    <2> HIDE DEF f
    <2>3. PICK h \in [0 .. N -> T] : Recursive(h, <<>>, f, N) BY <1>2, <2>1, Recursion
    <2>4. ASSUME NEW k \in 0 .. N PROVE h[k] = IF k = 0 THEN <<>> ELSE h[k - 1] \o d[k]
      <3>1. k # 0 => k \in 1 .. N /\ h[k - 1] \in T OBVIOUS
      <3> QED BY <3>1, <2>2, <2>3 DEF Recursive
    <2>5. h = [k \in 0 .. N |-> IF k = 0 THEN <<>> ELSE h[k - 1] \o d[k]] BY <2>4
    <2> QED BY <2>5 DEF IsUpto
  <1>4. ASSUME NEW h, IsUpto(h, d, N) PROVE Joins(h, d, N)
    <2>1. /\ h = [k \in 0 .. N |-> h[k]] /\ h[0] = <<>>
          /\ \A k \in 1 .. N : h[k] = h[k - 1] \o d[k]
      <3>1. h = [k \in 0 .. N |-> IF k = 0 THEN <<>> ELSE h[k - 1] \o d[k]] BY <1>4 DEF IsUpto
      <3>2. \A k \in 0 .. N : h[k] = IF k = 0 THEN <<>> ELSE h[k - 1] \o d[k] BY <3>1, Zenon
      <3>3. h[0] = <<>> BY <3>2
      <3>4. \A k \in 1 .. N : h[k] = h[k - 1] \o d[k]
        <4> TAKE k \in 1 .. N
        <4>1. k \in 0 .. N /\ k # 0 OBVIOUS
        <4> QED BY <3>2, <4>1, Zenon
      <3>5. h = [k \in 0 .. N |-> h[k]] BY <3>1, <3>2
      <3> QED BY <3>3, <3>4, <3>5
    <2> DEFINE S == {k \in Nat : k <= N => h[k] \in T}
    <2>2. 0 \in S BY <1>2, <2>1
    <2>3. ASSUME NEW k \in Nat, k \in S PROVE k + 1 \in S
      <3> SUFFICES ASSUME k + 1 <= N PROVE h[k + 1] \in T OBVIOUS
      <3>1. k + 1 \in 1 .. N /\ (k + 1) - 1 = k OBVIOUS
      <3>2. h[k + 1] = h[k] \o d[k + 1] BY <2>1, <3>1
      <3>3. h[k] \in T /\ d[k + 1] \in T BY <1>1, <2>3, <3>1
      <3> QED BY <1>2, <3>2, <3>3
    <2> HIDE DEF S
    <2>4. \A k \in Nat : k \in S BY <2>2, <2>3, Induct
    <2>5. h \in [0 .. N -> T] BY <2>1, <2>4 DEF S
    <2> QED BY <1>1, <2>1, <2>5 DEF Joins
  <1> QED BY <1>3, <1>4

\* Every piece is found where the pieces before it end.
LEMMA JoinedPieces ==
  ASSUME NEW N \in Nat, NEW h, NEW d, Joins(h, d, N)
  PROVE  \A k \in 1 .. N : HasPiece(h[N], h[k - 1], d[k])
  <1> DEFINE S == {n \in Nat : n <= N => \A k \in 1 .. n : HasPiece(h[n], h[k - 1], d[k])}
  <1>1. 0 \in S OBVIOUS
  <1>2. ASSUME NEW n \in Nat, n \in S PROVE n + 1 \in S
    <2> SUFFICES ASSUME n + 1 <= N, NEW k \in 1 .. n + 1
                 PROVE  HasPiece(h[n + 1], h[k - 1], d[k])
      OBVIOUS
    <2>1. PICK u, v, w : u = h[n] /\ v = d[n + 1] /\ w = h[n + 1] OBVIOUS
    <2>2. u \in Seq(Chars) /\ v \in Seq(Chars) /\ w = u \o v
      <3>1. n \in 0 .. N /\ n + 1 \in 1 .. N /\ (n + 1) - 1 = n OBVIOUS
      <3> QED BY <2>1, <3>1 DEF Joins
    <2>3. Len(u) \in Nat /\ Len(v) \in Nat /\ Len(w) = Len(u) + Len(v)
      BY <2>2, LenProperties, ConcatProperties
    <2>4. \A i \in 1 .. Len(u) + Len(v) : w[i] = IF i <= Len(u) THEN u[i] ELSE v[i - Len(u)]
      BY <2>2, <2>3, ConcatProperties
    <2>5. CASE k = n + 1
      <3>1. \A x \in 1 .. Len(v) : w[Len(u) + x] = v[x]
        <4> TAKE x \in 1 .. Len(v)
        <4>1. Len(u) + x \in 1 .. Len(u) + Len(v) /\ ~(Len(u) + x <= Len(u))
              /\ (Len(u) + x) - Len(u) = x
          BY <2>3
        <4> QED BY <2>4, <4>1
      <3>2. HasPiece(w, u, v) BY <2>3, <3>1 DEF HasPiece
      <3>3. k - 1 = n BY <2>5
      <3> QED BY <2>1, <2>5, <3>2, <3>3
    <2>6. CASE k # n + 1
      <3>1. k \in 1 .. n /\ k - 1 \in 0 .. N /\ k \in 1 .. N BY <2>6
      <3>2. PICK s, e : s = h[k - 1] /\ e = d[k] OBVIOUS
      <3>3. HasPiece(u, s, e) BY <1>2, <2>1, <3>1, <3>2
      <3>4. Len(s) \in Nat /\ Len(e) \in Nat BY <3>1, <3>2, LenProperties DEF Joins
      <3>5. Len(s) + Len(e) <= Len(w) BY <2>3, <3>3, <3>4 DEF HasPiece
      <3>6. \A x \in 1 .. Len(e) : w[Len(s) + x] = e[x]
        <4> TAKE x \in 1 .. Len(e)
        <4>1. PICK i : i = Len(s) + x OBVIOUS
        <4>2. i \in 1 .. Len(u) + Len(v) /\ i <= Len(u) BY <2>3, <3>3, <3>4, <4>1 DEF HasPiece
        <4>3. u[i] = e[x] BY <3>3, <4>1 DEF HasPiece
        <4> QED BY <2>4, <4>1, <4>2, <4>3
      <3> QED BY <2>1, <3>2, <3>5, <3>6 DEF HasPiece
    <2> QED BY <2>5, <2>6
  <1> HIDE DEF S
  <1>3. N \in S BY <1>1, <1>2, Induct
  <1> QED BY <1>3 DEF S

-----------------------------------------------------------------------------
\* The requests of a script.
IsRequest(m) ==
  /\ m.method \in Seq(Chars) /\ m.path \in Seq(Chars) /\ m.query \in Seq(Chars)
  /\ m.body \in Seq(Chars) /\ Len(m.body) \in 0 .. 9

\* A sequence of strings is a text.
LEMMA TextsAreChars == Seq(STRING) \subseteq Seq(Chars)
  <1>1. STRING \subseteq Chars BY Zenon DEF Chars
  <1> QED BY <1>1, SeqGrows, Zenon

\* The names and the value of the headers, and the version, are texts.
LEMMA WordTypes ==
  /\ Connection \in Seq(Chars) /\ CloseWord \in Seq(Chars) /\ ContentLength \in Seq(Chars)
  /\ Http11 \in Seq(Chars) /\ Len(Http11) = 8
  <1>1. {Connection, CloseWord, ContentLength} \subseteq Seq(STRING)
    BY SessionAssumption, Zenon DEF SessionAssumption
  <1>2. Http11 \in Seq(Chars) /\ Len(Http11) = 8 BY DEF Http11, Chars, Digit
  <1> QED BY <1>1, <1>2, TextsAreChars

\* A script is a sequence of requests.
LEMMA ScriptType ==
  ASSUME NEW c \in Conns
  PROVE  /\ Len(Script[c]) \in Nat /\ DOMAIN Script[c] = 1 .. Len(Script[c])
         /\ \A k \in 1 .. Len(Script[c]) : IsRequest(Script[c][k])
  <1>1. c \in DOMAIN Script BY ServerAssumption DEF ServerAssumption
  <1>2. Script[c] \in Seq([method : Seq(STRING), path : Seq(STRING), query : Seq(STRING),
                           body : Seq(STRING)])
        /\ \A k \in DOMAIN Script[c] : Len(Script[c][k].body) < 10
    BY <1>1, SessionAssumption DEF SessionAssumption
  <1>3. Len(Script[c]) \in Nat /\ DOMAIN Script[c] = 1 .. Len(Script[c]) BY <1>2, LenProperties
  <1>4. ASSUME NEW k \in 1 .. Len(Script[c]) PROVE IsRequest(Script[c][k])
    <2>1. PICK m : m = Script[c][k] OBVIOUS
    <2>2. m \in [method : Seq(STRING), path : Seq(STRING), query : Seq(STRING), body : Seq(STRING)]
          /\ Len(m.body) < 10
      BY <1>2, <1>3, <2>1, ElementOfSeq
    <2>3. /\ m.method \in Seq(STRING) /\ m.path \in Seq(STRING) /\ m.query \in Seq(STRING)
          /\ m.body \in Seq(STRING)
      BY <2>2
    <2>4. Len(m.body) \in Nat BY <2>3, LenProperties, Zenon
    <2>5. Len(m.body) \in 0 .. 9
      <3>1. PICK n : n = Len(m.body) OBVIOUS
      <3>2. n \in Nat /\ n < 10 BY <2>2, <2>4, <3>1, Zenon
      <3>3. n \in 0 .. 9 BY <3>2
      <3> QED BY <3>1, <3>3, Zenon
    <2> QED BY <2>1, <2>3, <2>5, TextsAreChars DEF IsRequest
  <1> QED BY <1>3, <1>4

\* Two texts, one after the other.
IsJoin(w, s, t) ==
  /\ w \in Seq(Chars) /\ Len(w) = Len(s) + Len(t)
  /\ \A i \in 1 .. Len(s) : w[i] = s[i]
  /\ \A i \in 1 .. Len(t) : w[Len(s) + i] = t[i]
\* So is every concatenation.
LEMMA JoinIs ==
  ASSUME NEW s \in Seq(Chars), NEW t \in Seq(Chars)
  PROVE  IsJoin(s \o t, s, t)
  <1>1. Len(s) \in Nat /\ Len(t) \in Nat BY LenProperties
  <1>2. PICK w : w = s \o t OBVIOUS
  <1>3. /\ w \in Seq(Chars) /\ Len(w) = Len(s) + Len(t)
        /\ \A i \in 1 .. Len(s) + Len(t) : w[i] = IF i <= Len(s) THEN s[i] ELSE t[i - Len(s)]
    BY <1>1, <1>2, ConcatProperties
  <1>4. \A i \in 1 .. Len(s) : w[i] = s[i] BY <1>1, <1>3
  <1>5. ASSUME NEW i \in 1 .. Len(t) PROVE w[Len(s) + i] = t[i]
    <2>1. Len(s) + i \in 1 .. Len(s) + Len(t) /\ ~(Len(s) + i <= Len(s))
          /\ (Len(s) + i) - Len(s) = i
      BY <1>1
    <2> QED BY <1>3, <2>1
  <1> QED BY <1>2, <1>3, <1>4, <1>5 DEF IsJoin

\* One character.
LEMMA Single ==
  ASSUME NEW x \in Chars, NEW s \in Seq(Chars)
  PROVE  /\ <<x>> \in Seq(Chars) /\ Len(<<x>>) = 1 /\ <<x>>[1] = x
         /\ s \o <<x>> \in Seq(Chars) /\ Len(s \o <<x>>) = Len(s) + 1
         /\ (s \o <<x>>)[Len(s) + 1] = x
         /\ \A i \in 1 .. Len(s) : (s \o <<x>>)[i] = s[i]
  <1>1. <<x>> \in Seq(Chars) /\ Len(<<x>>) = 1 /\ <<x>>[1] = x OBVIOUS
  <1>2. PICK e : e = <<x>> OBVIOUS
  <1>3. IsJoin(s \o e, s, e) BY <1>1, <1>2, JoinIs
  <1> QED BY <1>1, <1>2, <1>3 DEF IsJoin

\* The marks between the words of a head are characters.
LEMMA Marks11 ==
  SP \in Chars /\ ":" \in Chars /\ "?" \in Chars /\ "CR" \in Chars /\ "LF" \in Chars
  BY Zenon DEF Chars

\* A header line: its length and its characters.
LEMMA HeaderPieceIs ==
  ASSUME NEW s \in Seq(Chars), NEW v \in Seq(Chars)
  PROVE  /\ HeaderPiece(s, v) \in Seq(Chars) /\ Len(HeaderPiece(s, v)) = Len(s) + Len(v) + 3
         /\ \A i \in 1 .. Len(s) : HeaderPiece(s, v)[i] = s[i]
         /\ HeaderPiece(s, v)[Len(s) + 1] = ":" /\ HeaderPiece(s, v)[Len(s) + 2] = SP
         /\ \A i \in 1 .. Len(v) : HeaderPiece(s, v)[Len(s) + 2 + i] = v[i]
         /\ HeaderPiece(s, v)[Len(s) + Len(v) + 3] = "CR"
  <1>0. Len(s) \in Nat /\ Len(v) \in Nat BY LenProperties
  <1>1. PICK a : a = <<":", SP>> OBVIOUS
  <1>2. a \in Seq(Chars) /\ Len(a) = 2 /\ a[1] = ":" /\ a[2] = SP BY <1>1, Marks11
  <1>3. PICK u, w, z : u = s \o a /\ w = u \o v /\ z = w \o <<"CR">> OBVIOUS
  <1>4. IsJoin(u, s, a) BY <1>2, <1>3, JoinIs
  <1>5. u \in Seq(Chars) /\ Len(u) = Len(s) + 2 BY <1>2, <1>4 DEF IsJoin
  <1>6. IsJoin(w, u, v) BY <1>3, <1>5, JoinIs
  <1>7. w \in Seq(Chars) /\ Len(w) = Len(s) + 2 + Len(v) BY <1>5, <1>6 DEF IsJoin
  <1>8. PICK e : e = <<"CR">> OBVIOUS
  <1>9. e \in Seq(Chars) /\ Len(e) = 1 /\ e[1] = "CR" BY <1>8, Marks11
  <1>10. IsJoin(z, w, e) BY <1>3, <1>7, <1>8, <1>9, JoinIs
  <1>11. z \in Seq(Chars) /\ Len(z) = Len(s) + Len(v) + 3 BY <1>0, <1>7, <1>9, <1>10 DEF IsJoin
  <1>12. \A i \in 1 .. Len(w) : z[i] = w[i] BY <1>10 DEF IsJoin
  <1>13. \A i \in 1 .. Len(u) : w[i] = u[i] BY <1>6 DEF IsJoin
  <1>14. ASSUME NEW i \in 1 .. Len(s) PROVE z[i] = s[i]
    <2>1. i \in 1 .. Len(u) /\ i \in 1 .. Len(w) BY <1>0, <1>5, <1>7
    <2>2. u[i] = s[i] BY <1>4 DEF IsJoin
    <2> QED BY <1>12, <1>13, <2>1, <2>2
  <1>15. z[Len(s) + 1] = ":" /\ z[Len(s) + 2] = SP
    <2>1. /\ Len(s) + 1 \in 1 .. Len(u) /\ Len(s) + 1 \in 1 .. Len(w)
          /\ Len(s) + 2 \in 1 .. Len(u) /\ Len(s) + 2 \in 1 .. Len(w)
      BY <1>0, <1>5, <1>7
    <2>2. u[Len(s) + 1] = a[1] /\ u[Len(s) + 2] = a[2] BY <1>2, <1>4 DEF IsJoin
    <2> QED BY <1>2, <1>12, <1>13, <2>1, <2>2
  <1>16. ASSUME NEW i \in 1 .. Len(v) PROVE z[Len(s) + 2 + i] = v[i]
    <2>1. Len(u) + i \in 1 .. Len(w) /\ Len(u) + i = Len(s) + 2 + i BY <1>0, <1>5, <1>7
    <2>2. w[Len(u) + i] = v[i] BY <1>6 DEF IsJoin
    <2> QED BY <1>12, <2>1, <2>2
  <1>17. z[Len(s) + Len(v) + 3] = "CR"
    <2>1. z[Len(w) + 1] = e[1] BY <1>9, <1>10 DEF IsJoin
    <2>2. Len(w) + 1 = Len(s) + Len(v) + 3 BY <1>0, <1>7
    <2> QED BY <1>9, <2>1, <2>2
  <1>18. HeaderPiece(s, v) = z BY <1>1, <1>3 DEF HeaderPiece
  <1> QED BY <1>11, <1>14, <1>15, <1>16, <1>17, <1>18

\* The types of the pieces.
LEMMA PieceType ==
  ASSUME NEW m, IsRequest(m), NEW j \in 0 .. 10
  PROVE  /\ Piece(m, j) \in Seq(Chars) /\ Len(Piece(m, j)) \in Nat
         /\ Len(Piece(m, j)) = 0 <=> (j = 2 /\ m.query = <<>>) \/ (j \in {7, 8} /\ m.body = <<>>)
  <1> DEFINE Proper(s) == s \in Seq(Chars) /\ Len(s) \in Nat /\ Len(s) > 0
  <1>1. \A s \in Seq(Chars) : Proper(s \o <<SP>>) /\ Proper(s \o <<"?">>) /\ Proper(s \o <<"CR">>)
    <2>1. ASSUME NEW s \in Seq(Chars), NEW x \in Chars PROVE Proper(s \o <<x>>)
      <3>1. s \o <<x>> \in Seq(Chars) /\ Len(s \o <<x>>) = Len(s) + 1 /\ Len(s) \in Nat
        BY Single, LenProperties
      <3> QED BY <3>1
    <2> QED BY <2>1, Marks11
  <1>2. Proper(<<"CR">>) /\ Proper(<<"LF">>) BY Marks11
  <1>3. ASSUME NEW s \in Seq(Chars), NEW v \in Seq(Chars) PROVE Proper(HeaderPiece(s, v))
    <2>1. /\ HeaderPiece(s, v) \in Seq(Chars) /\ Len(HeaderPiece(s, v)) = Len(s) + Len(v) + 3
          /\ Len(s) \in Nat /\ Len(v) \in Nat
      BY HeaderPieceIs, LenProperties
    <2> QED BY <2>1
  <1>4. PICK d : d = <<DigitOf(Len(m.body))>> OBVIOUS
  <1>5. d \in Seq(Chars)
    <2>1. DigitOf(Len(m.body)) \in Chars BY DigitOfType DEF IsRequest, Chars
    <2> QED BY <1>4, <2>1
  <1>6. <<>> \in Seq(Chars) /\ Len(<<>>) = 0 OBVIOUS
  <1>7. m.method \in Seq(Chars) /\ m.path \in Seq(Chars) /\ m.query \in Seq(Chars)
    BY DEF IsRequest
  <1>8. Proper(HeaderPiece(Connection, CloseWord)) /\ Proper(HeaderPiece(ContentLength, d))
        /\ Proper(Http11 \o <<"CR">>)
    BY <1>1, <1>3, <1>5, WordTypes
  <1>9. CASE (j = 2 /\ m.query = <<>>) \/ (j \in {7, 8} /\ m.body = <<>>)
    <2>1. Piece(m, j) = <<>> BY <1>9 DEF Piece
    <2> QED BY <1>6, <1>9, <2>1
  <1>10. CASE ~((j = 2 /\ m.query = <<>>) \/ (j \in {7, 8} /\ m.body = <<>>))
    <2> HIDE DEF Proper
    <2>1. j \in {0, 1, 2} => Proper(Piece(m, j)) BY <1>1, <1>7, <1>10 DEF Piece
    <2>2. j \in {3, 5, 7} => Proper(Piece(m, j)) BY <1>4, <1>8, <1>10 DEF Piece
    <2>3. j \in {4, 6, 8, 9, 10} => Proper(Piece(m, j)) BY <1>2, <1>10 DEF Piece
    <2>4. Proper(Piece(m, j)) BY <2>1, <2>2, <2>3
    <2> QED BY <1>10, <2>4 DEF Proper
  <1> QED BY <1>9, <1>10

\* The head is made of them.
LEMMA UptoJoins ==
  ASSUME NEW m, IsRequest(m)
  PROVE  \E h, d : /\ Joins(h, d, 11)
                   /\ \A j \in 0 .. 11 : Upto(m, j) = h[j]
                   /\ \A j \in 1 .. 11 : d[j] = Piece(m, j - 1)
  <1>1. PICK d : d = [j \in 1 .. 11 |-> Piece(m, j - 1)] OBVIOUS
  <1>2. d \in [1 .. 11 -> Seq(Chars)]
    <2>1. \A j \in 1 .. 11 : j - 1 \in 0 .. 10 OBVIOUS
    <2>2. \A j \in 1 .. 11 : Piece(m, j - 1) \in Seq(Chars) BY <2>1, PieceType
    <2> QED BY <1>1, <2>2
  <1> DEFINE Is(h) == h = [k \in 0 .. 11 |-> IF k = 0 THEN <<>> ELSE h[k - 1] \o Piece(m, k - 1)]
  <1>3. \A h : Is(h) <=> IsUpto(h, d, 11)
    <2>1. \A k \in 0 .. 11 : k # 0 => d[k] = Piece(m, k - 1) BY <1>1
    <2> QED BY <2>1 DEF IsUpto
  <1>4. \A j : Upto(m, j) = (CHOOSE h : Is(h))[j] BY DEF Upto
  <1> HIDE DEF Is
  <1>5. \E h : Is(h) BY <1>2, <1>3, JoinExists
  <1>6. PICK h : h = (CHOOSE z : Is(z)) /\ Is(h) BY <1>5
  <1>7. Joins(h, d, 11) BY <1>2, <1>3, <1>6, JoinExists
  <1> QED BY <1>1, <1>4, <1>6, <1>7

\* Where a piece begins is a number.
LEMMA OffsetIs ==
  ASSUME NEW m, IsRequest(m), NEW j \in 0 .. 10
  PROVE  /\ Offset(m, j) \in Nat /\ Offset(m, j + 1) = Offset(m, j) + Len(Piece(m, j))
         /\ Offset(m, j + 1) \in Nat
  <1>1. PICK h, d : /\ Joins(h, d, 11)
                    /\ \A i \in 0 .. 11 : Upto(m, i) = h[i]
                    /\ \A i \in 1 .. 11 : d[i] = Piece(m, i - 1)
    BY UptoJoins
  <1>2. j \in 0 .. 11 /\ j + 1 \in 0 .. 11 /\ j + 1 \in 1 .. 11 /\ (j + 1) - 1 = j OBVIOUS
  <1>3. Upto(m, j) = h[j] /\ Upto(m, j + 1) = h[j + 1] /\ d[j + 1] = Piece(m, j) BY <1>1, <1>2
  <1>4. h[j] \in Seq(Chars) /\ d[j + 1] \in Seq(Chars) /\ h[j + 1] = h[j] \o d[j + 1]
    BY <1>1, <1>2 DEF Joins
  <1>5. IsJoin(h[j] \o d[j + 1], h[j], d[j + 1]) BY <1>4, JoinIs
  <1>6. Len(h[j]) \in Nat /\ Len(d[j + 1]) \in Nat BY <1>4, LenProperties
  <1>7. Len(h[j + 1]) = Len(h[j]) + Len(d[j + 1]) BY <1>4, <1>5 DEF IsJoin
  <1> QED BY <1>3, <1>6, <1>7 DEF Offset

\* The piece that follows begins where this one ends, and is not empty.
LEMMA FollowsPiece ==
  ASSUME NEW m, IsRequest(m), NEW j \in 0 .. 10, Len(Piece(m, j)) > 0
  PROVE  /\ Follows(m, j) \in 1 .. 11 /\ Follows(m, j) > j
         /\ Offset(m, Follows(m, j)) = Offset(m, j) + Len(Piece(m, j))
         /\ Follows(m, j) # 11 => Len(Piece(m, Follows(m, j))) > 0
  <1>1. Follows(m, j) \in 1 .. 11 /\ Follows(m, j) > j BY DEF Follows
  <1>a. Len(Piece(m, j)) = 0 <=> (j = 2 /\ m.query = <<>>) \/ (j \in {7, 8} /\ m.body = <<>>)
    BY PieceType
  <1>2. m.query = <<>> => Len(Piece(m, 2)) = 0 /\ j # 2
    <2>1. Len(Piece(m, 2)) = 0 <=> (2 = 2 /\ m.query = <<>>) \/ (2 \in {7, 8} /\ m.body = <<>>)
      BY PieceType
    <2> QED BY <1>a, <2>1
  <1>3. m.body = <<>> => Len(Piece(m, 7)) = 0 /\ Len(Piece(m, 8)) = 0 /\ j \notin {7, 8}
    <2>1. Len(Piece(m, 7)) = 0 <=> (7 = 2 /\ m.query = <<>>) \/ (7 \in {7, 8} /\ m.body = <<>>)
      BY PieceType
    <2>2. Len(Piece(m, 8)) = 0 <=> (8 = 2 /\ m.query = <<>>) \/ (8 \in {7, 8} /\ m.body = <<>>)
      BY PieceType
    <2> QED BY <1>a, <2>1, <2>2
  <1>4. Offset(m, j + 1) = Offset(m, j) + Len(Piece(m, j)) BY OffsetIs
  <1>5. m.query = <<>> => Offset(m, 3) = Offset(m, 2)
    <2>1. Offset(m, 2 + 1) = Offset(m, 2) + Len(Piece(m, 2)) /\ Offset(m, 2) \in Nat BY OffsetIs
    <2> QED BY <1>2, <2>1
  <1>6. m.body = <<>> => Offset(m, 9) = Offset(m, 7)
    <2>1. /\ Offset(m, 7 + 1) = Offset(m, 7) + Len(Piece(m, 7)) /\ Offset(m, 7) \in Nat
          /\ Offset(m, 8 + 1) = Offset(m, 8) + Len(Piece(m, 8)) /\ Offset(m, 8) \in Nat
      BY OffsetIs
    <2> QED BY <1>3, <2>1
  <1>7. Offset(m, Follows(m, j)) = Offset(m, j) + Len(Piece(m, j))
    BY <1>4, <1>5, <1>6 DEF Follows
  <1>8. Follows(m, j) # 11 => Len(Piece(m, Follows(m, j))) > 0
    <2>1. PICK i : i = Follows(m, j) OBVIOUS
    <2>2. i \in 1 .. 11 /\ ~(i = 2 /\ m.query = <<>>) /\ ~(i \in {7, 8} /\ m.body = <<>>)
      BY <1>2, <1>3, <2>1 DEF Follows
    <2>3. i # 11 => i \in 0 .. 10 BY <2>2
    <2>4. i # 11 => Len(Piece(m, i)) \in Nat /\ Len(Piece(m, i)) # 0 BY <2>2, <2>3, PieceType
    <2> QED BY <2>1, <2>4
  <1> QED BY <1>1, <1>7, <1>8

\* w is made of u and v.
Makes(w, u, v) == u \in Seq(Chars) /\ v \in Seq(Chars) /\ w \in Seq(Chars) /\ w = u \o v
\* Two texts make one,
LEMMA MakesExists ==
  ASSUME NEW u \in Seq(Chars), NEW v \in Seq(Chars)
  PROVE  Makes(u \o v, u, v)
  BY ConcatProperties DEF Makes
\* and only one;
LEMMA MakesOne ==
  ASSUME NEW u, NEW v, NEW w, NEW z, Makes(w, u, v), Makes(z, u, v)
  PROVE  w = z
  BY DEF Makes
\* nothing adds nothing.
LEMMA MakesNone ==
  ASSUME NEW u \in Seq(Chars)
  PROVE  Makes(u, u, <<>>) /\ Makes(u, <<>>, u)
  BY ConcatEmptySeq DEF Makes
\* Two ways to make the same.
LEMMA MakesAssoc ==
  ASSUME NEW a, NEW b, NEW c, NEW ab, NEW abc, Makes(ab, a, b), Makes(abc, ab, c)
  PROVE  \A bc : Makes(bc, b, c) => Makes(abc, a, bc)
  <1>1. (a \o b) \o c = a \o (b \o c) BY ConcatAssociative DEF Makes
  <1> QED BY <1>1 DEF Makes
\* The other way round.
LEMMA MakesAssoc2 ==
  ASSUME NEW a, NEW b, NEW c, NEW bc, NEW abc, Makes(bc, b, c), Makes(abc, a, bc)
  PROVE  \A ab : Makes(ab, a, b) => Makes(abc, ab, c)
  <1>1. (a \o b) \o c = a \o (b \o c) BY ConcatAssociative DEF Makes
  <1> QED BY <1>1 DEF Makes

\* What the pieces of a head are made of.
LEMMA PieceParts ==
  ASSUME NEW m, IsRequest(m)
  PROVE  /\ Makes(Piece(m, 0), m.method, <<SP>>)
         /\ m.query = <<>> => Makes(Piece(m, 1), m.path, <<SP>>) /\ Piece(m, 2) = <<>>
         /\ m.query # <<>> => Makes(Piece(m, 1), m.path, <<"?">>) /\ Makes(Piece(m, 2), m.query, <<SP>>)
         /\ Makes(Piece(m, 3), Http11, <<"CR">>)
         /\ Piece(m, 5) = HeaderPiece(Connection, CloseWord)
         /\ m.body = <<>> => Piece(m, 7) = <<>> /\ Piece(m, 8) = <<>>
         /\ m.body # <<>> => /\ Piece(m, 7) = HeaderPiece(ContentLength, <<DigitOf(Len(m.body))>>)
                             /\ Piece(m, 8) = <<"LF">>
         /\ Piece(m, 4) = <<"LF">> /\ Piece(m, 6) = <<"LF">>
         /\ Piece(m, 9) = <<"CR">> /\ Piece(m, 10) = <<"LF">>
  <1>1. <<SP>> \in Seq(Chars) /\ <<"?">> \in Seq(Chars) /\ <<"CR">> \in Seq(Chars) BY Marks11
  <1>2. \A s \in Seq(Chars) : Makes(s \o <<SP>>, s, <<SP>>) /\ Makes(s \o <<"?">>, s, <<"?">>)
                              /\ Makes(s \o <<"CR">>, s, <<"CR">>)
    BY <1>1, MakesExists
  <1>3. Piece(m, 0) = m.method \o <<SP>> BY DEF Piece
  <1>4. m.query = <<>> => Piece(m, 1) = m.path \o <<SP>> /\ Piece(m, 2) = <<>> BY DEF Piece
  <1>5. m.query # <<>> => Piece(m, 1) = m.path \o <<"?">> /\ Piece(m, 2) = m.query \o <<SP>>
    BY DEF Piece
  <1>6. Piece(m, 3) = Http11 \o <<"CR">> BY DEF Piece
  <1>7. Piece(m, 5) = HeaderPiece(Connection, CloseWord) BY DEF Piece
  <1>8. m.body = <<>> => Piece(m, 7) = <<>> /\ Piece(m, 8) = <<>> BY DEF Piece
  <1>9. m.body # <<>> => Piece(m, 7) = HeaderPiece(ContentLength, <<DigitOf(Len(m.body))>>)
    BY DEF Piece
  <1>10. m.body # <<>> => Piece(m, 8) = <<"LF">> BY DEF Piece
  <1>11. /\ Piece(m, 4) = <<"LF">> /\ Piece(m, 6) = <<"LF">>
         /\ Piece(m, 9) = <<"CR">> /\ Piece(m, 10) = <<"LF">>
    BY DEF Piece
  <1>12. m.method \in Seq(Chars) /\ m.path \in Seq(Chars) /\ m.query \in Seq(Chars)
    BY DEF IsRequest
  <1>13. Makes(Piece(m, 0), m.method, <<SP>>) BY <1>2, <1>3, <1>12, Zenon
  <1>14. m.query = <<>> => Makes(Piece(m, 1), m.path, <<SP>>) BY <1>2, <1>4, <1>12, Zenon
  <1>15. m.query # <<>> => Makes(Piece(m, 1), m.path, <<"?">>) /\ Makes(Piece(m, 2), m.query, <<SP>>)
    BY <1>2, <1>5, <1>12, Zenon
  <1>16. Makes(Piece(m, 3), Http11, <<"CR">>) BY <1>2, <1>6, WordTypes, Zenon
  <1> QED
    BY <1>4, <1>7, <1>8, <1>9, <1>10, <1>11, <1>13, <1>14, <1>15, <1>16, Zenon

\* A header line with the line feed, made in both ways.
LEMMA HeaderParts ==
  ASSUME NEW s \in Seq(Chars), NEW v \in Seq(Chars)
  PROVE  \E sc, scv : /\ Makes(sc, s, <<":", SP>>) /\ Makes(scv, sc, v)
                      /\ Makes(HeaderPiece(s, v), scv, <<"CR">>)
  <1>1. <<":", SP>> \in Seq(Chars) /\ <<"CR">> \in Seq(Chars) BY Marks11
  <1>2. PICK sc : sc = s \o <<":", SP>> /\ Makes(sc, s, <<":", SP>>) BY <1>1, MakesExists
  <1>3. PICK scv : scv = sc \o v /\ Makes(scv, sc, v)
    <2>1. sc \in Seq(Chars) BY <1>2 DEF Makes
    <2> QED BY <2>1, MakesExists
  <1>4. Makes(scv \o <<"CR">>, scv, <<"CR">>)
    <2>1. scv \in Seq(Chars) BY <1>3 DEF Makes
    <2> QED BY <1>1, <2>1, MakesExists
  <1>5. HeaderPiece(s, v) = scv \o <<"CR">> BY <1>2, <1>3, Zenon DEF HeaderPiece
  <1> QED BY <1>2, <1>3, <1>4, <1>5

\* A line of the head is a piece and its line feed.
LEMMA LineMade ==
  ASSUME NEW s, NEW v, NEW h, NEW h1, NEW h2, NEW x1, NEW x2, NEW x3, NEW x4,
         s \in Seq(Chars), v \in Seq(Chars),
         Makes(h1, h, HeaderPiece(s, v)), Makes(h2, h1, <<"LF">>),
         Makes(x1, h, s), Makes(x2, x1, <<":", SP>>), Makes(x3, x2, v), Makes(x4, x3, CrLf)
  PROVE  h2 = x4
  <1>1. PICK co, cr, lf : co = <<":", SP>> /\ cr = <<"CR">> /\ lf = <<"LF">> OBVIOUS
  <1>2. PICK sc, scv : Makes(sc, s, co) /\ Makes(scv, sc, v) /\ Makes(HeaderPiece(s, v), scv, cr)
    BY <1>1, HeaderParts
  <1>3. Makes(CrLf, cr, lf) BY <1>1, Marks11 DEF Makes, CrLf
  <1>4. Makes(x2, h, sc) BY <1>1, <1>2, MakesAssoc
  <1>5. Makes(x3, h, scv) BY <1>2, <1>4, MakesAssoc
  <1>6. Makes(h1, x3, cr) BY <1>2, <1>5, MakesAssoc2
  <1>7. Makes(h2, x3, CrLf) BY <1>1, <1>3, <1>6, MakesAssoc
  <1> QED BY <1>7, MakesOne

\* HttpRequest::dump writes the pieces one after the other.
LEMMA DumpHeadIs ==
  ASSUME NEW m, IsRequest(m)
  PROVE  DumpHead(m) = Upto(m, 11) /\ Upto(m, 11) \in Seq(Chars)
  <1>1. PICK h, d : /\ Joins(h, d, 11)
                    /\ \A i \in 0 .. 11 : Upto(m, i) = h[i]
                    /\ \A i \in 1 .. 11 : d[i] = Piece(m, i - 1)
    BY UptoJoins
  <1>2. ASSUME NEW k \in 1 .. 11 PROVE Makes(h[k], h[k - 1], Piece(m, k - 1))
    <2>1. k \in 0 .. 11 /\ k - 1 \in 0 .. 11 OBVIOUS
    <2>2. h[k] \in Seq(Chars) /\ h[k - 1] \in Seq(Chars) BY <1>1, <2>1 DEF Joins
    <2>3. h[k] = h[k - 1] \o d[k] /\ d[k] \in Seq(Chars) BY <1>1, <2>1 DEF Joins
    <2>4. d[k] = Piece(m, k - 1) BY <1>1
    <2> QED BY <2>2, <2>3, <2>4, Zenon DEF Makes
  <1>3. /\ Makes(h[1], h[0], Piece(m, 0)) /\ Makes(h[2], h[1], Piece(m, 1))
        /\ Makes(h[3], h[2], Piece(m, 2)) /\ Makes(h[4], h[3], Piece(m, 3))
        /\ Makes(h[5], h[4], Piece(m, 4)) /\ Makes(h[6], h[5], Piece(m, 5))
        /\ Makes(h[7], h[6], Piece(m, 6)) /\ Makes(h[8], h[7], Piece(m, 7))
        /\ Makes(h[9], h[8], Piece(m, 8)) /\ Makes(h[10], h[9], Piece(m, 9))
        /\ Makes(h[11], h[10], Piece(m, 10)) /\ h[0] = <<>>
    BY <1>1, <1>2 DEF Joins
  <1>4. PICK sp, qm, co, cr, lf, dg :
          /\ sp = <<SP>> /\ qm = <<"?">> /\ co = <<":", SP>> /\ cr = <<"CR">> /\ lf = <<"LF">>
          /\ dg = <<DigitOf(Len(m.body))>>
    OBVIOUS
  <1>5. /\ sp \in Seq(Chars) /\ qm \in Seq(Chars) /\ co \in Seq(Chars) /\ cr \in Seq(Chars)
        /\ lf \in Seq(Chars) /\ dg \in Seq(Chars)
    <2>1. DigitOf(Len(m.body)) \in Chars BY DigitOfType DEF IsRequest, Chars
    <2> QED BY <1>4, <2>1, Marks11
  <1>6. Makes(CrLf, cr, lf) /\ CrLf \in Seq(Chars) BY <1>4, Marks11 DEF Makes, CrLf
  <1>7. PICK cod : cod = <<":", SP, DigitOf(Len(m.body))>> OBVIOUS
  <1>8. Makes(cod, co, dg) /\ cod \in Seq(Chars)
    <2>1. DigitOf(Len(m.body)) \in Chars BY DigitOfType DEF IsRequest, Chars
    <2>2. PICK x \in Chars : x = DigitOf(Len(m.body)) BY <2>1
    <2>3. cod = <<":", SP, x>> /\ co = <<":", SP>> /\ dg = <<x>> BY <1>4, <1>7, <2>2
    <2>4. cod = co \o dg BY <2>3
    <2>5. cod \in Seq(Chars) BY <2>2, <2>3, Marks11
    <2> QED BY <1>5, <2>4, <2>5 DEF Makes
  <1>9. /\ m.method \in Seq(Chars) /\ m.path \in Seq(Chars) /\ m.query \in Seq(Chars)
        /\ Connection \in Seq(Chars) /\ CloseWord \in Seq(Chars) /\ ContentLength \in Seq(Chars)
        /\ Http11 \in Seq(Chars) /\ <<>> \in Seq(Chars)
    BY WordTypes DEF IsRequest
  <1>10. \A u, v \in Seq(Chars) : Makes(u \o v, u, v) /\ u \o v \in Seq(Chars)
    BY MakesExists DEF Makes
  <1>11. PICK target : target = (IF m.query = <<>> THEN <<>> ELSE <<"?">> \o m.query) OBVIOUS
  <1>12. /\ target \in Seq(Chars)
         /\ m.query = <<>> => target = <<>>
         /\ m.query # <<>> => Makes(target, qm, m.query)
    BY <1>4, <1>5, <1>9, <1>10, <1>11, Zenon
  <1>13. PICK lc : lc = ContentLength \o cod /\ Makes(lc, ContentLength, cod) /\ lc \in Seq(Chars)
    BY <1>8, <1>9, <1>10
  <1>14. PICK number : number = (IF m.body = <<>> THEN <<>> ELSE lc \o CrLf) OBVIOUS
  <1>15. /\ number \in Seq(Chars)
         /\ m.body = <<>> => number = <<>>
         /\ m.body # <<>> => Makes(number, lc, CrLf)
    BY <1>6, <1>9, <1>10, <1>13, <1>14, Zenon
  <1>16. PICK t1 \in Seq(Chars) : t1 = m.method \o sp /\ Makes(t1, m.method, sp)
    <2>1. Makes(m.method \o sp, m.method, sp) /\ m.method \o sp \in Seq(Chars) BY <1>5, <1>9, <1>10, Zenon
    <2> QED BY <2>1, Zenon
  <1>17. PICK t2 \in Seq(Chars) : t2 = t1 \o m.path /\ Makes(t2, t1, m.path)
    <2>1. Makes(t1 \o m.path, t1, m.path) /\ t1 \o m.path \in Seq(Chars) BY <1>9, <1>10, <1>16, Zenon
    <2> QED BY <2>1, Zenon
  <1>18. PICK t3 \in Seq(Chars) : t3 = t2 \o target /\ Makes(t3, t2, target)
    <2>1. Makes(t2 \o target, t2, target) /\ t2 \o target \in Seq(Chars) 
      <3>1. target \in Seq(Chars) BY <1>12
      <3> QED BY <3>1, <1>10, <1>17, Zenon
    <2> QED BY <2>1, Zenon
  <1>19. PICK t4 \in Seq(Chars) : t4 = t3 \o sp /\ Makes(t4, t3, sp)
    <2>1. Makes(t3 \o sp, t3, sp) /\ t3 \o sp \in Seq(Chars) BY <1>5, <1>10, <1>18, Zenon
    <2> QED BY <2>1, Zenon
  <1>20. PICK t5 \in Seq(Chars) : t5 = t4 \o Http11 /\ Makes(t5, t4, Http11)
    <2>1. Makes(t4 \o Http11, t4, Http11) /\ t4 \o Http11 \in Seq(Chars) BY <1>9, <1>10, <1>19, Zenon
    <2> QED BY <2>1, Zenon
  <1>21. PICK t6 \in Seq(Chars) : t6 = t5 \o CrLf /\ Makes(t6, t5, CrLf)
    <2>1. Makes(t5 \o CrLf, t5, CrLf) /\ t5 \o CrLf \in Seq(Chars) BY <1>6, <1>10, <1>20, Zenon
    <2> QED BY <2>1, Zenon
  <1>22. PICK t7 \in Seq(Chars) : t7 = t6 \o Connection /\ Makes(t7, t6, Connection)
    <2>1. Makes(t6 \o Connection, t6, Connection) /\ t6 \o Connection \in Seq(Chars) BY <1>9, <1>10, <1>21, Zenon
    <2> QED BY <2>1, Zenon
  <1>23. PICK t8 \in Seq(Chars) : t8 = t7 \o co /\ Makes(t8, t7, co)
    <2>1. Makes(t7 \o co, t7, co) /\ t7 \o co \in Seq(Chars) BY <1>5, <1>10, <1>22, Zenon
    <2> QED BY <2>1, Zenon
  <1>24. PICK t9 \in Seq(Chars) : t9 = t8 \o CloseWord /\ Makes(t9, t8, CloseWord)
    <2>1. Makes(t8 \o CloseWord, t8, CloseWord) /\ t8 \o CloseWord \in Seq(Chars) BY <1>9, <1>10, <1>23, Zenon
    <2> QED BY <2>1, Zenon
  <1>25. PICK t10 \in Seq(Chars) : t10 = t9 \o CrLf /\ Makes(t10, t9, CrLf)
    <2>1. Makes(t9 \o CrLf, t9, CrLf) /\ t9 \o CrLf \in Seq(Chars) BY <1>6, <1>10, <1>24, Zenon
    <2> QED BY <2>1, Zenon
  <1>26. PICK t11 \in Seq(Chars) : t11 = t10 \o number /\ Makes(t11, t10, number)
    <2>1. Makes(t10 \o number, t10, number) /\ t10 \o number \in Seq(Chars) 
      <3>1. number \in Seq(Chars) BY <1>15
      <3> QED BY <3>1, <1>10, <1>25, Zenon
    <2> QED BY <2>1, Zenon
  <1>27. PICK t12 \in Seq(Chars) : t12 = t11 \o CrLf /\ Makes(t12, t11, CrLf)
    <2>1. Makes(t11 \o CrLf, t11, CrLf) /\ t11 \o CrLf \in Seq(Chars) BY <1>6, <1>10, <1>26, Zenon
    <2> QED BY <2>1, Zenon
  <1>28. DumpHead(m) = t12
    BY <1>4, <1>7, <1>11, <1>13, <1>14, <1>16, <1>17, <1>18, <1>19, <1>20, <1>21, <1>22, <1>23,
       <1>24, <1>25, <1>26, <1>27, Zenon DEF DumpHead
  <1>p. PICK p0, p1, p2, p3, p7, p8 :
          /\ p0 = Piece(m, 0) /\ p1 = Piece(m, 1) /\ p2 = Piece(m, 2) /\ p3 = Piece(m, 3)
          /\ p7 = Piece(m, 7) /\ p8 = Piece(m, 8)
    OBVIOUS
  <1>h. PICK h0, h1, h2, h3, h4, h5, h6, h7, h8, h9, h10, h11 :
          /\ h0 = h[0] /\ h1 = h[1] /\ h2 = h[2] /\ h3 = h[3] /\ h4 = h[4] /\ h5 = h[5]
          /\ h6 = h[6] /\ h7 = h[7] /\ h8 = h[8] /\ h9 = h[9] /\ h10 = h[10] /\ h11 = h[11]
    OBVIOUS
  <1>h1. Makes(h1, h0, p0) BY <1>3, <1>h, <1>p, Zenon
  <1>h2. Makes(h2, h1, p1) BY <1>3, <1>h, <1>p, Zenon
  <1>h3. Makes(h3, h2, p2) BY <1>3, <1>h, <1>p, Zenon
  <1>h4. Makes(h4, h3, p3) BY <1>3, <1>h, <1>p, Zenon
  <1>h5. Makes(h5, h4, Piece(m, 4)) BY <1>3, <1>h, <1>p, Zenon
  <1>h6. Makes(h6, h5, Piece(m, 5)) BY <1>3, <1>h, <1>p, Zenon
  <1>h7. Makes(h7, h6, Piece(m, 6)) BY <1>3, <1>h, <1>p, Zenon
  <1>h8. Makes(h8, h7, p7) BY <1>3, <1>h, <1>p, Zenon
  <1>h9. Makes(h9, h8, p8) BY <1>3, <1>h, <1>p, Zenon
  <1>h10. Makes(h10, h9, Piece(m, 9)) BY <1>3, <1>h, <1>p, Zenon
  <1>h11. Makes(h11, h10, Piece(m, 10)) BY <1>3, <1>h, <1>p, Zenon
  <1>h0. h0 = <<>> BY <1>3, <1>h, Zenon
  <1>29. h1 = t1
    <2>1. Makes(p0, m.method, sp) BY <1>4, <1>p, PieceParts
    <2>2. p0 = t1 BY <1>16, <2>1, MakesOne
    <2>3. Makes(t1, <<>>, t1) BY MakesNone
    <2>4. Makes(h1, <<>>, t1) BY <1>h0, <1>h1, <2>2, Zenon
    <2> QED BY <2>3, <2>4, MakesOne
  <1>30. h3 = t4
    <2>1. CASE m.query = <<>>
      <3>1. Makes(p1, m.path, sp) /\ p2 = <<>> BY <1>4, <1>p, <2>1, PieceParts
      <3>2. Makes(h2, t2, sp)
        <4>1. Makes(h2, t1, p1) /\ Makes(t2, t1, m.path) BY <1>h2, <1>17, <1>29, Zenon
        <4> QED BY <3>1, <4>1, MakesAssoc2
      <3>3. t3 = t2
        <4>1. Makes(t3, t2, <<>>) BY <1>12, <1>18, <2>1, Zenon
        <4>2. Makes(t2, t2, <<>>) BY MakesNone
        <4> QED BY <4>1, <4>2, MakesOne
      <3>4. h2 = t4
        <4>1. Makes(t4, t2, sp) BY <1>19, <3>3, Zenon
        <4> QED BY <3>2, <4>1, MakesOne
      <3>5. Makes(t4, t4, <<>>) BY MakesNone
      <3>6. Makes(h3, t4, <<>>) BY <1>h3, <3>1, <3>4, Zenon
      <3> QED BY <3>5, <3>6, MakesOne
    <2>2. CASE m.query # <<>>
      <3>1. Makes(p1, m.path, qm) /\ Makes(p2, m.query, sp) BY <1>4, <1>p, <2>2, PieceParts
      <3>2. Makes(h2, t2, qm)
        <4>1. Makes(h2, t1, p1) /\ Makes(t2, t1, m.path) BY <1>h2, <1>17, <1>29, Zenon
        <4> QED BY <3>1, <4>1, MakesAssoc2
      <3>3. PICK x : Makes(x, h2, m.query)
        <4>1. h2 \in Seq(Chars) BY <3>2 DEF Makes
        <4> QED BY <1>9, <1>10, <4>1
      <3>4. Makes(h3, x, sp)
        <4>1. Makes(h3, h2, p2) BY <1>h3
        <4> QED BY <3>1, <3>3, <4>1, MakesAssoc2
      <3>5. Makes(x, t2, target)
        <4>1. Makes(target, qm, m.query) BY <1>12, <2>2, Zenon
        <4> QED BY <3>2, <3>3, <4>1, MakesAssoc
      <3>6. x = t3 BY <1>18, <3>5, MakesOne
      <3>7. Makes(h3, t3, sp) /\ Makes(t4, t3, sp) BY <1>19, <3>4, <3>6, Zenon
      <3> QED BY <3>7, MakesOne
    <2> QED BY <2>1, <2>2
  <1>31. h5 = t6
    <2>1. Makes(p3, Http11, cr) BY <1>4, <1>p, PieceParts
    <2>2. Makes(h4, t5, cr)
      <3>1. Makes(h4, t4, p3) /\ Makes(t5, t4, Http11) BY <1>h4, <1>20, <1>30, Zenon
      <3> QED BY <2>1, <3>1, MakesAssoc2
    <2>3. Makes(h5, h4, lf)
      <3>1. lf = Piece(m, 4) BY <1>4, PieceParts
      <3> QED BY <1>h5, <3>1, Zenon
    <2>4. Makes(CrLf, cr, lf) BY <1>6
    <2>5. Makes(h5, t5, CrLf) BY <2>2, <2>3, <2>4, MakesAssoc
    <2>6. Makes(t6, t5, CrLf) BY <1>21
    <2> QED BY <2>5, <2>6, MakesOne
  <1>32. h7 = t10
    <2>1. Makes(h6, t6, HeaderPiece(Connection, CloseWord)) /\ Makes(h7, h6, <<"LF">>)
      <3>1. Piece(m, 5) = HeaderPiece(Connection, CloseWord) /\ Piece(m, 6) = <<"LF">> BY PieceParts
      <3> QED BY <1>h6, <1>h7, <1>31, <3>1, Zenon
    <2>2. Makes(t8, t7, <<":", SP>>) BY <1>4, <1>23, Zenon
    <2>3. Makes(t7, t6, Connection) /\ Makes(t9, t8, CloseWord) /\ Makes(t10, t9, CrLf)
      BY <1>22, <1>24, <1>25, Zenon
    <2>4. Connection \in Seq(Chars) /\ CloseWord \in Seq(Chars) BY <1>9
    <2> QED BY <2>1, <2>2, <2>3, <2>4, LineMade
  <1>33. h9 = t11
    <2>1. CASE m.body = <<>>
      <3>1. p7 = <<>> /\ p8 = <<>> /\ number = <<>>
        <4>1. Piece(m, 7) = <<>> /\ Piece(m, 8) = <<>> BY <2>1, PieceParts
        <4> QED BY <1>15, <1>p, <2>1, <4>1, Zenon
      <3>2. Makes(t10, t10, <<>>) BY MakesNone
      <3>3. h8 = t10
        <4>1. Makes(h8, t10, <<>>) BY <1>h8, <1>32, <3>1, Zenon
        <4> QED BY <3>2, <4>1, MakesOne
      <3>4. h9 = t10
        <4>1. Makes(h9, t10, <<>>) BY <1>h9, <3>1, <3>3, Zenon
        <4> QED BY <3>2, <4>1, MakesOne
      <3>5. t11 = t10
        <4>1. Makes(t11, t10, <<>>) BY <1>26, <3>1, Zenon
        <4> QED BY <3>2, <4>1, MakesOne
      <3> QED BY <3>4, <3>5
    <2>2. CASE m.body # <<>>
      <3>1. Makes(h8, t10, HeaderPiece(ContentLength, dg)) /\ Makes(h9, h8, <<"LF">>)
        <4>1. Piece(m, 7) = HeaderPiece(ContentLength, dg) /\ Piece(m, 8) = <<"LF">>
          BY <1>4, <2>2, PieceParts
        <4> QED BY <1>h8, <1>h9, <1>p, <1>32, <4>1, Zenon
      <3>2. PICK y1 \in Seq(Chars) : Makes(y1, t10, ContentLength) BY <1>9, <1>10
      <3>3. PICK y2 \in Seq(Chars) : Makes(y2, y1, co) BY <1>5, <1>10
      <3>4. PICK y3 \in Seq(Chars) : Makes(y3, y2, dg) BY <1>5, <1>10
      <3>5. PICK y4 \in Seq(Chars) : Makes(y4, y3, CrLf) BY <1>6, <1>10
      <3>6. Makes(y2, y1, <<":", SP>>) BY <1>4, <3>3, Zenon
      <3>7. h9 = y4
        <4>1. ContentLength \in Seq(Chars) /\ dg \in Seq(Chars) BY <1>5, <1>9
        <4> QED BY <3>1, <3>2, <3>4, <3>5, <3>6, <4>1, LineMade
      <3>8. Makes(y3, y1, cod)
        <4>1. Makes(cod, co, dg) BY <1>8
        <4> QED BY <3>3, <3>4, <4>1, MakesAssoc
      <3>9. Makes(y3, t10, lc)
        <4>1. Makes(lc, ContentLength, cod) BY <1>13
        <4> QED BY <3>2, <3>8, <4>1, MakesAssoc
      <3>10. Makes(y4, t10, number)
        <4>1. Makes(number, lc, CrLf) BY <1>15, <2>2
        <4> QED BY <3>5, <3>9, <4>1, MakesAssoc
      <3>11. Makes(t11, t10, number) BY <1>26
      <3>12. y4 = t11 BY <3>10, <3>11, MakesOne
      <3> QED BY <3>7, <3>12
    <2> QED BY <2>1, <2>2
  <1>34. h11 = t12
    <2>1. Makes(h10, t11, cr) /\ Makes(h11, h10, lf)
      <3>1. Piece(m, 9) = cr /\ Piece(m, 10) = lf BY <1>4, PieceParts
      <3> QED BY <1>h10, <1>h11, <1>33, <3>1, Zenon
    <2>2. Makes(CrLf, cr, lf) BY <1>6
    <2>3. Makes(h11, t11, CrLf) BY <2>1, <2>2, MakesAssoc
    <2>4. Makes(t12, t11, CrLf) BY <1>27
    <2> QED BY <2>3, <2>4, MakesOne
  <1>35. Upto(m, 11) = h11 BY <1>1, <1>h
  <1> QED BY <1>28, <1>34, <1>35

-----------------------------------------------------------------------------
\* The text v stands in t after position pos.
PieceAt(t, pos, v) ==
  /\ pos \in Nat /\ v \in Seq(Chars) /\ pos + Len(v) <= Len(t)
  /\ \A y \in 1 .. Len(v) : t[pos + y] = v[y]

\* A piece of a piece is a piece.
LEMMA PieceInPiece ==
  ASSUME NEW t, NEW a, NEW w, NEW b, NEW v, PieceAt(t, a, w), PieceAt(w, b, v), Len(t) \in Nat
  PROVE  PieceAt(t, a + b, v)
  <1>1. Len(w) \in Nat /\ Len(v) \in Nat BY LenProperties DEF PieceAt
  <1>2. PICK lt, lw, lv \in Nat : lt = Len(t) /\ lw = Len(w) /\ lv = Len(v) BY <1>1
  <1>3. /\ a \in Nat /\ b \in Nat /\ a + lw <= lt /\ b + lv <= lw /\ v \in Seq(Chars)
        /\ \A y \in 1 .. lw : t[a + y] = w[y]
        /\ \A y \in 1 .. lv : w[b + y] = v[y]
    BY <1>2 DEF PieceAt
  <1>4. ASSUME NEW y \in 1 .. lv PROVE t[(a + b) + y] = v[y]
    <2>1. b + y \in 1 .. lw /\ a + (b + y) = (a + b) + y BY <1>3
    <2>2. t[a + (b + y)] = w[b + y] BY <1>3, <2>1
    <2> QED BY <1>3, <2>1, <2>2
  <1>5. a + b \in Nat /\ (a + b) + lv <= lt BY <1>3
  <1> QED BY <1>2, <1>3, <1>4, <1>5, Zenon DEF PieceAt

\* The two parts of a concatenation are pieces of it.
LEMMA JoinPieces ==
  ASSUME NEW s \in Seq(Chars), NEW u \in Seq(Chars), NEW w, w = s \o u
  PROVE  /\ PieceAt(w, 0, s) /\ PieceAt(w, Len(s), u) /\ w \in Seq(Chars)
         /\ Len(w) = Len(s) + Len(u)
  <1>1. IsJoin(w, s, u) BY JoinIs
  <1>2. PICK ls, lu \in Nat : ls = Len(s) /\ lu = Len(u) BY LenProperties
  <1>3. /\ w \in Seq(Chars) /\ Len(w) = ls + lu
        /\ \A i \in 1 .. ls : w[i] = s[i]
        /\ \A i \in 1 .. lu : w[ls + i] = u[i]
    BY <1>1, <1>2 DEF IsJoin
  <1>4. \A i \in 1 .. ls : w[0 + i] = s[i]
    <2> TAKE i \in 1 .. ls
    <2>1. 0 + i = i OBVIOUS
    <2> QED BY <1>3, <2>1
  <1>5. 0 \in Nat /\ 0 + ls <= ls + lu /\ ls + lu <= ls + lu OBVIOUS
  <1> QED BY <1>2, <1>3, <1>4, <1>5, Zenon DEF PieceAt

\* The head of a request, and where its pieces are.
LEMMA HeadPieces ==
  ASSUME NEW m, IsRequest(m)
  PROVE  /\ DumpHead(m) \in Seq(Chars) /\ Len(DumpHead(m)) = Offset(m, 11)
         /\ Offset(m, 0) = 0
         /\ \A j \in 0 .. 10 : PieceAt(DumpHead(m), Offset(m, j), Piece(m, j))
  <1>1. PICK h, d : /\ Joins(h, d, 11)
                    /\ \A i \in 0 .. 11 : Upto(m, i) = h[i]
                    /\ \A i \in 1 .. 11 : d[i] = Piece(m, i - 1)
    BY UptoJoins
  <1>2. DumpHead(m) = Upto(m, 11) /\ Upto(m, 11) \in Seq(Chars) BY DumpHeadIs
  <1>3. ASSUME NEW j \in 0 .. 10 PROVE PieceAt(DumpHead(m), Offset(m, j), Piece(m, j))
    <2>1. j + 1 \in 1 .. 11 /\ (j + 1) - 1 = j /\ 11 \in 0 .. 11 /\ j \in 0 .. 11 OBVIOUS
    <2>2. HasPiece(h[11], h[(j + 1) - 1], d[j + 1]) BY <1>1, <2>1, JoinedPieces
    <2>3. h[11] = DumpHead(m) /\ h[(j + 1) - 1] = Upto(m, j) /\ d[j + 1] = Piece(m, j)
      BY <1>1, <1>2, <2>1
    <2>4. HasPiece(DumpHead(m), Upto(m, j), Piece(m, j)) BY <2>2, <2>3, Zenon
    <2>5. Offset(m, j) \in Nat /\ Piece(m, j) \in Seq(Chars) BY OffsetIs, PieceType
    <2> QED BY <2>4, <2>5 DEF HasPiece, PieceAt, Offset
  <1>4. Offset(m, 0) = 0
    <2>1. Upto(m, 0) = <<>> BY <1>1 DEF Joins
    <2> QED BY <2>1 DEF Offset
  <1> QED BY <1>2, <1>3, <1>4 DEF Offset

\* The request with its body.
LEMMA DumpPieces ==
  ASSUME NEW m, IsRequest(m)
  PROVE  /\ Dump(m) \in Seq(Chars)
         /\ PieceAt(Dump(m), 0, DumpHead(m)) /\ PieceAt(Dump(m), Len(DumpHead(m)), m.body)
  <1>1. PICK a, e : a = DumpHead(m) /\ e = (IF m.body = <<>> THEN <<>> ELSE m.body \o CrLf)
    OBVIOUS
  <1>2. a \in Seq(Chars) /\ Len(a) \in Nat BY <1>1, HeadPieces, LenProperties
  <1>3. CrLf \in Seq(Chars) BY Marks11 DEF CrLf
  <1>4. e \in Seq(Chars) /\ PieceAt(e, 0, m.body)
    <2>1. CASE m.body = <<>>
      <3>1. e = <<>> /\ e \in Seq(Chars) /\ Len(e) = 0 BY <1>1, <2>1
      <3> QED BY <2>1, <3>1 DEF PieceAt
    <2>2. CASE m.body # <<>>
      <3>1. e = m.body \o CrLf BY <1>1, <2>2
      <3>2. m.body \in Seq(Chars) BY DEF IsRequest
      <3> QED BY <1>3, <3>1, <3>2, JoinPieces
    <2> QED BY <2>1, <2>2
  <1>5. Dump(m) = a \o e BY <1>1, Zenon DEF Dump
  <1>6. PICK w : w = a \o e OBVIOUS
  <1>7. PieceAt(w, 0, a) /\ PieceAt(w, Len(a), e) /\ w \in Seq(Chars) BY <1>2, <1>4, <1>6, JoinPieces
  <1>8. Len(w) \in Nat BY <1>7, LenProperties
  <1>9. PieceAt(w, Len(a) + 0, m.body) BY <1>4, <1>7, <1>8, PieceInPiece
  <1>10. Len(a) + 0 = Len(a) BY <1>2
  <1> QED BY <1>1, <1>5, <1>6, <1>7, <1>9, <1>10, Zenon

\* The text of a connection is its requests, one after the other.
IsText(g, c) ==
  g = [k \in 0 .. Len(Script[c]) |-> IF k = 0 THEN <<>> ELSE g[k - 1] \o Dump(Script[c][k])]
IsStart(g, c) ==
  g = [k \in 0 .. Len(Script[c]) |-> IF k = 0 THEN 0 ELSE g[k - 1] + Len(Dump(Script[c][k]))]

\* The recursive functions of Text and StartOf compute that.
LEMMA TextJoins ==
  ASSUME NEW c \in Conns
  PROVE  \E h, d : /\ Joins(h, d, Len(Script[c])) /\ Text[c] = h[Len(Script[c])]
                   /\ \A k \in 1 .. Len(Script[c]) : d[k] = Dump(Script[c][k])
                   /\ \A k \in 1 .. Len(Script[c]) : StartOf(c, k) = Len(h[k - 1])
  <1>1. PICK n \in Nat : n = Len(Script[c]) BY ScriptType
  <1>2. \A k \in 1 .. n : IsRequest(Script[c][k]) BY <1>1, ScriptType
  <1>3. PICK d : d = [k \in 1 .. n |-> Dump(Script[c][k])] OBVIOUS
  <1>4. d \in [1 .. n -> Seq(Chars)] BY <1>2, <1>3, DumpPieces
  <1>5. \A h : IsText(h, c) <=> IsUpto(h, d, n)
    <2>1. \A k \in 0 .. n : k # 0 => d[k] = Dump(Script[c][k]) BY <1>3
    <2> QED BY <1>1, <2>1 DEF IsUpto, IsText
  <1>6. PICK h : h = (CHOOSE g : IsText(g, c)) /\ IsText(h, c)
    <2>1. \E g : IsText(g, c) BY <1>4, <1>5, JoinExists
    <2> QED BY <2>1
  <1>7. Joins(h, d, n) BY <1>4, <1>5, <1>6, JoinExists
  <1>8. Text[c] = h[n]
    <2>1. c \in Clients BY ServerAssumption DEF ServerAssumption, Clients
    <2> QED BY <1>1, <1>6, <2>1 DEF Text, IsText
  <1>9. PICK len : len = [k \in 0 .. n |-> Len(h[k])] OBVIOUS
  <1>10. ASSUME NEW k \in 0 .. n PROVE len[k] = IF k = 0 THEN 0 ELSE len[k - 1] + Len(d[k])
    <2>1. CASE k = 0 BY <1>7, <1>9, <2>1 DEF Joins
    <2>2. CASE k # 0
      <3>1. k \in 1 .. n /\ k - 1 \in 0 .. n BY <2>2
      <3>2. PICK s, u, w : s = h[k - 1] /\ u = d[k] /\ w = h[k] OBVIOUS
      <3>3. s \in Seq(Chars) /\ u \in Seq(Chars) /\ w = s \o u BY <1>7, <3>1, <3>2 DEF Joins
      <3>4. Len(w) = Len(s) + Len(u) BY <3>3, JoinPieces
      <3> QED BY <1>9, <2>2, <3>1, <3>2, <3>4
    <2> QED BY <2>1, <2>2
  <1>11. IsStart(len, c)
    <2>1. \A k \in 0 .. n : k # 0 => d[k] = Dump(Script[c][k]) BY <1>3
    <2>2. len = [k \in 0 .. n |-> IF k = 0 THEN 0 ELSE len[k - 1] + Len(Dump(Script[c][k]))]
      BY <1>9, <1>10, <2>1
    <2> QED BY <1>1, <2>2 DEF IsStart
  <1>12. PICK f : f = (CHOOSE g : IsStart(g, c)) /\ IsStart(f, c) BY <1>11
  <1>13. \A k : StartOf(c, k) = f[k - 1] BY <1>12 DEF StartOf, IsStart
  <1>14. \A k \in Nat : k <= n => f[k] = len[k]
    <2> DEFINE S == {k \in Nat : k <= n => f[k] = len[k]}
    <2>1. \A k \in 0 .. n : f[k] = IF k = 0 THEN 0 ELSE f[k - 1] + Len(d[k])
      <3>1. \A k \in 0 .. n : k # 0 => d[k] = Dump(Script[c][k]) BY <1>3
      <3>2. f = [k \in 0 .. n |-> IF k = 0 THEN 0 ELSE f[k - 1] + Len(Dump(Script[c][k]))]
        BY <1>1, <1>12 DEF IsStart
      <3>3. \A k \in 0 .. n : f[k] = IF k = 0 THEN 0 ELSE f[k - 1] + Len(Dump(Script[c][k]))
        BY <3>2, Zenon
      <3> QED BY <3>1, <3>3
    <2>2. 0 \in S
      <3>1. 0 \in 0 .. n OBVIOUS
      <3> QED BY <1>10, <2>1, <3>1
    <2>3. ASSUME NEW k \in Nat, k \in S PROVE k + 1 \in S
      <3> SUFFICES ASSUME k + 1 <= n PROVE f[k + 1] = len[k + 1] OBVIOUS
      <3>1. k + 1 \in 0 .. n /\ (k + 1) - 1 = k /\ k + 1 # 0 OBVIOUS
      <3>2. f[k + 1] = f[k] + Len(d[k + 1]) BY <2>1, <3>1
      <3>3. len[k + 1] = len[k] + Len(d[k + 1]) BY <1>10, <3>1
      <3> QED BY <2>3, <3>2, <3>3
    <2> HIDE DEF S
    <2>4. \A k \in Nat : k \in S BY <2>2, <2>3, Induct
    <2> QED BY <2>4 DEF S
  <1>15. ASSUME NEW k \in 1 .. n PROVE StartOf(c, k) = Len(h[k - 1])
    <2>1. k - 1 \in Nat /\ k - 1 <= n /\ k - 1 \in 0 .. n OBVIOUS
    <2> QED BY <1>9, <1>13, <1>14, <2>1
  <1> QED BY <1>1, <1>3, <1>7, <1>8, <1>15

\* Where everything is.
LEMMA TextLayout ==
  ASSUME NEW c \in Conns, NEW k \in DOMAIN Script[c], NEW m, m = Script[c][k]
  PROVE  /\ IsRequest(m) /\ StartOf(c, k) \in Nat /\ HeadEnd(c, k) \in Nat
         /\ HeadEnd(c, k) = StartOf(c, k) + Offset(m, 11)
         /\ HeadEnd(c, k) = StartOf(c, k) + Len(DumpHead(m))
         /\ \A j \in 0 .. 10 : PieceAt(Text[c], StartOf(c, k) + Offset(m, j), Piece(m, j))
         /\ PieceAt(Text[c], HeadEnd(c, k), m.body)
  <1>1. PICK n \in Nat : n = Len(Script[c]) /\ k \in 1 .. n BY ScriptType
  <1>2. IsRequest(m) BY <1>1, ScriptType
  <1>3. PICK h, d : /\ Joins(h, d, n) /\ Text[c] = h[n]
                    /\ \A i \in 1 .. n : d[i] = Dump(Script[c][i])
                    /\ \A i \in 1 .. n : StartOf(c, i) = Len(h[i - 1])
    BY <1>1, TextJoins
  <1>4. PICK t, w, a, s, e : /\ t = Text[c] /\ w = Dump(m) /\ a = DumpHead(m) /\ s = StartOf(c, k)
                             /\ e = Len(a)
    OBVIOUS
  <1>5. t \in Seq(Chars) /\ Len(t) \in Nat BY <1>4, TextOf
  <1>6. w \in Seq(Chars) /\ PieceAt(w, 0, a) /\ PieceAt(w, e, m.body) BY <1>2, <1>4, DumpPieces
  <1>7. PieceAt(t, s, w)
    <2>1. HasPiece(h[n], h[k - 1], d[k]) BY <1>1, <1>3, JoinedPieces
    <2>2. h[n] = t /\ d[k] = w /\ s = Len(h[k - 1]) BY <1>1, <1>3, <1>4
    <2>3. h[k - 1] \in Seq(Chars)
      <3>1. k - 1 \in 0 .. n BY <1>1
      <3> QED BY <1>3, <3>1 DEF Joins
    <2>4. s \in Nat BY <2>2, <2>3, LenProperties
    <2> QED BY <1>6, <2>1, <2>2, <2>4 DEF HasPiece, PieceAt
  <1>8. s \in Nat BY <1>7 DEF PieceAt
  <1>9. PieceAt(t, s, a)
    <2>1. PieceAt(t, s + 0, a) BY <1>5, <1>6, <1>7, PieceInPiece
    <2>2. s + 0 = s BY <1>8
    <2> QED BY <2>1, <2>2, Zenon
  <1>10. PieceAt(t, s + e, m.body) BY <1>5, <1>6, <1>7, PieceInPiece
  <1>11. ASSUME NEW j \in 0 .. 10 PROVE PieceAt(t, s + Offset(m, j), Piece(m, j))
    <2>1. PICK o, v : o = Offset(m, j) /\ v = Piece(m, j) OBVIOUS
    <2>2. PieceAt(a, o, v) BY <1>2, <1>4, <2>1, HeadPieces
    <2>3. PieceAt(t, s + o, v) BY <1>5, <1>9, <2>2, PieceInPiece
    <2> QED BY <2>1, <2>3, Zenon
  <1>12. e = Offset(m, 11) /\ e \in Nat BY <1>2, <1>4, HeadPieces, LenProperties
  <1>13. HeadEnd(c, k) = s + e /\ s + e \in Nat BY <1>4, <1>8, <1>12 DEF HeadEnd
  <1> QED BY <1>2, <1>4, <1>8, <1>10, <1>11, <1>12, <1>13, Zenon

-----------------------------------------------------------------------------
\* Classes of characters that do not meet.
WordChar == Alpha \cup Digit \cup {"-"}
PlainChar == RegChar \cup {":", "@", "/"}
Stops == {SP, "?", "#", "CR", "LF"}
\* A character of a name or a word is none that ends one,
LEMMA WordChars ==
  ASSUME NEW x \in WordChar
  PROVE  /\ x \in NameChar /\ x # ":" /\ x # SP /\ x # "HT" /\ x # "NUL" /\ x # "CR" /\ x # "LF"
         /\ x \notin Stops
  BY ZenonT(60) DEF WordChar, Alpha, Lower, Upper, Digit, NameChar, SP, Stops
\* nor is one of a method,
LEMMA UpperChars ==
  ASSUME NEW x \in Upper \cup Digit
  PROVE  x # SP /\ x \notin Stops /\ x # "<" /\ x # "@"
  BY Zenon DEF Upper, Digit, SP, Stops
\* of a path or a query,
LEMMA PlainChars ==
  ASSUME NEW x \in PlainChar
  PROVE  x # SP /\ x # PctSign /\ x # "?" /\ x # "#" /\ x \notin Stops
  BY Zenon DEF PlainChar, RegChar, Unreserved, Alpha, Lower, Upper, Digit, SubDelims, SP, PctSign,
               Stops
\* or of more_delims, which are no characters of a strict path either.
LEMMA MoreChars ==
  ASSUME NEW x \in MoreDelims
  PROVE  /\ x # SP /\ x # PctSign /\ x # "?" /\ x # "#" /\ x # "/" /\ x \notin Stops
         /\ x \notin RegChar /\ x # ":" /\ x # "@"
  <1>1. /\ x # SP /\ x # PctSign /\ x # "?" /\ x # "#" /\ x # "/" /\ x # ":" /\ x # "@"
        /\ x \notin Stops
    BY Zenon DEF MoreDelims, SP, PctSign, Stops
  <1>2. x \notin RegChar
    BY Zenon DEF MoreDelims, RegChar, Unreserved, Alpha, Lower, Upper, Digit, SubDelims
  <1> QED BY <1>1, <1>2
\* A blank and a question mark are no characters of a path.
LEMMA StopChars ==
  ASSUME NEW x \in {SP, "?"}
  PROVE  x \notin RegChar \cup MoreDelims \cup {":", "@", "/"} /\ x # PctSign /\ x # "#"
  BY Zenon DEF RegChar, Unreserved, Alpha, Lower, Upper, Digit, SubDelims, SP, PctSign, MoreDelims
\* The marks differ from one another, and no name holds a colon.
LEMMA MarkChars ==
  /\ SP # "?" /\ SP # ":" /\ SP # "LF" /\ SP # "CR" /\ SP # "NUL" /\ SP # "HT" /\ SP # "/"
  /\ ":" \notin NameChar
  BY Zenon DEF SP, NameChar, Alpha, Lower, Upper, Digit

\* A token of the buffer.
LEMMA TokenIs ==
  ASSUME NEW b \in Seq(Chars), NEW pos, NEW v, PieceAt(b, pos, v), NEW e, e = pos + Len(v)
  PROVE  SubSeq(b, pos + 1, e) = v
  <1>1. PICK n \in Nat : n = Len(v) BY LenProperties DEF PieceAt
  <1>2. pos \in Nat /\ v \in Seq(Chars) /\ pos + n <= Len(b) /\ \A y \in 1 .. n : b[pos + y] = v[y]
    BY <1>1 DEF PieceAt
  <1>3. PICK w : w = SubSeq(b, pos + 1, pos + n) OBVIOUS
  <1>4. w \in Seq(Chars) /\ Len(w) = n /\ \A k \in 1 .. n : w[k] = b[pos + k]
    BY <1>2, <1>3, ReadIsText
  <1>5. \A k \in 1 .. n : w[k] = v[k] BY <1>2, <1>4
  <1>6. w = v BY <1>1, <1>2, <1>4, <1>5, SeqEqual
  <1> QED BY <1>1, <1>3, <1>6, Zenon

-----------------------------------------------------------------------------
\* What the parser knows of the request grows as the pieces are read.
LEMMA RequestSteps ==
  ASSUME NEW m
  PROVE  /\ [RequestAt(m, 0) EXCEPT !.method = m.method] = RequestAt(m, 1)
         /\ m.query = <<>> => [RequestAt(m, 1) EXCEPT !.path = m.path] = RequestAt(m, 3)
         /\ [RequestAt(m, 1) EXCEPT !.path = m.path] = RequestAt(m, 2)
         /\ [RequestAt(m, 2) EXCEPT !.query = m.query] = RequestAt(m, 3)
         /\ [RequestAt(m, 3) EXCEPT !.version = "1.1"] = RequestAt(m, 4)
         /\ RequestAt(m, 5) = RequestAt(m, 4)
         /\ RequestAt(m, 7) = RequestAt(m, 6)
         /\ RequestAt(m, 9) = RequestAt(m, 8)
         /\ RequestAt(m, 10) = RequestAt(m, 8) /\ RequestAt(m, 11) = RequestAt(m, 8)
         /\ RequestAt(m, 11) = Seen(m)
  <1>1. /\ HeadersAt(m, 0) = <<>> /\ HeadersAt(m, 1) = <<>> /\ HeadersAt(m, 2) = <<>>
        /\ HeadersAt(m, 3) = <<>> /\ HeadersAt(m, 4) = <<>> /\ HeadersAt(m, 5) = <<>>
        /\ HeadersAt(m, 6) = HeadersAt(m, 7)
        /\ HeadersAt(m, 8) = Seen(m).headers /\ HeadersAt(m, 9) = Seen(m).headers
        /\ HeadersAt(m, 10) = Seen(m).headers /\ HeadersAt(m, 11) = Seen(m).headers
    BY DEF HeadersAt
  <1>2. RequestAt(m, 11) = Seen(m)
    <2>1. PICK hs : hs = Seen(m).headers OBVIOUS
    <2>2. RequestAt(m, 11) = [method |-> m.method, path |-> m.path, query |-> m.query,
                             fragment |-> <<>>, version |-> "1.1", headers |-> hs]
      BY <1>1, <2>1 DEF RequestAt
    <2>3. Seen(m) = [method |-> m.method, path |-> m.path, query |-> m.query,
                             fragment |-> <<>>, version |-> "1.1", headers |-> Seen(m).headers]
      BY DEF Seen
    <2> QED BY <2>1, <2>2, <2>3
  <1>3. PICK hs : hs = Seen(m).headers OBVIOUS
  <1>4. /\ [RequestAt(m, 0) EXCEPT !.method = m.method] = RequestAt(m, 1)
        /\ m.query = <<>> => [RequestAt(m, 1) EXCEPT !.path = m.path] = RequestAt(m, 3)
        /\ [RequestAt(m, 1) EXCEPT !.path = m.path] = RequestAt(m, 2)
        /\ [RequestAt(m, 2) EXCEPT !.query = m.query] = RequestAt(m, 3)
        /\ [RequestAt(m, 3) EXCEPT !.version = "1.1"] = RequestAt(m, 4)
        /\ RequestAt(m, 5) = RequestAt(m, 4)
    BY <1>1 DEF RequestAt
  <1>5. RequestAt(m, 7) = RequestAt(m, 6) BY <1>1 DEF RequestAt
  <1>6. RequestAt(m, 9) = RequestAt(m, 8) /\ RequestAt(m, 10) = RequestAt(m, 8)
        /\ RequestAt(m, 11) = RequestAt(m, 8)
    BY <1>1, <1>3 DEF RequestAt
  <1> QED BY <1>2, <1>4, <1>5, <1>6

\* So do the headers.
LEMMA HeaderSteps ==
  ASSUME NEW m, Connection # ContentLength
  PROVE  /\ [RequestAt(m, 5) EXCEPT !.headers = SetHeader(RequestAt(m, 5).headers, Connection, CloseWord)]
              = RequestAt(m, 6)
         /\ m.body # <<>> =>
              [RequestAt(m, 7) EXCEPT !.headers = SetHeader(RequestAt(m, 7).headers, ContentLength,
                                                            <<DigitOf(Len(m.body))>>)]
              = RequestAt(m, 8)
         /\ m.body = <<>> => RequestAt(m, 6) = RequestAt(m, 9)
  <1>1. PICK con : con = [h \in {Connection} |-> CloseWord] OBVIOUS
  <1>2. /\ HeadersAt(m, 5) = <<>> /\ HeadersAt(m, 6) = con /\ HeadersAt(m, 7) = con
        /\ HeadersAt(m, 8) = Seen(m).headers /\ HeadersAt(m, 9) = Seen(m).headers
    BY <1>1 DEF HeadersAt
  <1>3. SetHeader(<<>>, Connection, CloseWord) = con
    <2>1. DOMAIN <<>> = {} OBVIOUS
    <2>2. DOMAIN <<>> \cup {Connection} = {Connection} BY <2>1
    <2> QED BY <1>1, <2>2 DEF SetHeader
  <1>4. m.body = <<>> => Seen(m).headers = con BY <1>1 DEF Seen
  <1>5. PICK d : d = <<DigitOf(Len(m.body))>> OBVIOUS
  <1>6. m.body # <<>> => Seen(m).headers = SetHeader(con, ContentLength, d)
    <2> SUFFICES ASSUME m.body # <<>> PROVE Seen(m).headers = SetHeader(con, ContentLength, d)
      OBVIOUS
    <2>1. Seen(m).headers = [h \in {Connection, ContentLength} |-> IF h = Connection THEN CloseWord ELSE d]
      BY <1>5 DEF Seen
    <2>2. SetHeader(con, ContentLength, d) =
            [h \in {Connection, ContentLength} |-> IF h = ContentLength THEN d ELSE con[h]]
      BY <1>1 DEF SetHeader
    <2> QED BY <1>1, <2>1, <2>2
  <1>7. PICK hs, hc : hs = Seen(m).headers /\ hc = SetHeader(con, ContentLength, d) OBVIOUS
  <1>8. /\ RequestAt(m, 5).headers = <<>> /\ RequestAt(m, 7).headers = con
    BY <1>2 DEF RequestAt
  <1>9. [RequestAt(m, 5) EXCEPT !.headers = con] = RequestAt(m, 6) BY <1>2 DEF RequestAt
  <1>10. [RequestAt(m, 7) EXCEPT !.headers = hs] = RequestAt(m, 8) BY <1>2, <1>7 DEF RequestAt
  <1>11. m.body = <<>> => RequestAt(m, 6) = RequestAt(m, 9) BY <1>2, <1>4 DEF RequestAt
  <1> QED BY <1>3, <1>5, <1>6, <1>7, <1>8, <1>9, <1>10, <1>11

-----------------------------------------------------------------------------
\* The first l characters of w stand in the buffer after base bytes.
Reading(b, base, w, l) ==
  /\ b \in Seq(Chars) /\ w \in Seq(Chars) /\ base \in Nat /\ l \in 1 .. Len(w)
  /\ base + l <= Len(b) /\ \A y \in 1 .. l : b[base + y] = w[y]

\* A part of what has been read is in the buffer.
LEMMA ReadPart ==
  ASSUME NEW b, NEW base, NEW w, NEW l, Reading(b, base, w, l),
         NEW off \in Nat, NEW v \in Seq(Chars), NEW n \in Nat, n = Len(v), off + n <= l,
         \A y \in 1 .. n : w[off + y] = v[y]
  PROVE  PieceAt(b, base + off, v)
  <1>1. PICK lb, lw \in Nat : lb = Len(b) /\ lw = Len(w) BY LenProperties DEF Reading
  <1>2. base \in Nat /\ l \in 1 .. lw /\ base + l <= lb /\ \A y \in 1 .. l : b[base + y] = w[y]
    BY <1>1 DEF Reading
  <1>3. base + off \in Nat /\ (base + off) + n <= lb BY <1>2
  <1>4. ASSUME NEW y \in 1 .. n PROVE b[(base + off) + y] = v[y]
    <2>1. off + y \in 1 .. l /\ base + (off + y) = (base + off) + y BY <1>2
    <2>2. b[base + (off + y)] = w[off + y] BY <1>2, <2>1
    <2> QED BY <2>1, <2>2
  <1> QED BY <1>1, <1>3, <1>4, Zenon DEF PieceAt

\* A word at the beginning of a piece.
LEMMA ReadWord ==
  ASSUME NEW b, NEW base, NEW w, NEW l, Reading(b, base, w, l),
         NEW v \in Seq(Chars), NEW n \in Nat, n = Len(v), l = n + 1, \A y \in 1 .. n : w[y] = v[y]
  PROVE  SubSeq(b, base + 1, (base + l) - 1) = v
  <1>1. base \in Nat BY DEF Reading
  <1>2. \A y \in 1 .. n : w[0 + y] = v[y]
    <2> TAKE y \in 1 .. n
    <2>1. 0 + y = y OBVIOUS
    <2> QED BY <2>1
  <1>3. 0 \in Nat /\ 0 + n <= l /\ base + 0 = base /\ (base + l) - 1 = base + n BY <1>1
  <1>4. PieceAt(b, base + 0, v) BY <1>2, <1>3, ReadPart
  <1>5. PieceAt(b, base, v) BY <1>3, <1>4, Zenon
  <1>6. b \in Seq(Chars) BY DEF Reading
  <1>7. (base + l) - 1 = base + Len(v) BY <1>3
  <1> QED BY <1>5, <1>6, <1>7, TokenIs

\* A text is its own prefix.
LEMMA OwnPrefix ==
  ASSUME NEW s \in Seq(Chars)
  PROVE  HasPrefix(s, s)
  <1>1. PICK n \in Nat : n = Len(s) BY LenProperties
  <1>2. 0 + n <= n /\ 0 \in Nat /\ 0 + 1 = 1 /\ n = 0 + n OBVIOUS
  <1>3. \A y \in 1 .. n : s[0 + y] = s[y] OBVIOUS
  <1>4. PieceAt(s, 0, s) BY <1>1, <1>2, <1>3, Zenon DEF PieceAt
  <1>5. SubSeq(s, 0 + 1, n) = s BY <1>1, <1>2, <1>4, TokenIs
  <1> QED BY <1>1, <1>2, <1>5 DEF HasPrefix

\* A word that ends with one more character.
LEMMA WordAndMark ==
  ASSUME NEW s \in Seq(Chars), NEW x \in Chars, NEW w, w = s \o <<x>>
  PROVE  /\ w \in Seq(Chars) /\ Len(w) = Len(s) + 1 /\ Len(s) \in Nat
         /\ \A y \in 1 .. Len(s) : w[y] = s[y]
         /\ w[Len(s) + 1] = x
  BY Single, LenProperties

\* After the l-th byte of piece j.
Goes(q, m, j, l, base) ==
  \/ Refused(q, m)
  \/ l < Len(Piece(m, j)) /\ Follow(q, m, j, l, base)
  \/ l = Len(Piece(m, j)) /\ Follow(q, m, Follows(m, j), 0, base + l)

\* A byte of the method, or the blank after it: on_request_method gets the method.
LEMMA MethodStep ==
  ASSUME NEW m, IsRequest(m), Plain(m), NEW p, ParserShape(p), NEW b, NEW base, NEW l,
         Reading(b, base, Piece(m, 0), l), Follow(p, m, 0, l - 1, base)
  PROVE  Goes(ParserStep(p, b, base + l), m, 0, l, base)
  <1>1. PICK w, s : w = Piece(m, 0) /\ s = m.method OBVIOUS
  <1>2. w = s \o <<SP>> BY <1>1 DEF Piece
  <1>3. s \in Seq(Chars) BY <1>1 DEF IsRequest
  <1>4. PICK n \in Nat : n = Len(s) BY <1>3, LenProperties
  <1>5. Len(w) = n + 1 /\ (\A y \in 1 .. n : w[y] = s[y]) /\ w[n + 1] = SP
    BY <1>2, <1>3, <1>4, WordAndMark, Marks11
  <1>6. n \in 1 .. 20 /\ DOMAIN s = 1 .. n /\ \A y \in 1 .. n : s[y] \in Upper \cup Digit
    BY <1>1, <1>3, <1>4, LenProperties DEF Plain
  <1>7. /\ base \in Nat /\ l \in 1 .. n + 1
        /\ \A y \in 1 .. l : b[base + y] = w[y]
    BY <1>1, <1>5 DEF Reading
  <1>8. PICK i, c : i = base + l /\ c = b[i] OBVIOUS
  <1>9. c = w[l] BY <1>7, <1>8
  <1>10. /\ p.error = 0 /\ p.json = FALSE /\ p.req = RequestAt(m, 0)
         /\ InMethod(p, l - 1, base)
    BY DEF Follow, InPiece
  <1>11. DOMAIN p = ParserFields /\ DOMAIN p.req = RequestFields BY DEF ParserShape
  <1>12. PICK q : q = ParserStep(p, b, i) OBVIOUS
  <1>13. CASE l <= n
    <2>1. c \in Upper \cup Digit /\ c # SP
      <3>1. l \in 1 .. n BY <1>7, <1>13
      <3>2. c = s[l] BY <1>5, <1>9, <3>1
      <3> QED BY <1>6, <3>1, <3>2, UpperChars
    <2>2. /\ q.error = 0 /\ q.json = FALSE /\ q.req = p.req /\ q.cs = "method"
          /\ q.mark = base + 1 /\ q.n = l
      <3>1. CASE l = 1
        <4>1. p.cs = "start" BY <1>10, <3>1 DEF InMethod
        <4>2. q = FirstByte(p, i, c) BY <1>8, <1>12, <4>1 DEF ParserStep
        <4>3. q = [p EXCEPT !.cs = "method", !.mark = i, !.n = 1]
          BY <2>1, <4>2, UpperChars DEF FirstByte
        <4> QED BY <1>8, <1>10, <1>11, <3>1, <4>3 DEF ParserFields
      <3>2. CASE l # 1
        <4>1. p.cs = "method" /\ p.mark = base + 1 /\ p.n = l - 1 BY <1>7, <1>10, <3>2 DEF InMethod
        <4>2. q = Method(p, b, i, c) BY <1>8, <1>12, <4>1 DEF ParserStep
        <4>3. p.n < 20 BY <1>6, <1>7, <1>13, <4>1
        <4>4. q = [p EXCEPT !.n = @ + 1] BY <2>1, <4>2, <4>3 DEF Method
        <4> QED BY <1>7, <1>10, <1>11, <4>1, <4>4 DEF ParserFields
      <3> QED BY <3>1, <3>2
    <2>3. Follow(q, m, 0, l, base) BY <1>7, <1>10, <2>2 DEF Follow, InPiece, InMethod
    <2>4. l < Len(Piece(m, 0)) BY <1>1, <1>5, <1>7, <1>13
    <2> QED BY <1>8, <1>12, <2>3, <2>4 DEF Goes
  <1>14. CASE ~(l <= n)
    <2>1. l = n + 1 /\ c = SP BY <1>5, <1>7, <1>9, <1>14
    <2>2. p.cs = "method" /\ p.mark = base + 1 BY <1>6, <1>10, <2>1 DEF InMethod
    <2>3. q = Method(p, b, i, c) BY <1>8, <1>12, <2>2 DEF ParserStep
    <2>4. c \notin Upper \cup Digit BY <2>1, UpperChars
    <2>5. q = To(OnMethod(p, b, i), "target") BY <2>1, <2>3, <2>4 DEF Method
    <2>6. Token(p, b, i) = s
      <3>1. SubSeq(b, base + 1, (base + l) - 1) = s BY <1>1, <1>3, <1>4, <1>5, <2>1, ReadWord
      <3> QED BY <1>8, <2>2, <3>1, Zenon DEF Token
    <2>7. PICK known : known = {v \in Methods : HasPrefix(s, v)} OBVIOUS
    <2>8. known # {} /\ (CHOOSE v \in known : TRUE) = s
      <3>1. s \in known BY <1>1, <1>3, <2>7, OwnPrefix DEF Plain
      <3>2. \A v \in known : v = s BY <1>1, <2>7 DEF Plain
      <3> QED BY <3>1, <3>2
    <2>9. OnMethod(p, b, i) = [p EXCEPT !.req.method = s]
      BY <2>6, <2>7, <2>8, ZenonT(60) DEF OnMethod
    <2>10. /\ q.error = 0 /\ q.json = FALSE /\ q.cs = "target"
           /\ q.req = [p.req EXCEPT !.method = m.method]
      BY <1>1, <1>10, <1>11, <2>5, <2>9 DEF To, ParserFields
    <2>11. q.req = RequestAt(m, 1) BY <1>10, <2>10, RequestSteps
    <2>12. Follow(q, m, 1, 0, base + l) BY <2>10, <2>11 DEF Follow, InPiece, InPath
    <2>13. Follows(m, 0) = 1 BY DEF Follows
    <2>14. l = Len(Piece(m, 0)) BY <1>1, <1>5, <2>1
    <2> QED BY <1>8, <1>12, <2>12, <2>13, <2>14 DEF Goes
  <1> QED BY <1>13, <1>14

\* The characters of a path, as a parser takes them.
LEMMA PathChars ==
  ASSUME NEW p
  PROVE  /\ PlainChar \subseteq PathChar(p) \cup {"/"}
         /\ \A x \in MoreDelims : p.relaxed => x \in PathChar(p)
         /\ \A x \in MoreDelims : ~p.relaxed => x \notin PathChar(p) \cup {"/"}
         /\ \A x \in {SP, "?"} : x \notin PathChar(p) \cup {"/"}
  <1>1. PlainChar \subseteq PathChar(p) \cup {"/"} BY DEF PlainChar, PathChar, Delim
  <1>2. \A x \in MoreDelims : p.relaxed => x \in PathChar(p) BY Zenon DEF PathChar, Delim
  <1>3. \A x \in MoreDelims : ~p.relaxed => x \notin PathChar(p) \cup {"/"}
    <2> SUFFICES ASSUME NEW x \in MoreDelims, ~p.relaxed PROVE x \notin PathChar(p) \cup {"/"}
      OBVIOUS
    <2>1. PathChar(p) = RegChar \cup {} \cup {":", "@"} BY Zenon DEF PathChar, Delim
    <2>2. x \notin RegChar /\ x # ":" /\ x # "@" /\ x # "/" BY MoreChars
    <2> QED BY <2>1, <2>2
  <1>4. \A x \in {SP, "?"} : x \notin PathChar(p) \cup {"/"}
    <2> SUFFICES ASSUME NEW x \in {SP, "?"} PROVE x \notin PathChar(p) \cup {"/"}
      OBVIOUS
    <2>1. PathChar(p) \subseteq RegChar \cup MoreDelims \cup {":", "@"} BY DEF PathChar, Delim
    <2>2. x \notin RegChar \cup MoreDelims \cup {":", "@", "/"} BY StopChars
    <2> QED BY <2>1, <2>2
  <1> QED BY <1>1, <1>2, <1>3, <1>4

\* A path does not begin like a scheme.
LEMMA SlashChar == "/" \notin Alpha
  BY Zenon DEF Alpha, Lower, Upper

\* A byte of the path, or the mark after it: on_request_path gets the path, unless the
\* parser refuses a character of more_delims.
LEMMA PathStep ==
  ASSUME NEW m, IsRequest(m), Plain(m), NEW p, ParserShape(p), NEW b, NEW base, NEW l,
         Reading(b, base, Piece(m, 1), l), Follow(p, m, 1, l - 1, base)
  PROVE  Goes(ParserStep(p, b, base + l), m, 1, l, base)
  <1>1. PICK w, s : w = Piece(m, 1) /\ s = m.path OBVIOUS
  <1>2. PICK x : x = IF m.query = <<>> THEN SP ELSE "?" OBVIOUS
  <1>a. x \in Chars /\ x \in {SP, "?"} BY <1>2, Marks11
  <1>b. w = s \o <<x>> BY <1>1, <1>2 DEF Piece
  <1>3. s \in Seq(Chars) BY <1>1 DEF IsRequest
  <1>4. PICK n \in Nat : n = Len(s) BY <1>3, LenProperties
  <1>5. Len(w) = n + 1 /\ (\A y \in 1 .. n : w[y] = s[y]) /\ w[n + 1] = x
    BY <1>a, <1>b, <1>3, <1>4, WordAndMark
  <1>6. /\ n >= 1 /\ DOMAIN s = 1 .. n /\ s[1] = "/"
        /\ (n > 1 => s[2] # "/")
        /\ \A y \in 1 .. n : s[y] \in PlainChar \cup MoreDelims
    <2>1. DOMAIN s = 1 .. n /\ (n = 0 => s = <<>>) BY <1>3, <1>4, LenProperties, EmptySeq
    <2> QED BY <1>1, <1>4, <2>1 DEF Plain, PlainChar
  <1>7. /\ base \in Nat /\ l \in 1 .. n + 1
        /\ \A y \in 1 .. l : b[base + y] = w[y]
    BY <1>1, <1>5 DEF Reading
  <1>8. PICK i, c : i = base + l /\ c = b[i] OBVIOUS
  <1>9. c = w[l] BY <1>7, <1>8
  <1>10. /\ p.error = 0 /\ p.json = FALSE /\ p.req = RequestAt(m, 1)
         /\ InPath(p, l - 1, base)
    BY DEF Follow, InPiece
  <1>11. DOMAIN p = ParserFields /\ DOMAIN p.req = RequestFields BY DEF ParserShape
  <1>12. PICK q : q = ParserStep(p, b, i) OBVIOUS
  <1>13. CASE l = 1
    <2>1. c = "/" /\ p.cs = "target" BY <1>5, <1>6, <1>9, <1>10, <1>13 DEF InPath
    <2>2. q = Target(p, b, i, c) BY <1>8, <1>10, <1>12, <2>1 DEF ParserStep
    <2>3. q = To(At(p, i), "slash") BY <2>1, <2>2, SlashChar DEF Target
    <2>4. /\ q.error = 0 /\ q.json = FALSE /\ q.req = p.req /\ q.cs = "slash" /\ q.mark = base + 1
      BY <1>8, <1>10, <1>11, <1>13, <2>3 DEF To, At, ParserFields
    <2>5. Follow(q, m, 1, l, base) BY <1>10, <1>13, <2>4 DEF Follow, InPiece, InPath
    <2>6. l < Len(Piece(m, 1)) BY <1>1, <1>5, <1>6, <1>13
    <2> QED BY <1>8, <1>12, <2>5, <2>6 DEF Goes
  <1>14. l # 1 => /\ p.cs \in {"slash", "path"} /\ p.mark = base + 1
                  /\ (p.cs = "slash" => l = 2)
    BY <1>7, <1>10 DEF InPath
  <1>15. l # 1 /\ ~(p.cs = "slash" /\ c = "/") => q = TargetPath(p, b, i, c)
    <2> SUFFICES ASSUME l # 1, ~(p.cs = "slash" /\ c = "/") PROVE q = TargetPath(p, b, i, c)
      OBVIOUS
    <2>1. CASE p.cs = "slash"
      <3>1. q = TargetSlash(p, b, i, c) BY <1>8, <1>12, <2>1 DEF ParserStep
      <3>2. c # "/" BY <2>1
      <3> QED BY <3>1, <3>2 DEF TargetSlash
    <2>2. CASE p.cs = "path" BY <1>8, <1>12, <2>2 DEF ParserStep
    <2> QED BY <1>14, <2>1, <2>2
  <1>16. CASE l # 1 /\ l <= n
    <2>1. l \in 1 .. n /\ c = s[l] BY <1>5, <1>7, <1>9, <1>16
    <2>2. ~(p.cs = "slash" /\ c = "/") BY <1>6, <1>14, <1>16, <2>1
    <2>3. q = TargetPath(p, b, i, c) BY <1>15, <1>16, <2>2
    <2>4. c \in PlainChar \cup MoreDelims BY <1>6, <2>1
    <2>5. c # PctSign BY <2>4, PlainChars, MoreChars
    <2>6. CASE c \in PathChar(p) \cup {"/"}
      <3>1. q = To(p, "path") BY <2>3, <2>5, <2>6 DEF TargetPath
      <3>2. /\ q.error = 0 /\ q.json = FALSE /\ q.req = p.req /\ q.cs = "path" /\ q.mark = base + 1
        BY <1>10, <1>11, <1>14, <1>16, <3>1 DEF To, ParserFields
      <3>3. Follow(q, m, 1, l, base) BY <1>7, <1>10, <1>16, <3>2 DEF Follow, InPiece, InPath
      <3>4. l < Len(Piece(m, 1)) BY <1>1, <1>5, <1>7, <1>16
      <3> QED BY <1>8, <1>12, <3>3, <3>4 DEF Goes
    <2>7. CASE c \notin PathChar(p) \cup {"/"}
      <3>1. c \in MoreDelims BY <2>4, <2>7, PathChars
      <3>2. ~p.relaxed BY <2>7, <3>1, PathChars
      <3>3. c # SP /\ c # "?" /\ c # "#" BY <3>1, MoreChars
      <3>4. q = TargetEnd(p, b, i, c) BY <2>3, <2>5, <2>7 DEF TargetPath
      <3>5. q = Err(p) BY <3>3, <3>4 DEF TargetEnd
      <3>6. q.cs = "error" /\ q.error = 0 /\ q.relaxed = p.relaxed
        BY <1>10, <1>11, <3>5 DEF Err, To, ParserFields
      <3>7. l \in DOMAIN m.path /\ m.path[l] \in MoreDelims BY <1>1, <1>6, <2>1, <3>1
      <3>8. ~q.relaxed BY <3>2, <3>6, Zenon
      <3>9. Refused(q, m) BY <3>6, <3>7, <3>8, Zenon DEF Refused, HasMoreDelims
      <3> QED BY <1>8, <1>12, <3>9 DEF Goes
    <2> QED BY <2>6, <2>7
  <1>17. CASE l # 1 /\ ~(l <= n)
    <2>1. l = n + 1 /\ c = x BY <1>5, <1>7, <1>9, <1>17
    <2>2. c \in {SP, "?"} /\ c \notin PathChar(p) \cup {"/"} /\ c # PctSign /\ c # "#" /\ c # "/"
      BY <1>a, <2>1, PathChars, StopChars
    <2>3. q = TargetPath(p, b, i, c) BY <1>15, <1>17, <2>2
    <2>4. q = TargetEnd(p, b, i, c) BY <2>2, <2>3 DEF TargetPath
    <2>5. Token(p, b, i) = s
      <3>1. SubSeq(b, base + 1, (base + l) - 1) = s BY <1>1, <1>3, <1>4, <1>5, <2>1, ReadWord
      <3> QED BY <1>8, <1>14, <1>17, <3>1, Zenon DEF Token
    <2>6. OnPath(p, b, i) = [p EXCEPT !.req.path = s] BY <2>5, Zenon DEF OnPath
    <2>7. l = Len(Piece(m, 1)) BY <1>1, <1>5, <2>1
    <2>8. CASE m.query = <<>>
      <3>1. c = SP BY <1>2, <2>1, <2>8
      <3>2. q = [OnPath(p, b, i) EXCEPT !.cs = "version", !.n = 0]
        BY <1>10, <2>4, <3>1, MarkChars, StopChars DEF TargetEnd
      <3>3. /\ q.error = 0 /\ q.json = FALSE /\ q.cs = "version" /\ q.n = 0
            /\ q.req = [p.req EXCEPT !.path = m.path]
        BY <1>1, <1>10, <1>11, <2>6, <3>2 DEF ParserFields
      <3>4. q.req = RequestAt(m, 3) BY <1>10, <2>8, <3>3, RequestSteps
      <3>5. Follow(q, m, 3, 0, base + l) BY <3>3, <3>4 DEF Follow, InPiece, InVersion
      <3>6. Follows(m, 1) = 3 BY <2>8 DEF Follows
      <3> QED BY <1>8, <1>12, <2>7, <3>5, <3>6 DEF Goes
    <2>9. CASE m.query # <<>>
      <3>1. c = "?" BY <1>2, <2>1, <2>9
      <3>2. q = To(OnPath(p, b, i), "query0")
        BY <1>10, <2>4, <3>1, MarkChars DEF TargetEnd
      <3>3. /\ q.error = 0 /\ q.json = FALSE /\ q.cs = "query0"
            /\ q.req = [p.req EXCEPT !.path = m.path]
        BY <1>1, <1>10, <1>11, <2>6, <3>2 DEF To, ParserFields
      <3>4. q.req = RequestAt(m, 2) BY <1>10, <3>3, RequestSteps
      <3>5. Follow(q, m, 2, 0, base + l) BY <3>3, <3>4 DEF Follow, InPiece, InQuery
      <3>6. Follows(m, 1) = 2 BY <2>9 DEF Follows
      <3> QED BY <1>8, <1>12, <2>7, <3>5, <3>6 DEF Goes
    <2> QED BY <2>8, <2>9
  <1> QED BY <1>13, <1>16, <1>17

\* A byte of the query, or the blank after it: on_request_query gets the query.
LEMMA QueryStep ==
  ASSUME NEW m, IsRequest(m), Plain(m), m.query # <<>>, NEW p, ParserShape(p), NEW b, NEW base, NEW l,
         Reading(b, base, Piece(m, 2), l), Follow(p, m, 2, l - 1, base)
  PROVE  Goes(ParserStep(p, b, base + l), m, 2, l, base)
  <1>1. PICK w, s : w = Piece(m, 2) /\ s = m.query OBVIOUS
  <1>2. w = s \o <<SP>> BY <1>1 DEF Piece
  <1>3. s \in Seq(Chars) BY <1>1 DEF IsRequest
  <1>4. PICK n \in Nat : n = Len(s) BY <1>3, LenProperties
  <1>5. Len(w) = n + 1 /\ (\A y \in 1 .. n : w[y] = s[y]) /\ w[n + 1] = SP
    BY <1>2, <1>3, <1>4, WordAndMark, Marks11
  <1>6. n >= 1 /\ \A y \in 1 .. n : s[y] \in PlainChar
    <2>1. DOMAIN s = 1 .. n /\ (n = 0 => s = <<>>) BY <1>3, <1>4, LenProperties, EmptySeq
    <2> QED BY <1>1, <1>4, <2>1 DEF Plain, PlainChar
  <1>7. /\ base \in Nat /\ l \in 1 .. n + 1
        /\ \A y \in 1 .. l : b[base + y] = w[y]
    BY <1>1, <1>5 DEF Reading
  <1>8. PICK i, c : i = base + l /\ c = b[i] OBVIOUS
  <1>9. c = w[l] BY <1>7, <1>8
  <1>10. /\ p.error = 0 /\ p.json = FALSE /\ p.req = RequestAt(m, 2)
         /\ InQuery(p, l - 1, base)
    BY DEF Follow, InPiece
  <1>11. DOMAIN p = ParserFields /\ DOMAIN p.req = RequestFields BY DEF ParserShape
  <1>12. PICK q : q = ParserStep(p, b, i) OBVIOUS
  <1>13. p.cs \in {"query0", "query"} BY <1>10 DEF InQuery
  <1>14. q = Query(p, b, i, c) BY <1>8, <1>12, <1>13 DEF ParserStep
  <1>15. PICK u : u = IF p.cs = "query0" THEN [p EXCEPT !.queryStart = i] ELSE p OBVIOUS
  <1>16. /\ DOMAIN u = ParserFields /\ DOMAIN u.req = RequestFields
         /\ u.error = 0 /\ u.json = FALSE /\ u.req = p.req /\ u.queryStart = base + 1
    BY <1>7, <1>8, <1>10, <1>11, <1>15 DEF InQuery, ParserFields
  <1>17. CASE l <= n
    <2>1. c \in PlainChar
      <3>1. l \in 1 .. n BY <1>7, <1>17
      <3> QED BY <1>5, <1>6, <1>9, <3>1
    <2>2. c \in PathChar(p) \cup {"/", "?"} /\ c # SP /\ c # "#" /\ c # PctSign
      BY <2>1, PlainChars, PathChars
    <2>3. q = To(u, "query") BY <1>14, <1>15, <2>2 DEF Query
    <2>4. /\ q.error = 0 /\ q.json = FALSE /\ q.req = p.req /\ q.cs = "query"
          /\ q.queryStart = base + 1
      BY <1>16, <2>3 DEF To, ParserFields
    <2>5. Follow(q, m, 2, l, base) BY <1>7, <1>10, <2>4 DEF Follow, InPiece, InQuery
    <2>6. l < Len(Piece(m, 2)) BY <1>1, <1>5, <1>7, <1>17
    <2> QED BY <1>8, <1>12, <2>5, <2>6 DEF Goes
  <1>18. CASE ~(l <= n)
    <2>1. l = n + 1 /\ c = SP BY <1>5, <1>7, <1>9, <1>18
    <2>2. c \notin PathChar(p) \cup {"/", "?"} /\ c # "#" /\ c # PctSign
      BY <2>1, PathChars, StopChars, MarkChars
    <2>3. q = [OnQuery(u, b, i) EXCEPT !.cs = "version", !.n = 0]
      BY <1>14, <1>15, <2>1, <2>2 DEF Query
    <2>4. SubSeq(b, u.queryStart, i - 1) = s
      <3>1. SubSeq(b, base + 1, (base + l) - 1) = s BY <1>1, <1>3, <1>4, <1>5, <2>1, ReadWord, SMTT(60)
      <3> QED BY <1>8, <1>16, <3>1, Zenon
    <2>5. ~(u.queryStart > i) BY <1>7, <1>8, <1>16
    <2>6. OnQuery(u, b, i) = [u EXCEPT !.req.query = s] BY <2>4, <2>5, Zenon DEF OnQuery
    <2>7. /\ q.error = 0 /\ q.json = FALSE /\ q.cs = "version" /\ q.n = 0
          /\ q.req = [p.req EXCEPT !.query = m.query]
      BY <1>1, <1>16, <2>3, <2>6 DEF ParserFields
    <2>8. q.req = RequestAt(m, 3) BY <1>10, <2>7, RequestSteps
    <2>9. Follow(q, m, 3, 0, base + l) BY <2>7, <2>8 DEF Follow, InPiece, InVersion
    <2>10. Follows(m, 2) = 3 BY DEF Follows
    <2>11. l = Len(Piece(m, 2)) BY <1>1, <1>5, <2>1
    <2> QED BY <1>8, <1>12, <2>9, <2>10, <2>11 DEF Goes
  <1> QED BY <1>17, <1>18

\* A byte of the version, or the CR after it: on_request_version gets the version.
LEMMA VersionStep ==
  ASSUME NEW m, IsRequest(m), NEW p, ParserShape(p), NEW b, NEW base, NEW l,
         Reading(b, base, Piece(m, 3), l), Follow(p, m, 3, l - 1, base)
  PROVE  Goes(ParserStep(p, b, base + l), m, 3, l, base)
  <1>1. PICK w, s : w = Piece(m, 3) /\ s = Http11 OBVIOUS
  <1>2. w = s \o <<"CR">> BY <1>1 DEF Piece
  <1>3. s \in Seq(Chars) /\ Len(s) = 8 BY <1>1, WordTypes
  <1>b. s \in Seq(Chars) /\ "CR" \in Chars BY <1>3, Marks11
  <1>4. PICK n \in Nat : n = Len(s) BY <1>b, LenProperties
  <1>a. Len(w) = n + 1 /\ (\A y \in 1 .. n : w[y] = s[y]) /\ w[n + 1] = "CR"
    BY <1>2, <1>b, <1>4, WordAndMark
  <1>c. n = 8 BY <1>3, <1>4
  <1>5. Len(w) = 9 /\ (\A y \in 1 .. 8 : w[y] = s[y]) /\ w[9] = "CR" BY <1>a, <1>c
  <1>7. /\ base \in Nat /\ l \in 1 .. 9
        /\ \A y \in 1 .. l : b[base + y] = w[y]
    BY <1>1, <1>5 DEF Reading
  <1>8. PICK i, c : i = base + l /\ c = b[i] OBVIOUS
  <1>9. c = w[l] BY <1>7, <1>8
  <1>10. /\ p.error = 0 /\ p.json = FALSE /\ p.req = RequestAt(m, 3)
         /\ InVersion(p, l - 1, base)
    BY DEF Follow, InPiece
  <1>11. DOMAIN p = ParserFields /\ DOMAIN p.req = RequestFields BY DEF ParserShape
  <1>12. PICK q : q = ParserStep(p, b, i) OBVIOUS
  <1>13. p.cs = "version" /\ p.n = l - 1 /\ (l > 1 => p.mark = base + 1)
    BY <1>7, <1>10 DEF InVersion
  <1>14. q = Version(p, b, i, c) BY <1>8, <1>12, <1>13 DEF ParserStep
  <1>15. PICK u : u = IF p.n = 0 THEN At(p, i) ELSE p OBVIOUS
  <1>16. /\ DOMAIN u = ParserFields /\ u.error = 0 /\ u.json = FALSE /\ u.req = p.req
         /\ u.mark = base + 1 /\ u.n = l - 1 /\ u.cs = "version"
    BY <1>7, <1>8, <1>10, <1>11, <1>13, <1>15 DEF At, ParserFields
  <1>17. CASE l <= 8
    <2>1. p.n < 8 /\ p.n + 1 = l /\ c = Http11[l] BY <1>1, <1>5, <1>7, <1>9, <1>13, <1>17
    <2>2. q = [u EXCEPT !.n = @ + 1]
      <3>1. p.n < 8 /\ c \in {Http11[p.n + 1], Http10[p.n + 1]} /\ p.n # 8 BY <2>1
      <3> QED BY <1>14, <1>15, <3>1 DEF Version
    <2>3. /\ q.error = 0 /\ q.json = FALSE /\ q.req = p.req /\ q.cs = "version"
          /\ q.mark = base + 1 /\ q.n = l
      BY <1>7, <1>16, <2>2 DEF ParserFields
    <2>4. Follow(q, m, 3, l, base) BY <1>7, <1>10, <2>3 DEF Follow, InPiece, InVersion
    <2>5. l < Len(Piece(m, 3)) BY <1>1, <1>5, <1>7, <1>17, SMTT(60)
    <2> QED BY <1>8, <1>12, <2>4, <2>5 DEF Goes
  <1>18. CASE ~(l <= 8)
    <2>1. l = 9 /\ c = "CR" BY <1>5, <1>7, <1>9, <1>18
    <2>2. p.n = 8 /\ ~(p.n < 8) BY <1>13, <2>1
    <2>3. q = To(OnVersion(p, b, i), "lf") BY <1>14, <2>1, <2>2 DEF Version
    <2>4. Token(p, b, i) = s
      <3>1. SubSeq(b, base + 1, (base + l) - 1) = s 
        <4>1. l = n + 1 BY <1>c, <2>1
        <4>2. Reading(b, base, w, l) BY <1>1
        <4> QED BY <1>b, <1>4, <1>a, <4>1, <4>2, ReadWord
      <3>2. p.mark = base + 1 BY <1>13, <2>1
      <3> QED BY <1>8, <3>1, <3>2, Zenon DEF Token
    <2>5. HasPrefix(Http11, Token(p, b, i)) BY <1>1, <1>3, <2>4, OwnPrefix
    <2>6. OnVersion(p, b, i) = [p EXCEPT !.req.version = "1.1"] BY <2>5 DEF OnVersion
    <2>7. /\ q.error = 0 /\ q.json = FALSE /\ q.cs = "lf"
          /\ q.req = [p.req EXCEPT !.version = "1.1"]
      BY <1>10, <1>11, <2>3, <2>6 DEF To, ParserFields
    <2>8. q.req = RequestAt(m, 4) BY <1>10, <2>7, RequestSteps
    <2>9. Follow(q, m, 4, 0, base + l) BY <2>7, <2>8 DEF Follow, InPiece
    <2>10. Follows(m, 3) = 4 BY DEF Follows
    <2>11. l = Len(Piece(m, 3)) BY <1>1, <1>5, <2>1
    <2> QED BY <1>8, <1>12, <2>9, <2>10, <2>11 DEF Goes
  <1> QED BY <1>17, <1>18

\* A header line.
LEMMA HeaderStep ==
  ASSUME NEW name \in Seq(Chars), NEW val \in Seq(Chars), NEW n \in Nat, NEW v \in Nat,
         n = Len(name), v = Len(val), n > 0, v > 0,
         \A y \in 1 .. n : name[y] \in WordChar, \A y \in 1 .. v : val[y] \in WordChar,
         NEW p, ParserShape(p), NEW b, NEW base, NEW l,
         Reading(b, base, HeaderPiece(name, val), l), InHeader(p, n, l - 1, base),
         NEW q, q = ParserStep(p, b, base + l)
  PROVE  /\ q.error = p.error /\ q.json = p.json /\ Len(HeaderPiece(name, val)) = n + v + 3
         /\ l < n + v + 3 => InHeader(q, n, l, base) /\ q.req = p.req
         /\ l = n + v + 3 =>
              /\ q.cs = "lf"
              /\ q.req = [p.req EXCEPT !.headers = SetHeader(p.req.headers, name, val)]
  <1>1. PICK w : w = HeaderPiece(name, val) OBVIOUS
  <1>2. /\ w \in Seq(Chars) /\ Len(w) = n + v + 3
        /\ \A y \in 1 .. n : w[y] = name[y]
        /\ w[n + 1] = ":" /\ w[n + 2] = SP
        /\ \A y \in 1 .. v : w[n + 2 + y] = val[y]
        /\ w[n + v + 3] = "CR"
    <2>1. /\ HeaderPiece(name, val) \in Seq(Chars)
          /\ Len(HeaderPiece(name, val)) = Len(name) + Len(val) + 3
          /\ \A i \in 1 .. Len(name) : HeaderPiece(name, val)[i] = name[i]
          /\ HeaderPiece(name, val)[Len(name) + 1] = ":"
          /\ HeaderPiece(name, val)[Len(name) + 2] = SP
          /\ \A i \in 1 .. Len(val) : HeaderPiece(name, val)[Len(name) + 2 + i] = val[i]
          /\ HeaderPiece(name, val)[Len(name) + Len(val) + 3] = "CR"
      BY HeaderPieceIs
    <2>2. /\ w \in Seq(Chars) /\ Len(w) = Len(name) + Len(val) + 3
          /\ \A i \in 1 .. Len(name) : w[i] = name[i]
          /\ w[Len(name) + 1] = ":" /\ w[Len(name) + 2] = SP
          /\ \A i \in 1 .. Len(val) : w[Len(name) + 2 + i] = val[i]
          /\ w[Len(name) + Len(val) + 3] = "CR"
      BY <1>1, <2>1, Zenon
    <2> QED BY <2>2
  <1>3. base \in Nat /\ l \in 1 .. n + v + 3 /\ \A y \in 1 .. l : b[base + y] = w[y]
    BY <1>1, <1>2 DEF Reading
  <1>l. l \in Nat /\ l >= 1 /\ l <= n + v + 3 BY <1>3
  <1>4. PICK i, c : i = base + l /\ c = b[i] /\ c = w[l] BY <1>3
  <1>5. DOMAIN p = ParserFields /\ DOMAIN p.req = RequestFields BY DEF ParserShape
  <1>6. /\ l = 1 => p.cs = "header"
        /\ l \in 2 .. n + 1 => p.cs = "name"
        /\ l \in {n + 2, n + 3} => p.cs = "value0"
        /\ l > n + 3 => p.cs = "value" /\ p.mark = base + n + 3
        /\ l > 1 => p.fieldStart = base + 1
        /\ l > n + 1 => p.fieldLen = n
    BY <1>3, SMTT(60) DEF InHeader
  <1>7. q = ParserStep(p, b, i) BY <1>4
  <1>8. CASE l = 1
    <2>1. c \in WordChar
      <3>1. 1 \in 1 .. n OBVIOUS
      <3> QED BY <1>2, <1>4, <1>8, <3>1
    <2>2. c # "LF" /\ c # "CR" /\ c \in NameChar BY <2>1, WordChars
    <2>3. q = HeaderLine(p, i, c) BY <1>4, <1>6, <1>7, <1>8 DEF ParserStep
    <2>4. q = To([p EXCEPT !.fieldStart = i], "name") BY <2>2, <2>3 DEF HeaderLine
    <2>5. /\ q.error = p.error /\ q.json = p.json /\ q.req = p.req /\ q.cs = "name"
          /\ q.fieldStart = base + 1
      BY <1>4, <1>5, <1>8, <2>4 DEF To, ParserFields
    <2>6. InHeader(q, n, l, base) BY <1>8, <2>5 DEF InHeader
    <2> QED BY <1>1, <1>2, <1>8, <2>5, <2>6
  <1>9. CASE l \in 2 .. n
    <2>1. c \in WordChar BY <1>2, <1>4, <1>9
    <2>2. c # ":" /\ c \in NameChar BY <2>1, WordChars
    <2>3. p.cs = "name" /\ p.fieldStart = base + 1 BY <1>6, <1>9
    <2>4. q = FieldName(p, i, c) BY <1>4, <1>7, <2>3 DEF ParserStep
    <2>5. q = p BY <2>2, <2>4 DEF FieldName
    <2>6. InHeader(q, n, l, base) BY <1>9, <2>3, <2>5 DEF InHeader
    <2> QED BY <1>1, <1>2, <1>9, <2>5, <2>6
  <1>10. CASE l = n + 1
    <2>1. c = ":" /\ c \notin NameChar BY <1>2, <1>4, <1>10, MarkChars
    <2>2. p.cs = "name" /\ p.fieldStart = base + 1 BY <1>6, <1>10
    <2>3. q = FieldName(p, i, c) BY <1>4, <1>7, <2>2 DEF ParserStep
    <2>4. q = FieldLen(p, i) BY <2>1, <2>3 DEF FieldName
    <2>a. i - p.fieldStart = n BY <1>3, <1>4, <1>10, <2>2
    <2>b. q = [p EXCEPT !.cs = "value0", !.fieldLen = n] BY <2>4, <2>a DEF FieldLen
    <2>5. /\ q.error = p.error /\ q.json = p.json /\ q.req = p.req /\ q.cs = "value0"
          /\ q.fieldStart = base + 1 /\ q.fieldLen = n
      BY <1>5, <2>2, <2>b DEF ParserFields
    <2>6. InHeader(q, n, l, base) BY <1>10, <2>5 DEF InHeader
    <2> QED BY <1>1, <1>2, <1>10, <2>5, <2>6
  <1>11. l > n + 1 => q = FieldValue(p, b, i, c)
    <2> SUFFICES ASSUME l > n + 1 PROVE q = FieldValue(p, b, i, c) OBVIOUS
    <2>a. l \in {n + 2, n + 3} \/ l > n + 3 BY <1>l
    <2>1. p.cs \in {"value0", "value"} BY <1>6, <2>a
    <2> QED BY <1>4, <1>7, <2>1 DEF ParserStep
  <1>12. CASE l = n + 2
    <2>1. c = SP BY <1>2, <1>4, <1>12
    <2>2. c # "LF" /\ c # "CR" /\ c # "NUL" /\ c # "HT" BY <2>1, MarkChars
    <2>3. p.cs = "value0" /\ p.fieldStart = base + 1 /\ p.fieldLen = n BY <1>6, <1>12
    <2>4. q = At(p, i) BY <1>11, <1>12, <2>1, <2>2, <2>3 DEF FieldValue
    <2>5. /\ q.error = p.error /\ q.json = p.json /\ q.req = p.req /\ q.cs = "value0"
          /\ q.fieldStart = base + 1 /\ q.fieldLen = n
      BY <1>5, <2>3, <2>4 DEF At, ParserFields
    <2>6. InHeader(q, n, l, base) BY <1>12, <2>5 DEF InHeader
    <2> QED BY <1>1, <1>2, <1>12, <2>5, <2>6
  <1>13. CASE l \in n + 3 .. n + v + 2
    <2>1. c \in WordChar
      <3>1. PICK y \in 1 .. v : l = n + 2 + y
        <4>1. l - (n + 2) \in 1 .. v /\ l = n + 2 + (l - (n + 2)) BY <1>13
        <4> QED BY <4>1
      <3>2. c = val[y] BY <1>2, <1>4, <3>1
      <3> QED BY <3>2
    <2>2. c # "LF" /\ c # "CR" /\ c # "NUL" /\ c \notin {SP, "HT"} BY <2>1, WordChars
    <2>3. p.fieldStart = base + 1 /\ p.fieldLen = n BY <1>6, <1>13
    <2>4. PICK u : u = IF p.cs = "value0" THEN At(p, i) ELSE p OBVIOUS
    <2>5. /\ DOMAIN u = ParserFields /\ u.error = p.error /\ u.json = p.json /\ u.req = p.req
          /\ u.fieldStart = base + 1 /\ u.fieldLen = n
      BY <1>5, <2>3, <2>4 DEF At, ParserFields
    <2>6. u.mark = base + n + 3
      <3>1. CASE l = n + 3
        <4>1. p.cs = "value0" /\ i = base + n + 3 BY <1>3, <1>4, <1>6, <3>1
        <4> QED BY <1>5, <2>4, <4>1 DEF At, ParserFields
      <3>2. CASE l # n + 3
        <4>1. p.cs = "value" /\ p.mark = base + n + 3 BY <1>6, <1>13, <3>2
        <4> QED BY <2>4, <4>1
      <3> QED BY <3>1, <3>2
    <2>7. q = To(u, "value")
      <3>1. q = FieldValue(p, b, i, c) BY <1>11, <1>13
      <3> QED BY <2>2, <2>4, <3>1 DEF FieldValue
    <2>8. /\ q.error = p.error /\ q.json = p.json /\ q.req = p.req /\ q.cs = "value"
          /\ q.fieldStart = base + 1 /\ q.fieldLen = n /\ q.mark = base + n + 3
      BY <2>5, <2>6, <2>7 DEF To, ParserFields
    <2>9. InHeader(q, n, l, base) BY <1>13, <2>8 DEF InHeader
    <2> QED BY <1>1, <1>2, <1>13, <2>8, <2>9
  <1>14. CASE l = n + v + 3
    <2>1. c = "CR" BY <1>2, <1>4, <1>14
    <2>2. p.cs = "value" /\ p.mark = base + n + 3 /\ p.fieldStart = base + 1 /\ p.fieldLen = n
      BY <1>6, <1>14
    <2>3. q = FieldValue(p, b, i, c) BY <1>11, <1>14
    <2>4. q = To(OnField(p, b, i), "lf") BY <2>1, <2>2, <2>3, MarkChars DEF FieldValue
    <2>5. Token(p, b, i) = val
      <3>1. n + 2 \in Nat /\ (n + 2) + v <= l BY <1>14
      <3>a. PICK off \in Nat : off = n + 2 BY <3>1
      <3>b. off + v <= l /\ \A y \in 1 .. v : w[off + y] = val[y] BY <1>2, <3>1, <3>a
      <3>2. PieceAt(b, base + off, val) BY <1>1, <3>b, ReadPart
      <3>3. PICK pos : pos = base + off OBVIOUS
      <3>4. b \in Seq(Chars) BY DEF Reading
      <3>5. i - 1 = pos + Len(val) BY <1>3, <1>4, <1>14, <3>a, <3>3
      <3>6. PieceAt(b, pos, val) BY <3>2, <3>3
      <3>7. SubSeq(b, pos + 1, i - 1) = val BY <3>4, <3>5, <3>6, TokenIs
      <3>8. pos + 1 = p.mark BY <1>3, <2>2, <3>a, <3>3
      <3> QED BY <3>7, <3>8, Zenon DEF Token
    <2>6. SubSeq(b, p.fieldStart, p.fieldStart + p.fieldLen - 1) = name
      <3>1. 0 \in Nat /\ 0 + n <= l BY <1>14
      <3>2. \A y \in 1 .. n : w[0 + y] = name[y]
        <4> TAKE y \in 1 .. n
        <4>1. 0 + y = y OBVIOUS
        <4> QED BY <1>2, <4>1
      <3>3. PieceAt(b, base + 0, name) BY <1>1, <3>1, <3>2, ReadPart
      <3>4. PICK e : e = p.fieldStart + p.fieldLen - 1 OBVIOUS
      <3>5. base + 0 = base /\ e = base + Len(name) BY <1>3, <2>2, <3>4
      <3>6. PieceAt(b, base, name) BY <3>3, <3>5, Zenon
      <3>7. b \in Seq(Chars) BY DEF Reading
      <3>8. SubSeq(b, base + 1, e) = name BY <3>5, <3>6, <3>7, TokenIs
      <3> QED BY <2>2, <3>4, <3>8, Zenon
    <2>7. p.fieldLen # 0 BY <2>2
    <2>8. OnField(p, b, i) = [p EXCEPT !.req.headers = SetHeader(@, name, val)]
      BY <2>5, <2>6, <2>7, Zenon DEF OnField
    <2>9. PICK hs : hs = SetHeader(p.req.headers, name, val) OBVIOUS
    <2>10. OnField(p, b, i) = [p EXCEPT !.req.headers = hs] BY <2>8, <2>9, Zenon
    <2>11. /\ q.error = p.error /\ q.json = p.json /\ q.cs = "lf"
           /\ q.req = [p.req EXCEPT !.headers = hs]
      BY <1>5, <2>4, <2>10 DEF To, ParserFields, RequestFields
    <2> QED BY <1>1, <1>2, <1>14, <2>9, <2>11
  <1>15. \/ l = 1 \/ l \in 2 .. n \/ l = n + 1 \/ l = n + 2 \/ l \in n + 3 .. n + v + 2
         \/ l = n + v + 3
    BY <1>l
  <1> QED BY <1>8, <1>9, <1>10, <1>12, <1>13, <1>14, <1>15

\* The names and the value of the headers are words.
LEMMA PlainWord ==
  ASSUME PlainWords, NEW w \in {Connection, ContentLength, CloseWord}
  PROVE  w \in Seq(Chars) /\ Len(w) \in Nat /\ Len(w) > 0 /\ \A y \in 1 .. Len(w) : w[y] \in WordChar
  <1>1. w \in Seq(Chars) BY WordTypes
  <1>2. Len(w) \in Nat /\ DOMAIN w = 1 .. Len(w) BY <1>1, LenProperties
  <1>3. w # <<>> /\ \A y \in DOMAIN w : w[y] \in WordChar BY DEF PlainWords, WordChar
  <1>4. Len(w) # 0 BY <1>1, <1>3, EmptySeq
  <1> QED BY <1>1, <1>2, <1>3, <1>4

\* A byte of the line of the header connection.
LEMMA ConnectionStep ==
  ASSUME PlainWords, NEW m, IsRequest(m), NEW p, ParserShape(p), NEW b, NEW base, NEW l,
         Reading(b, base, Piece(m, 5), l), Follow(p, m, 5, l - 1, base)
  PROVE  Goes(ParserStep(p, b, base + l), m, 5, l, base)
  <1>1. PICK n, v \in Nat : n = Len(Connection) /\ v = Len(CloseWord) BY PlainWord
  <1>2. /\ Connection \in Seq(Chars) /\ CloseWord \in Seq(Chars) /\ n > 0 /\ v > 0
        /\ \A y \in 1 .. n : Connection[y] \in WordChar
        /\ \A y \in 1 .. v : CloseWord[y] \in WordChar
    BY <1>1, PlainWord
  <1>3. Piece(m, 5) = HeaderPiece(Connection, CloseWord) BY DEF Piece
  <1>4. Reading(b, base, HeaderPiece(Connection, CloseWord), l) BY <1>3
  <1>5. /\ p.error = 0 /\ p.json = FALSE /\ p.req = RequestAt(m, 5)
        /\ InHeader(p, n, l - 1, base)
    BY <1>1 DEF Follow, InPiece
  <1>6. PICK q : q = ParserStep(p, b, base + l) OBVIOUS
  <1>7. /\ q.error = p.error /\ q.json = p.json
        /\ Len(HeaderPiece(Connection, CloseWord)) = n + v + 3
        /\ l < n + v + 3 => InHeader(q, n, l, base) /\ q.req = p.req
        /\ l = n + v + 3 =>
             /\ q.cs = "lf"
             /\ q.req = [p.req EXCEPT !.headers = SetHeader(p.req.headers, Connection, CloseWord)]
    BY <1>1, <1>2, <1>4, <1>5, <1>6, HeaderStep
  <1>8. Len(Piece(m, 5)) = n + v + 3 BY <1>3, <1>7
  <1>9. l \in 1 .. n + v + 3 BY <1>8 DEF Reading
  <1>10. CASE l < n + v + 3
    <2>1. Follow(q, m, 5, l, base) BY <1>1, <1>5, <1>7, <1>10 DEF Follow, InPiece
    <2> QED BY <1>6, <1>8, <1>10, <2>1 DEF Goes
  <1>11. CASE l = n + v + 3
    <2>1. q.req = RequestAt(m, 6)
      <3>1. Connection # ContentLength BY DEF PlainWords
      <3> QED BY <1>5, <1>7, <1>11, <3>1, HeaderSteps
    <2>2. Follow(q, m, 6, 0, base + l) BY <1>5, <1>7, <1>11, <2>1 DEF Follow, InPiece
    <2>3. Follows(m, 5) = 6 BY DEF Follows
    <2> QED BY <1>6, <1>8, <1>11, <2>2, <2>3 DEF Goes
  <1> QED BY <1>9, <1>10, <1>11

\* A byte of the line of the header content-length.
LEMMA LengthStep ==
  ASSUME PlainWords, NEW m, IsRequest(m), m.body # <<>>, NEW p, ParserShape(p), NEW b, NEW base,
         NEW l, Reading(b, base, Piece(m, 7), l), Follow(p, m, 7, l - 1, base)
  PROVE  Goes(ParserStep(p, b, base + l), m, 7, l, base)
  <1>0. PICK d : d = <<DigitOf(Len(m.body))>> OBVIOUS
  <1>a. d \in Seq(Chars) /\ Len(d) = 1 /\ \A y \in 1 .. 1 : d[y] \in WordChar
    <2>1. DigitOf(Len(m.body)) \in Digit BY DigitOfType DEF IsRequest
    <2>2. PICK x : x = DigitOf(Len(m.body)) /\ x \in Chars /\ x \in WordChar
      BY <2>1 DEF Chars, WordChar
    <2> QED BY <1>0, <2>2
  <1>1. PICK n, v \in Nat : n = Len(ContentLength) /\ v = Len(d) BY <1>a, PlainWord
  <1>2. /\ ContentLength \in Seq(Chars) /\ n > 0 /\ v > 0
        /\ \A y \in 1 .. n : ContentLength[y] \in WordChar
        /\ \A y \in 1 .. v : d[y] \in WordChar
    BY <1>1, <1>a, PlainWord
  <1>3. Piece(m, 7) = HeaderPiece(ContentLength, d) BY <1>0 DEF Piece
  <1>4. Reading(b, base, HeaderPiece(ContentLength, d), l) BY <1>3
  <1>5. /\ p.error = 0 /\ p.json = FALSE /\ p.req = RequestAt(m, 7)
        /\ InHeader(p, n, l - 1, base)
    BY <1>1 DEF Follow, InPiece
  <1>6. PICK q : q = ParserStep(p, b, base + l) OBVIOUS
  <1>7. /\ q.error = p.error /\ q.json = p.json
        /\ Len(HeaderPiece(ContentLength, d)) = n + v + 3
        /\ l < n + v + 3 => InHeader(q, n, l, base) /\ q.req = p.req
        /\ l = n + v + 3 =>
             /\ q.cs = "lf"
             /\ q.req = [p.req EXCEPT !.headers = SetHeader(p.req.headers, ContentLength, d)]
    <2>1. d \in Seq(Chars) BY <1>a
    <2> QED BY <1>1, <1>2, <1>4, <1>5, <1>6, <2>1, HeaderStep, SMTT(60)
  <1>8. Len(Piece(m, 7)) = n + v + 3 BY <1>3, <1>7
  <1>9. l \in 1 .. n + v + 3 BY <1>8 DEF Reading
  <1>10. CASE l < n + v + 3
    <2>1. Follow(q, m, 7, l, base) BY <1>1, <1>5, <1>7, <1>10 DEF Follow, InPiece
    <2> QED BY <1>6, <1>8, <1>10, <2>1 DEF Goes
  <1>11. CASE l = n + v + 3
    <2>1. q.req = RequestAt(m, 8)
      <3>1. Connection # ContentLength BY DEF PlainWords
      <3>2. [RequestAt(m, 7) EXCEPT !.headers = SetHeader(RequestAt(m, 7).headers, ContentLength, d)]
            = RequestAt(m, 8)
        BY <1>0, <3>1, HeaderSteps
      <3> QED BY <1>5, <1>7, <1>11, <3>2
    <2>2. Follow(q, m, 8, 0, base + l) BY <1>5, <1>7, <1>11, <2>1 DEF Follow, InPiece
    <2>3. Follows(m, 7) = 8 BY DEF Follows
    <2> QED BY <1>6, <1>8, <1>11, <2>2, <2>3 DEF Goes
  <1> QED BY <1>9, <1>10, <1>11

\* A line feed, or the end of the head.
LEMMA MarkStep ==
  ASSUME PlainWords, NEW m, IsRequest(m), NEW j \in {4, 6, 8, 9, 10}, j = 8 => m.body # <<>>,
         NEW p, ParserShape(p), NEW b, NEW base,
         NEW l, Reading(b, base, Piece(m, j), l), Follow(p, m, j, l - 1, base)
  PROVE  Goes(ParserStep(p, b, base + l), m, j, l, base)
  <1>1. PICK x : x = (IF j = 9 THEN "CR" ELSE "LF") OBVIOUS
  <1>2. Piece(m, j) = <<x>> BY <1>1 DEF Piece
  <1>3. Len(Piece(m, j)) = 1 /\ Piece(m, j)[1] = x BY <1>2
  <1>4. l = 1 /\ b[base + l] = x
    <2>1. l \in 1 .. 1 /\ \A y \in 1 .. l : b[base + y] = Piece(m, j)[y] BY <1>3 DEF Reading
    <2> QED BY <1>3, <2>1
  <1>5. p.error = 0 /\ p.json = FALSE /\ p.req = RequestAt(m, j) BY DEF Follow
  <1>6. /\ j \in {4, 6, 8} => p.cs = "lf"
        /\ j = 9 => p.cs = "header"
        /\ j = 10 => p.cs = "cr"
    BY DEF Follow, InPiece
  <1>7. DOMAIN p = ParserFields BY DEF ParserShape
  <1>8. PICK i, q : i = base + l /\ q = ParserStep(p, b, i) OBVIOUS
  <1>9. Len(Connection) \in Nat /\ Len(ContentLength) \in Nat BY PlainWord
  <1>10. CASE j \in {4, 6, 8}
    <2>1. q = LineFeed(p, x) BY <1>4, <1>6, <1>8, <1>10 DEF ParserStep
    <2>2. q = To(p, "header") BY <1>1, <1>10, <2>1 DEF LineFeed
    <2>3. q.error = 0 /\ q.json = FALSE /\ q.req = RequestAt(m, j) /\ q.cs = "header"
      BY <1>5, <1>7, <2>2 DEF To, ParserFields
    <2>4. PICK k : k = Follows(m, j) OBVIOUS
    <2>5. /\ j = 4 => k = 5
          /\ j = 6 => k = IF m.body = <<>> THEN 9 ELSE 7
          /\ j = 8 => k = 9
      BY <2>4 DEF Follows
    <2>6. q.req = RequestAt(m, k)
      <3>1. Connection # ContentLength BY DEF PlainWords
      <3>2. /\ RequestAt(m, 5) = RequestAt(m, 4) /\ RequestAt(m, 7) = RequestAt(m, 6)
            /\ RequestAt(m, 9) = RequestAt(m, 8)
        BY RequestSteps
      <3>3. m.body = <<>> => RequestAt(m, 6) = RequestAt(m, 9) BY <3>1, HeaderSteps
      <3> QED BY <1>10, <2>3, <2>5, <3>2, <3>3
    <2>7. k \in {5, 7, 9} BY <1>10, <2>5
    <2>8. InPiece(q, k, 0, base + l) BY <1>9, <2>3, <2>7 DEF InPiece, InHeader
    <2>9. Follow(q, m, k, 0, base + l) BY <2>3, <2>6, <2>8 DEF Follow
    <2> QED BY <1>3, <1>4, <1>8, <2>4, <2>9 DEF Goes
  <1>11. CASE j = 9
    <2>1. q = HeaderLine(p, i, x) BY <1>4, <1>6, <1>8, <1>11 DEF ParserStep
    <2>2. q = To([p EXCEPT !.fieldStart = i], "cr") BY <1>1, <1>11, <2>1 DEF HeaderLine
    <2>3. q.error = 0 /\ q.json = FALSE /\ q.req = RequestAt(m, 9) /\ q.cs = "cr"
      BY <1>5, <1>7, <1>11, <2>2 DEF To, ParserFields
    <2>4. Follows(m, j) = 10 BY <1>11 DEF Follows
    <2>5. q.req = RequestAt(m, 10) BY <2>3, RequestSteps
    <2>6. Follow(q, m, 10, 0, base + l) BY <2>3, <2>5 DEF Follow, InPiece
    <2> QED BY <1>3, <1>4, <1>8, <2>4, <2>6 DEF Goes
  <1>12. CASE j = 10
    <2>1. q = HeaderCr(p, i, x) BY <1>4, <1>6, <1>8, <1>12 DEF ParserStep
    <2>2. q = To(p, "done") BY <1>1, <1>12, <2>1 DEF HeaderCr, Done
    <2>3. q.error = 0 /\ q.json = FALSE /\ q.req = RequestAt(m, 10) /\ q.cs = "done"
      BY <1>5, <1>7, <1>12, <2>2 DEF To, ParserFields
    <2>4. Follows(m, j) = 11 BY <1>12 DEF Follows
    <2>5. q.req = RequestAt(m, 11) BY <2>3, RequestSteps
    <2>6. Follow(q, m, 11, 0, base + l) BY <2>3, <2>5 DEF Follow, InPiece
    <2> QED BY <1>3, <1>4, <1>8, <2>4, <2>6 DEF Goes
  <1> QED BY <1>10, <1>11, <1>12

\* One byte of a request.
LEMMA PieceStep ==
  ASSUME PlainWords, NEW m, IsRequest(m), Plain(m), NEW j \in 0 .. 10, NEW p, ParserShape(p),
         NEW b, NEW base, NEW l, Reading(b, base, Piece(m, j), l), Follow(p, m, j, l - 1, base)
  PROVE  Goes(ParserStep(p, b, base + l), m, j, l, base)
  <1>1. ~(j = 2 /\ m.query = <<>>) /\ ~(j \in {7, 8} /\ m.body = <<>>)
    <2>1. Len(Piece(m, j)) = 0 <=> (j = 2 /\ m.query = <<>>) \/ (j \in {7, 8} /\ m.body = <<>>)
      BY PieceType
    <2>2. Len(Piece(m, j)) \in Nat /\ l \in 1 .. Len(Piece(m, j)) BY PieceType DEF Reading
    <2> QED BY <2>1, <2>2
  <1>2. CASE j = 0 BY <1>2, MethodStep
  <1>3. CASE j = 1 BY <1>3, PathStep
  <1>4. CASE j = 2 BY <1>1, <1>4, QueryStep
  <1>5. CASE j = 3 BY <1>5, VersionStep
  <1>6. CASE j = 5 BY <1>6, ConnectionStep
  <1>7. CASE j = 7 BY <1>1, <1>7, LengthStep
  <1>8. CASE j \in {4, 6, 8, 9, 10} BY <1>1, <1>8, MarkStep
  <1> QED BY <1>2, <1>3, <1>4, <1>5, <1>6, <1>7, <1>8

\* What has been read of a piece.
LEMMA ReadingHere ==
  ASSUME NEW t \in Seq(Chars), NEW pos, NEW w, PieceAt(t, pos, w), NEW taken \in Nat,
         NEW size \in Nat, taken + size <= Len(t), NEW b, b = SubSeq(t, taken + 1, taken + size),
         NEW base \in Nat, taken + base = pos, NEW l \in Nat, NEW n \in Nat, n = Len(w),
         l \in 1 .. n, base + l <= size
  PROVE  Reading(b, base, w, l)
  <1>1. b \in Seq(Chars) /\ Len(b) = size /\ \A y \in 1 .. size : b[y] = t[taken + y]
    BY ReadIsText, ZenonT(60)
  <1>2. w \in Seq(Chars) /\ \A y \in 1 .. n : t[pos + y] = w[y] BY DEF PieceAt
  <1>3. ASSUME NEW y \in 1 .. l PROVE b[base + y] = w[y]
    <2>1. base + y \in 1 .. size /\ taken + (base + y) = pos + y /\ y \in 1 .. n OBVIOUS
    <2>2. b[base + y] = t[taken + (base + y)] BY <1>1, <2>1
    <2>3. t[pos + y] = w[y] BY <1>2, <2>1
    <2> QED BY <2>1, <2>2, <2>3, Zenon
  <1> QED BY <1>1, <1>2, <1>3, Zenon DEF Reading

\* A parser inside a request goes on.
LEMMA FollowRuns ==
  ASSUME PlainWords, NEW m, NEW j \in 0 .. 10, NEW l \in Nat, NEW base, NEW p,
         Follow(p, m, j, l, base)
  PROVE  p.cs \notin {"done", "error"} /\ ~Threw(p) /\ ~HasError(p) /\ ~IsFinished(p)
  <1>1. p.error = 0 /\ InPiece(p, j, l, base) BY DEF Follow
  <1>2. Len(Connection) \in Nat /\ Len(ContentLength) \in Nat BY PlainWord
  <1>3. \A n \in Nat : InHeader(p, n, l, base) => p.cs \in {"header", "name", "value0", "value"}
    <2> SUFFICES ASSUME NEW n \in Nat, InHeader(p, n, l, base)
                 PROVE  p.cs \in {"header", "name", "value0", "value"}
      OBVIOUS
    <2>1. l = 0 \/ l \in 1 .. n \/ l \in {n + 1, n + 2} \/ l > n + 2 OBVIOUS
    <2> QED BY <2>1 DEF InHeader
  <1>4. j = 0 => p.cs \in {"start", "method"} BY <1>1 DEF InPiece, InMethod
  <1>5. j = 1 => p.cs \in {"target", "slash", "path"} BY <1>1 DEF InPiece, InPath
  <1>6. j = 2 => p.cs \in {"query0", "query"} BY <1>1 DEF InPiece, InQuery
  <1>7. j = 3 => p.cs = "version" BY <1>1 DEF InPiece, InVersion
  <1>8. j \in {4, 6, 8} => p.cs = "lf" BY <1>1 DEF InPiece
  <1>9. j = 5 => InHeader(p, Len(Connection), l, base) BY <1>1 DEF InPiece
  <1>10. j = 7 => InHeader(p, Len(ContentLength), l, base) BY <1>1 DEF InPiece
  <1>11. j \in {9, 10} => p.cs \in {"header", "cr"} BY <1>1 DEF InPiece
  <1>12. p.cs \notin {"done", "error"}
    BY <1>2, <1>3, <1>4, <1>5, <1>6, <1>7, <1>8, <1>9, <1>10, <1>11
  <1> QED BY <1>1, <1>12 DEF Threw, HasError, IsFinished

\* Where a run of execute is after i bytes of a buffer; the text begins at position
\* taken of the connection's, the request at position start.
Midway(x, m, start, taken, i) ==
  \E j \in 0 .. 10, base \in Nat, l \in Nat :
    /\ x.n = i /\ i = base + l /\ l < Len(Piece(m, j)) /\ taken + base = start + Offset(m, j)
    /\ Follow(x.p, m, j, l, base)
Finished(x, m, start, taken, i) ==
  x.n \in 1 .. i /\ taken + x.n = start + Offset(m, 11) /\ Follow(x.p, m, 11, 0, x.n)
InRun(x, m, start, taken, i) ==
  Refused(x.p, m) \/ Midway(x, m, start, taken, i) \/ Finished(x, m, start, taken, i)

\* One more byte of the buffer.
LEMMA RunStep ==
  ASSUME PlainWords, NEW m, IsRequest(m), Plain(m), NEW start \in Nat, NEW t \in Seq(Chars),
         \A j \in 0 .. 10 : PieceAt(t, start + Offset(m, j), Piece(m, j)),
         NEW taken \in Nat, NEW size \in Nat, taken + size <= Len(t),
         NEW b, b = SubSeq(t, taken + 1, taken + size),
         NEW i \in Nat, i < size, NEW x, InRun(x, m, start, taken, i), ParserShape(x.p),
         NEW y, y = ExecuteByte(x, b, i + 1)
  PROVE  InRun(y, m, start, taken, i + 1)
  <1>1. CASE Refused(x.p, m)
    <2>1. x.p.cs = "error" BY <1>1 DEF Refused
    <2>2. y = x BY <2>1 DEF ExecuteByte
    <2> QED BY <1>1, <2>2 DEF InRun
  <1>2. CASE Finished(x, m, start, taken, i)
    <2>1. x.p.cs = "done" BY <1>2 DEF Finished, Follow, InPiece
    <2>2. y = x BY <2>1 DEF ExecuteByte
    <2>3. x.n \in 1 .. i + 1 BY <1>2, SMTT(60) DEF Finished
    <2>4. Finished(y, m, start, taken, i + 1) BY <1>2, <2>2, <2>3 DEF Finished
    <2> QED BY <2>4 DEF InRun
  <1>3. CASE Midway(x, m, start, taken, i)
    <2>1. PICK j \in 0 .. 10, base \in Nat, l \in Nat :
            /\ x.n = i /\ i = base + l /\ l < Len(Piece(m, j))
            /\ taken + base = start + Offset(m, j) /\ Follow(x.p, m, j, l, base)
      BY <1>3 DEF Midway
    <2>2. PICK p : p = x.p OBVIOUS
    <2>3. p.cs \notin {"done", "error"} /\ ~Threw(p) BY <2>1, <2>2, FollowRuns
    <2>4. y = [p |-> ParserStep(p, b, i + 1), n |-> i + 1] BY <2>2, <2>3 DEF ExecuteByte
    <2>5. PICK w : w = Piece(m, j) OBVIOUS
    <2>6. PICK n \in Nat : n = Len(w) BY <2>5, PieceType
    <2>7. l + 1 \in 1 .. n /\ l + 1 \in Nat /\ base + (l + 1) <= size /\ base + (l + 1) = i + 1
          /\ (l + 1) - 1 = l
      <3>1. l < n BY <2>1, <2>5, <2>6, Zenon
      <3>2. i = base + l BY <2>1
      <3>3. base + l < size BY <3>2
      <3>4. \A a, u, v, s \in Nat : u < v /\ a + u < s
             => u + 1 \in 1 .. v /\ u + 1 \in Nat /\ a + (u + 1) <= s /\ a + (u + 1) = (a + u) + 1
                /\ (u + 1) - 1 = u
        OBVIOUS
      <3> QED BY <3>1, <3>2, <3>3, <3>4, Zenon
    <2>8. PieceAt(t, start + Offset(m, j), w) BY <2>5
    <2>9. Reading(b, base, w, l + 1) BY <2>1, <2>6, <2>7, <2>8, ReadingHere
    <2>10. Goes(ParserStep(p, b, base + (l + 1)), m, j, l + 1, base)
      <3>1. Follow(p, m, j, (l + 1) - 1, base) BY <2>1, <2>2, <2>7
      <3>2. Reading(b, base, Piece(m, j), l + 1) BY <2>5, <2>9
      <3>3. ParserShape(p) BY <2>2
      <3>4. PICK e : e = l + 1 OBVIOUS
      <3>5. Follow(p, m, j, e - 1, base) /\ Reading(b, base, Piece(m, j), e) BY <3>1, <3>2, <3>4, Zenon
      <3>6. Goes(ParserStep(p, b, base + e), m, j, e, base) BY <3>3, <3>5, PieceStep
      <3> QED BY <3>4, <3>6, Zenon
    <2>11. PICK q : q = ParserStep(p, b, i + 1) /\ y.p = q /\ y.n = i + 1 BY <2>4, SMTT(60)
    <2>12. Goes(q, m, j, l + 1, base) BY <2>7, <2>10, <2>11
    <2>13. CASE Refused(q, m) BY <2>11, <2>13 DEF InRun
    <2>14. CASE l + 1 < Len(Piece(m, j)) /\ Follow(q, m, j, l + 1, base)
      <3>1. Midway(y, m, start, taken, i + 1) BY <2>1, <2>7, <2>11, <2>14 DEF Midway
      <3> QED BY <3>1 DEF InRun
    <2>15. CASE l + 1 = Len(Piece(m, j)) /\ Follow(q, m, Follows(m, j), 0, base + (l + 1))
      <3>1. PICK f : f = Follows(m, j) OBVIOUS
      <3>2. Len(Piece(m, j)) > 0 BY <2>15
      <3>3. /\ f \in 1 .. 11 /\ Offset(m, f) = Offset(m, j) + Len(Piece(m, j))
            /\ f # 11 => Len(Piece(m, f)) > 0
        BY <3>1, <3>2, FollowsPiece
      <3>4. Offset(m, j) \in Nat BY OffsetIs
      <3>5. taken + (i + 1) = start + Offset(m, f)
        <4>0. PICK o \in Nat : o = Offset(m, j) BY <3>4
        <4>1. PICK g : o = Offset(m, j) /\ g = Offset(m, f) BY <4>0
        <4>2. PICK e \in Nat : e = l + 1 BY <2>7
        <4>3. g = o + e BY <2>15, <3>3, <4>1, <4>2, Zenon
        <4>4. taken + base = start + o BY <2>1, <4>1, Zenon
        <4>5. i + 1 = base + e BY <2>7, <4>2, Zenon
        <4>6. taken + (base + e) = start + (o + e) BY <4>4
        <4> QED BY <4>1, <4>3, <4>5, <4>6, Zenon
      <3>6. Follow(q, m, f, 0, i + 1) BY <2>7, <2>15, <3>1
      <3>7. CASE f = 11
        <4>1. i + 1 \in 1 .. i + 1 OBVIOUS
        <4>2. Finished(y, m, start, taken, i + 1) BY <2>11, <3>5, <3>6, <3>7, <4>1 DEF Finished
        <4> QED BY <4>2 DEF InRun
      <3>8. CASE f # 11
        <4>1. f \in 0 .. 10 /\ 0 < Len(Piece(m, f)) /\ i + 1 \in Nat /\ i + 1 = (i + 1) + 0
          BY <3>3, <3>8
        <4>2. Midway(y, m, start, taken, i + 1) BY <2>11, <3>5, <3>6, <4>1 DEF Midway
        <4> QED BY <4>2 DEF InRun
      <3> QED BY <3>7, <3>8
    <2> QED BY <2>12, <2>13, <2>14, <2>15 DEF Goes
  <1> QED BY <1>1, <1>2, <1>3 DEF InRun

\* The pointers are set to the beginning of the buffer; between two pieces nobody cares.
LEMMA ResetFollows ==
  ASSUME NEW m, NEW j \in 0 .. 10, NEW p, ParserShape(p), Follow(p, m, j, 0, 0), NEW q, q = Reset(p),
         PlainWords
  PROVE  Follow(q, m, j, 0, 0)
  <1>1. /\ q.error = p.error /\ q.json = p.json /\ q.req = p.req /\ q.cs = p.cs /\ q.n = p.n
    BY DEF Reset, ParserShape, ParserFields
  <1>2. p.error = 0 /\ p.json = FALSE /\ p.req = RequestAt(m, j) /\ InPiece(p, j, 0, 0) BY DEF Follow
  <1>3. Len(Connection) \in Nat /\ Len(ContentLength) \in Nat BY PlainWord
  <1>4. \A n \in Nat : InHeader(p, n, 0, 0) => InHeader(q, n, 0, 0) BY <1>1 DEF InHeader
  <1>5. InPiece(q, j, 0, 0)
    BY <1>1, <1>2, <1>3, <1>4 DEF InPiece, InMethod, InPath, InQuery, InVersion
  <1> QED BY <1>1, <1>2, <1>5 DEF Follow

\* A call of execute between two pieces of the request leaves the parser where the text
\* in the buffer ends, or it has refused it, or it has the whole head.
LEMMA ExecuteTracks ==
  ASSUME PlainWords, NEW m, IsRequest(m), Plain(m), NEW start \in Nat, NEW t \in Seq(Chars),
         \A j \in 0 .. 10 : PieceAt(t, start + Offset(m, j), Piece(m, j)),
         NEW taken \in Nat, NEW size \in Nat, taken + size <= Len(t),
         NEW b, b = SubSeq(t, taken + 1, taken + size),
         NEW p, ParserShape(p), NEW j \in 0 .. 10, Len(Piece(m, j)) > 0, Follow(p, m, j, 0, 0),
         taken = start + Offset(m, j)
  PROVE  InRun(Execute(p, b), m, start, taken, size)
  <1>1. b \in Seq(Chars) /\ Len(b) = size BY ReadIsText
  <1>2. PICK g : Runs(g, p, b, size) /\ Execute(p, b) = g[size] BY <1>1, ExecuteRuns
  <1>3. \A i \in 0 .. size : ParserOK(g[i].p, i + 1) BY <1>1, <1>2, RunInBuffer
  <1> DEFINE S == {i \in Nat : i <= size => InRun(g[i], m, start, taken, i)}
  <1>4. 0 \in S
    <2>1. PICK q, x : q = Reset(p) /\ x = [p |-> q, n |-> 0] OBVIOUS
    <2>2. g[0] = x
      <3>1. 0 \in 0 .. size OBVIOUS
      <3>2. g[0] = [p |-> Reset(p), n |-> 0] BY <1>2, <3>1 DEF Runs
      <3> QED BY <2>1, <3>2, Zenon
    <2>3. Follow(q, m, j, 0, 0) BY <2>1, ResetFollows
    <2>4. x.p = q /\ x.n = 0 BY <2>1
    <2>5. 0 = 0 + 0 /\ taken + 0 = taken /\ 0 \in Nat OBVIOUS
    <2>7. taken + 0 = start + Offset(m, j) BY <2>5, Zenon
    <2>8. 0 < Len(Piece(m, j))
      <3>1. \A n : n > 0 => 0 < n OBVIOUS
      <3> QED BY <3>1, Zenon
    <2>9. Midway(x, m, start, taken, 0) BY <2>3, <2>4, <2>5, <2>7, <2>8, Zenon DEF Midway
    <2>6. InRun(g[0], m, start, taken, 0) BY <2>2, <2>9 DEF InRun
    <2> QED BY <2>6
  <1>5. ASSUME NEW i \in Nat, i \in S PROVE i + 1 \in S
    <2> SUFFICES ASSUME i + 1 <= size PROVE InRun(g[i + 1], m, start, taken, i + 1) OBVIOUS
    <2>1. PICK x, y : x = g[i] /\ y = g[i + 1] OBVIOUS
    <2>2. i < size /\ i + 1 \in 0 .. size /\ i \in 0 .. size /\ i + 1 # 0 /\ (i + 1) - 1 = i OBVIOUS
    <2>3. y = ExecuteByte(x, b, i + 1) BY <1>2, <2>1, <2>2 DEF Runs
    <2>4. InRun(x, m, start, taken, i) BY <1>5, <2>1, <2>2
    <2>5. ParserShape(x.p) BY <1>3, <2>1, <2>2 DEF ParserOK
    <2>6. InRun(y, m, start, taken, i + 1) BY <2>2, <2>3, <2>4, <2>5, RunStep
    <2> QED BY <2>1, <2>6
  <1> HIDE DEF S
  <1>6. size \in S BY <1>4, <1>5, Induct
  <1> QED BY <1>2, <1>6 DEF S

-----------------------------------------------------------------------------
\* A read that ends strictly inside a piece ends inside a word.
Within(w, l) == w[l] \notin Stops \/ (l > 1 /\ w[l] = SP /\ w[l - 1] = ":")

\* That is so inside a word and the mark after it,
LEMMA WithinWord ==
  ASSUME NEW s \in Seq(Chars), NEW x \in Chars, NEW w, w = s \o <<x>>,
         \A y \in 1 .. Len(s) : s[y] \notin Stops, NEW l \in Nat, l > 0, l < Len(w)
  PROVE  Within(w, l)
  <1>1. /\ Len(w) = Len(s) + 1 /\ Len(s) \in Nat
        /\ \A y \in 1 .. Len(s) : w[y] = s[y]
    BY WordAndMark
  <1>2. l \in 1 .. Len(s) BY <1>1
  <1> QED BY <1>1, <1>2 DEF Within

\* inside the line of a header,
LEMMA WithinHeader ==
  ASSUME NEW s \in Seq(Chars), NEW v \in Seq(Chars), NEW w, w = HeaderPiece(s, v), Len(s) > 0,
         \A y \in 1 .. Len(s) : s[y] \in WordChar, \A y \in 1 .. Len(v) : v[y] \in WordChar,
         NEW l \in Nat, l > 0, l < Len(w)
  PROVE  Within(w, l)
  <1>1. PICK a, e \in Nat : a = Len(s) /\ e = Len(v) BY LenProperties
  <1>2. /\ Len(w) = a + e + 3
        /\ \A i \in 1 .. a : w[i] = s[i]
        /\ w[a + 1] = ":" /\ w[a + 2] = SP
        /\ \A i \in 1 .. e : w[a + 2 + i] = v[i]
    <2>1. /\ HeaderPiece(s, v) \in Seq(Chars)
          /\ Len(HeaderPiece(s, v)) = Len(s) + Len(v) + 3
          /\ \A i \in 1 .. Len(s) : HeaderPiece(s, v)[i] = s[i]
          /\ HeaderPiece(s, v)[Len(s) + 1] = ":"
          /\ HeaderPiece(s, v)[Len(s) + 2] = SP
          /\ \A i \in 1 .. Len(v) : HeaderPiece(s, v)[Len(s) + 2 + i] = v[i]
          /\ HeaderPiece(s, v)[Len(s) + Len(v) + 3] = "CR"
      BY HeaderPieceIs
    <2> QED BY <1>1, <2>1, Zenon
  <1>3. l \in 1 .. a \/ l = a + 1 \/ l = a + 2 \/ (l - (a + 2) \in 1 .. e /\ l = a + 2 + (l - (a + 2)))
    BY <1>2
  <1>4. CASE l \in 1 .. a
    <2>1. w[l] \in WordChar BY <1>1, <1>2, <1>4
    <2>2. w[l] \notin Stops BY <2>1, WordChars
    <2> QED BY <2>2 DEF Within
  <1>5. CASE l = a + 1
    <2>1. w[l] = ":" BY <1>2, <1>5
    <2>2. ":" \notin Stops BY Zenon DEF Stops, SP
    <2> QED BY <2>1, <2>2 DEF Within
  <1>6. CASE l = a + 2
    <2>1. l > 1 /\ l - 1 = a + 1 BY <1>6
    <2>2. w[l] = SP /\ w[l - 1] = ":" BY <1>2, <1>6, <2>1
    <2> QED BY <2>1, <2>2 DEF Within
  <1>7. CASE l - (a + 2) \in 1 .. e /\ l = a + 2 + (l - (a + 2))
    <2>1. PICK i : i = l - (a + 2) OBVIOUS
    <2>2. i \in 1 .. e /\ l = a + 2 + i BY <1>7, <2>1
    <2>3. w[l] = v[i] BY <1>2, <2>2
    <2>4. w[l] \in WordChar BY <1>1, <2>2, <2>3
    <2>5. w[l] \notin Stops BY <2>4, WordChars
    <2> QED BY <2>5 DEF Within
  <1> QED BY <1>3, <1>4, <1>5, <1>6, <1>7

\* and so inside every piece.
LEMMA WithinPiece ==
  ASSUME PlainWords, NEW m, IsRequest(m), Plain(m), NEW j \in 0 .. 10, NEW w, w = Piece(m, j),
         NEW l \in Nat, l > 0, l < Len(w)
  PROVE  Within(w, l)
  <1>1. CASE j = 0
    <2>1. w = m.method \o <<SP>> /\ m.method \in Seq(Chars) /\ SP \in Chars
      BY <1>1, Marks11 DEF Piece, IsRequest
    <2>2. \A y \in 1 .. Len(m.method) : m.method[y] \notin Stops
      <3>1. DOMAIN m.method = 1 .. Len(m.method) BY <2>1, LenProperties
      <3>2. \A y \in DOMAIN m.method : m.method[y] \in Upper \cup Digit BY DEF Plain
      <3> QED BY <3>1, <3>2, UpperChars
    <2>3. PICK s : s = m.method OBVIOUS
    <2> QED BY <2>1, <2>2, <2>3, WithinWord
  <1>2. CASE j = 1
    <2>1. PICK x : x = IF m.query = <<>> THEN SP ELSE "?" OBVIOUS
    <2>2. x \in Chars BY <2>1, Marks11
    <2>3. PICK s : s = m.path OBVIOUS
    <2>4. w = s \o <<x>> /\ s \in Seq(Chars)
      <3>1. w = s \o <<x>> BY <1>2, <2>1, <2>3 DEF Piece
      <3> QED BY <2>3, <3>1 DEF IsRequest
    <2>5. DOMAIN s = 1 .. Len(s) BY <2>4, LenProperties
    <2>6. \A y \in DOMAIN s : s[y] \in PlainChar \/ s[y] \in MoreDelims
      BY <2>3 DEF Plain, PlainChar
    <2>7. \A y \in 1 .. Len(s) : s[y] \notin Stops BY <2>5, <2>6, PlainChars, MoreChars
    <2> QED BY <2>2, <2>4, <2>7, WithinWord
  <1>3. CASE j = 2
    <2>1. Len(w) # 0 OBVIOUS
    <2>2. m.query # <<>>
      <3>1. m.query = <<>> => w = <<>> BY <1>3 DEF Piece
      <3> QED BY <2>1, <3>1
    <2>3. PICK s : s = m.query OBVIOUS
    <2>4. w = s \o <<SP>> /\ s \in Seq(Chars) /\ SP \in Chars
      BY <1>3, <2>2, <2>3, Marks11 DEF Piece, IsRequest
    <2>5. DOMAIN s = 1 .. Len(s) BY <2>4, LenProperties
    <2>6. \A y \in DOMAIN s : s[y] \in PlainChar BY <2>3 DEF Plain, PlainChar
    <2>7. \A y \in 1 .. Len(s) : s[y] \notin Stops BY <2>5, <2>6, PlainChars
    <2> QED BY <2>4, <2>7, WithinWord
  <1>4. CASE j = 3
    <2>1. PICK s : s = Http11 OBVIOUS
    <2>2. w = s \o <<"CR">> /\ s \in Seq(Chars) /\ "CR" \in Chars /\ Len(s) = 8
      BY <1>4, <2>1, Marks11, WordTypes DEF Piece
    <2>3. \A y \in 1 .. 8 : s[y] \in {"H", "T", "P", "/", "1", "."} BY <2>1 DEF Http11
    <2>4. \A x \in {"H", "T", "P", "/", "1", "."} : x \notin Stops BY Zenon DEF Stops, SP
    <2>5. \A y \in 1 .. Len(s) : s[y] \notin Stops BY <2>2, <2>3, <2>4
    <2> QED BY <2>2, <2>5, WithinWord
  <1>5. CASE j = 5
    <2>1. PICK s, v : s = Connection /\ v = CloseWord OBVIOUS
    <2>2. w = HeaderPiece(s, v) BY <1>5, <2>1 DEF Piece
    <2>3. /\ s \in Seq(Chars) /\ v \in Seq(Chars) /\ Len(s) > 0
          /\ \A y \in 1 .. Len(s) : s[y] \in WordChar
          /\ \A y \in 1 .. Len(v) : v[y] \in WordChar
      BY <2>1, PlainWord
    <2> QED BY <2>2, <2>3, WithinHeader
  <1>6. CASE j = 7
    <2>1. Len(w) # 0 OBVIOUS
    <2>2. m.body # <<>>
      <3>1. m.body = <<>> => w = <<>> BY <1>6 DEF Piece
      <3> QED BY <2>1, <3>1
    <2>3. PICK s, v : s = ContentLength /\ v = <<DigitOf(Len(m.body))>> OBVIOUS
    <2>4. w = HeaderPiece(s, v) BY <1>6, <2>2, <2>3 DEF Piece
    <2>5. s \in Seq(Chars) /\ Len(s) > 0 /\ \A y \in 1 .. Len(s) : s[y] \in WordChar
      BY <2>3, PlainWord
    <2>6. v \in Seq(Chars) /\ \A y \in 1 .. Len(v) : v[y] \in WordChar
      <3>1. DigitOf(Len(m.body)) \in Digit BY DigitOfType DEF IsRequest
      <3>2. PICK x : x = DigitOf(Len(m.body)) /\ x \in Chars /\ x \in WordChar
        BY <3>1 DEF Chars, WordChar
      <3> QED BY <2>3, <3>2
    <2> QED BY <2>4, <2>5, <2>6, WithinHeader
  <1>7. CASE j \in {4, 6, 8, 9, 10}
    <2>1. w = <<>> \/ w = <<"CR">> \/ w = <<"LF">> BY <1>7 DEF Piece
    <2>2. Len(w) \in {0, 1}
      <3>1. Len(<<>>) = 0 /\ Len(<<"CR">>) = 1 /\ Len(<<"LF">>) = 1 OBVIOUS
      <3> QED BY <2>1, <3>1, Zenon
    <2>3. PICK n : n = Len(w) OBVIOUS
    <2>4. n \in {0, 1} /\ l < n BY <2>2, <2>3, Zenon
    <2>5. FALSE BY <2>4
    <2> QED BY <2>5
  <1> QED BY <1>1, <1>2, <1>3, <1>4, <1>5, <1>6, <1>7

\* The history variable torn notices it.
LEMMA EndsInside ==
  ASSUME NEW c, NEW pos, NEW w, PieceAt(Text[c], pos, w), NEW l \in Nat, l > 0, l < Len(w),
         Within(w, l)
  PROVE  InsideWord(c, pos + l)
  <1>1. pos \in Nat /\ Len(w) \in Nat /\ \A y \in 1 .. Len(w) : Text[c][pos + y] = w[y]
    BY LenProperties DEF PieceAt
  <1>2. l \in 1 .. Len(w) BY <1>1
  <1>3. Text[c][pos + l] = w[l] BY <1>1, <1>2
  <1>4. CASE w[l] \notin Stops
    <2>1. w[l] # SP /\ w[l] \notin {"?", "#", "CR", "LF"} BY <1>4 DEF Stops
    <2> QED BY <1>3, <2>1 DEF InsideWord
  <1>5. CASE l > 1 /\ w[l] = SP /\ w[l - 1] = ":"
    <2>1. l - 1 \in 1 .. Len(w) /\ (pos + l) - 1 = pos + (l - 1) BY <1>1, <1>2, <1>5
    <2>2. Text[c][(pos + l) - 1] = ":" BY <1>1, <1>5, <2>1
    <2> QED BY <1>3, <1>5, <2>2 DEF InsideWord
  <1> QED BY <1>4, <1>5 DEF Within

-----------------------------------------------------------------------------
\* The length that the parser finds is the length of the body that was sent.
LEMMA DigitsDiffer ==
  \A v, n \in 0 .. 9 :
    <<"0", "1", "2", "3", "4", "5", "6", "7", "8", "9">>[v + 1] = DigitOf(n) => v = n
  BY DEF DigitOf

\* The text of a digit stands for the digit.
LEMMA NumberOfDigit ==
  ASSUME NEW n \in 0 .. 9, NEW s, s = <<DigitOf(n)>>
  PROVE  NumberOf(s) = n
  <1>1. PICK x : x = DigitOf(n) /\ x \in Digit BY DigitOfType
  <1>2. s = <<x>> /\ Len(s) = 1 /\ DOMAIN s = 1 .. 1 /\ s[1] = x BY <1>1
  <1>3. s # <<>> /\ \A k \in DOMAIN s : s[k] \in Digit BY <1>1, <1>2
  <1> DEFINE d(k) == CHOOSE v \in 0 .. 9 :
                       <<"0", "1", "2", "3", "4", "5", "6", "7", "8", "9">>[v + 1] = s[k]
  <1>4. d(1) = n
    <2>1. <<"0", "1", "2", "3", "4", "5", "6", "7", "8", "9">>[n + 1] = s[1]
      BY <1>1, <1>2 DEF DigitOf
    <2>2. PICK v : v = d(1) OBVIOUS
    <2>3. v \in 0 .. 9 /\ <<"0", "1", "2", "3", "4", "5", "6", "7", "8", "9">>[v + 1] = s[1]
      BY <2>1, <2>2, Zenon
    <2>4. v = n BY <1>1, <1>2, <2>3, DigitsDiffer
    <2> QED BY <2>2, <2>4
  <1>5. NumberOf(s) = (CHOOSE g : IsVal(g, s))[1] BY <1>2, <1>3 DEF NumberOf, IsVal
  <1>6. \A g : IsVal(g, s) <=> g = [k \in 0 .. 1 |-> IF k = 0 THEN 0 ELSE 10 * g[k - 1] + d(k)]
    BY <1>2 DEF IsVal
  <1> HIDE DEF d
  <1>7. PICK f : f = [k \in 0 .. 1 |-> IF k = 0 THEN 0 ELSE n] OBVIOUS
  <1>8. f = [k \in 0 .. 1 |-> IF k = 0 THEN 0 ELSE 10 * f[k - 1] + d(k)]
    <2>1. f[0] = 0 /\ f[1] = n BY <1>7
    <2>2. \A k \in 0 .. 1 : k = 0 \/ (k = 1 /\ k - 1 = 0) OBVIOUS
    <2>3. \A k \in 0 .. 1 : (IF k = 0 THEN 0 ELSE n) = (IF k = 0 THEN 0 ELSE 10 * f[k - 1] + d(k))
      BY <1>4, <2>1, <2>2
    <2> QED BY <1>7, <2>3
  <1>9. IsVal(f, s) BY <1>6, <1>8
  <1>10. PICK g : g = (CHOOSE z : IsVal(z, s)) /\ IsVal(g, s) BY <1>9
  <1>11. g = [k \in 0 .. 1 |-> IF k = 0 THEN 0 ELSE 10 * g[k - 1] + d(k)] BY <1>6, <1>10
  <1>12. g[0] = 0 BY <1>11
  <1>13. g[1] = 10 * g[0] + d(1)
    <2>1. 1 \in 0 .. 1 /\ 1 # 0 /\ 1 - 1 = 0 OBVIOUS
    <2> QED BY <1>11, <2>1
  <1> QED BY <1>4, <1>5, <1>10, <1>12, <1>13

\* getContentLength of a request that was understood.
LEMMA LengthSent ==
  ASSUME PlainWords, NEW m, IsRequest(m), NEW r, r.req = Seen(m)
  PROVE  GetContentLength(r) = Len(m.body)
  <1>1. PICK h : h = Seen(m).headers OBVIOUS
  <1>2. h = [x \in {Connection} \cup (IF m.body = <<>> THEN {} ELSE {ContentLength}) |->
               IF x = Connection THEN CloseWord ELSE <<DigitOf(Len(m.body))>>]
    BY <1>1 DEF Seen
  <1>3. ContentLength # Connection BY DEF PlainWords
  <1>4. CASE m.body = <<>>
    <2>1. ContentLength \notin DOMAIN h BY <1>2, <1>3, <1>4
    <2>2. Len(m.body) = 0 BY <1>4
    <2> QED BY <1>1, <2>1, <2>2 DEF GetContentLength
  <1>5. CASE m.body # <<>>
    <2>1. ContentLength \in DOMAIN h /\ h[ContentLength] = <<DigitOf(Len(m.body))>>
      BY <1>2, <1>3, <1>5
    <2>2. PICK n \in 0 .. 9 : n = Len(m.body) BY DEF IsRequest
    <2>3. NumberOf(h[ContentLength]) = n BY <2>1, <2>2, NumberOfDigit
    <2> QED BY <1>1, <2>1, <2>2, <2>3 DEF GetContentLength
  <1> QED BY <1>4, <1>5

-----------------------------------------------------------------------------
\* Between two pieces of a head it does not matter where the buffer begins.
LEMMA Rebase ==
  ASSUME PlainWords, NEW m, NEW j \in 0 .. 10, NEW p, NEW base \in Nat, Follow(p, m, j, 0, base)
  PROVE  Follow(p, m, j, 0, 0)
  <1>1. p.error = 0 /\ p.json = FALSE /\ p.req = RequestAt(m, j) /\ InPiece(p, j, 0, base) BY DEF Follow
  <1>2. Len(Connection) \in Nat /\ Len(ContentLength) \in Nat BY PlainWord
  <1>3. \A n \in Nat : InHeader(p, n, 0, base) => InHeader(p, n, 0, 0) BY DEF InHeader
  <1>4. InPiece(p, j, 0, 0)
    BY <1>1, <1>2, <1>3 DEF InPiece, InMethod, InPath, InQuery, InVersion
  <1> QED BY <1>1, <1>4 DEF Follow

\* close, for another reason than a bad request.
LEMMA CloseTracked ==
  ASSUME NEW c, NEW r, NEW why, why # "parse", NEW s, s = CloseSession(r, why)
  PROVE  TrackedConn(s, c)
  <1>1. s.pc = "closed" /\ s.why = why BY DEF CloseSession, NoConn
  <1> QED BY <1>1 DEF TrackedConn, Tracked

\* A step that is not about the request.
LEMMA SameTracked ==
  ASSUME NEW c, NEW r, TrackedConn(r, c), NEW s,
         s.p = r.p, s.fix = r.fix, s.req = r.req, s.taken = r.taken, s.why = r.why,
         s.from = r.from, s.upto = r.upto, s.torn = r.torn,
         s.pc = r.pc \/ (r.pc = "dispatch" /\ s.pc = "send")
  PROVE  TrackedConn(s, c)
  <1>1. s.pc # "closed" => s.why = "none" BY DEF TrackedConn
  <1>2. ASSUME NEW k \in DOMAIN Script[c], s.from = StartOf(c, k), ~s.torn,
               s.pc \notin {"idle", "accept"}
        PROVE  Tracked(s, c, k)
    <2>1. Tracked(r, c, k) BY <1>2 DEF TrackedConn
    <2>2. s.pc = "recv" => InHead(s, Script[c][k], StartOf(c, k)) BY <2>1 DEF Tracked, InHead
    <2>3. s.pc \in {"body", "dispatch", "send"} => InBody(s, Script[c][k], HeadEnd(c, k))
      BY <2>1 DEF Tracked, InBody
    <2>4. s.why = "parse" => ~s.p.relaxed /\ HasMoreDelims(Script[c][k]) BY <2>1 DEF Tracked
    <2> QED BY <2>2, <2>3, <2>4 DEF Tracked
  <1> QED BY <1>1, <1>2 DEF TrackedConn

\* recvRequest is entered.
LEMMA NewTracked ==
  ASSUME PlainScript, NEW c \in Conns, NEW r, TrackedConn(r, c), DOMAIN r = ConnFields,
         r.pc # "closed", r.taken \in Nat, NEW relaxed, NEW s, s = NewRequest(r, relaxed)
  PROVE  TrackedConn(s, c)
  <1>1. PICK q : q = NewParser(relaxed) OBVIOUS
  <1>2. /\ s.pc = "recv" /\ s.p = q /\ s.taken = r.taken /\ s.from = r.taken /\ s.why = r.why
    BY <1>1 DEF NewRequest, ConnFields
  <1>3. s.why = "none" BY <1>2 DEF TrackedConn
  <1>4. ASSUME NEW k \in DOMAIN Script[c], s.from = StartOf(c, k) PROVE Tracked(s, c, k)
    <2>1. PICK m : m = Script[c][k] OBVIOUS
    <2>2. PICK start : start = StartOf(c, k) OBVIOUS
    <2>3. IsRequest(m) BY <2>1, TextLayout
    <2>4. Offset(m, 0) = 0 BY <2>3, HeadPieces
    <2>5. s.taken = start + Offset(m, 0) BY <1>2, <1>4, <2>2, <2>4
    <2>6. Len(Piece(m, 0)) > 0
      <3>1. 0 \in 0 .. 10 OBVIOUS
      <3>2. Len(Piece(m, 0)) \in Nat /\ Len(Piece(m, 0)) # 0 BY <2>3, <3>1, PieceType
      <3> QED BY <3>2
    <2>7. Follow(q, m, 0, 0, 0)
      <3>1. q.error = 0 /\ q.json = FALSE /\ q.req = NoRequest /\ q.cs = "start"
        BY <1>1 DEF NewParser
      <3>2. NoRequest = RequestAt(m, 0) BY DEF NoRequest, RequestAt, HeadersAt
      <3>3. InPiece(q, 0, 0, 0) BY <3>1 DEF InPiece, InMethod
      <3> QED BY <3>1, <3>2, <3>3 DEF Follow
    <2>8. InHead(s, m, start)
      <3>1. 0 \in 0 .. 10 OBVIOUS
      <3> QED BY <1>2, <2>5, <2>6, <2>7, <3>1 DEF InHead
    <2> QED BY <1>2, <1>3, <2>1, <2>2, <2>8 DEF Tracked
  <1> QED BY <1>2, <1>3, <1>4 DEF TrackedConn

-----------------------------------------------------------------------------
\* The head has been parsed.
Parsed(r, m, got, end) ==
  /\ DOMAIN r = ConnFields /\ r.fix = NoFix /\ r.p.req = Seen(m)
  /\ Len(got) \in Nat /\ end \in Nat /\ r.taken = end + Len(got)
\* recvRequest finds the beginning of the body in what is left of the buffer.
LEMMA HeadDoneTracked ==
  ASSUME PlainWords, NEW m, IsRequest(m), NEW r, NEW got, NEW end, Parsed(r, m, got, end),
         NEW s, s = HeadDone(r, got)
  PROVE  InBody(s, m, end) /\ s.pc \in {"body", "dispatch"} /\ s.why = r.why
  <1>0. PICK q, n : /\ DOMAIN r = ConnFields /\ r.fix = NoFix /\ q = r.p /\ q.req = Seen(m)
                    /\ n = Len(got) /\ n \in Nat /\ end \in Nat /\ r.taken = end + n
    BY DEF Parsed
  <1>1. PICK length : length = GetContentLength(q) OBVIOUS
  <1>2. length = Len(m.body) /\ length \in Nat BY <1>0, <1>1, LengthSent DEF IsRequest
  <1>3. r.taken \in Nat BY <1>0
  <1>4. CASE length > n
    <2>1. PICK f : f = FixStart(length, got) OBVIOUS
    <2>2. /\ s.pc = "body" /\ s.req = Seen(m) /\ s.upto = r.taken /\ s.taken = r.taken /\ s.fix = f
          /\ s.why = r.why
      BY <1>0, <1>1, <1>3, <1>4, <2>1 DEF HeadDone, ConnFields
    <2>3. /\ f.at = n /\ f.buf = [k \in 1 .. length |-> IF k <= n THEN got[k] ELSE "NUL"]
      BY <1>0, <1>3, <2>1 DEF FixStart, NoFix
    <2>4. f.buf # <<>>
      <3>1. 1 \in DOMAIN f.buf BY <1>0, <1>2, <1>4, <2>3
      <3>2. DOMAIN <<>> = {} OBVIOUS
      <3> QED BY <3>1, <3>2
    <2>5. r.taken < end + length /\ r.taken - n = end BY <1>0, <1>2, <1>3, <1>4
    <2>6. s.upto < end + Len(m.body) /\ s.taken - s.fix.at = end BY <1>2, <2>2, <2>3, <2>5
    <2>7. s.fix.buf # <<>> BY <2>2, <2>4
    <2>8. InBody(s, m, end) BY <1>3, <2>2, <2>6, <2>7 DEF InBody
    <2> QED BY <2>2, <2>8
  <1>5. CASE ~(length > n)
    <2>1. /\ s.pc = "dispatch" /\ s.req = Seen(m) /\ s.upto = r.taken /\ s.fix = NoFix
          /\ s.why = r.why
      BY <1>0, <1>1, <1>3, <1>5 DEF HeadDone, ConnFields
    <2>2. s.fix.buf = <<>> BY <2>1 DEF NoFix
    <2>3. r.taken >= end + length BY <1>0, <1>2, <1>3, <1>5
    <2>4. s.upto >= end + Len(m.body) BY <1>2, <2>1, <2>3
    <2>5. InBody(s, m, end) BY <1>3, <2>1, <2>2, <2>4 DEF InBody
    <2> QED BY <2>1, <2>5
  <1> QED BY <1>4, <1>5

\* One read of a head, when the session began at the request m.
LEMMA ReceivedHead ==
  ASSUME PlainScript, NEW c \in Conns, NEW k \in DOMAIN Script[c], NEW m, m = Script[c][k],
         NEW r, DOMAIN r = ConnFields, r.pc = "recv", r.why = "none", r.fix = NoFix,
         ParserShape(r.p), r.taken \in Nat, InHead(r, m, StartOf(c, k)),
         NEW size \in Nat, r.taken + size <= Len(Text[c]),
         NEW b, b = SubSeq(Text[c], r.taken + 1, r.taken + size), NEW x, x = Execute(r.p, b),
         NEW s, s = Received(r, b, x, InsideWord(c, r.taken + size)), ~s.torn
  PROVE  Tracked(s, c, k)
  <1>0. PICK t, start, end, taken, p, inside :
          /\ t = Text[c] /\ start = StartOf(c, k) /\ end = HeadEnd(c, k) /\ taken = r.taken
          /\ p = r.p /\ inside = InsideWord(c, r.taken + size)
    OBVIOUS
  <1>1. /\ PlainWords /\ Plain(m) BY DEF PlainScript
  <1>2. /\ IsRequest(m) /\ start \in Nat /\ end \in Nat /\ end = start + Offset(m, 11)
        /\ \A j \in 0 .. 10 : PieceAt(t, start + Offset(m, j), Piece(m, j))
    BY <1>0, TextLayout
  <1>3. t \in Seq(Chars) /\ Len(t) \in Nat /\ taken \in Nat /\ taken + size <= Len(t) BY <1>0, TextOf
  <1>4. b = SubSeq(t, taken + 1, taken + size) /\ x = Execute(p, b) /\ ParserShape(p) BY <1>0
  <1>5. Len(b) = size BY <1>3, <1>4, ReadIsText, SMTT(60)
  <1>6. InRun(x, m, start, taken, size)
    <2>1. PICK j \in 0 .. 10 : /\ taken = start + Offset(m, j) /\ Len(Piece(m, j)) > 0
                               /\ Follow(p, m, j, 0, 0)
      BY <1>0 DEF InHead
    <2>2. InRun(Execute(p, b), m, start, taken, size)
      BY <1>1, <1>2, <1>3, <1>4, <2>1, ExecuteTracks
    <2> QED BY <1>4, <2>2
  <1>7. PICK u : u = [r EXCEPT !.p = x.p, !.taken = r.taken + Len(b)] OBVIOUS
  <1>8. /\ DOMAIN u = ConnFields /\ u.p = x.p /\ u.taken = taken + size /\ u.pc = "recv"
        /\ u.why = "none" /\ u.fix = NoFix /\ u.torn = r.torn
    BY <1>0, <1>5, <1>7 DEF ConnFields
  <1>9. \A why : why # "parse" /\ s = CloseSession(u, why) => Tracked(s, c, k)
    BY ZenonT(60) DEF CloseSession, NoConn, Tracked
  <1>10. CASE Refused(x.p, m)
    <2>1. HasError(x.p) /\ ~x.p.relaxed /\ HasMoreDelims(m) BY <1>10 DEF Refused, HasError
    <2>2. s = CloseSession(u, "parse") BY <1>7, <2>1 DEF Received
    <2>3. s.pc = "closed" /\ s.p = NewParser(x.p.relaxed)
      <3>1. PICK v : v = NewParser(u.p.relaxed) OBVIOUS
      <3>2. s.pc = "closed" /\ s.p = v BY <2>2, <3>1 DEF CloseSession, NoConn
      <3> QED BY <1>8, <3>1, <3>2, Zenon
    <2>4. ~s.p.relaxed
      <3>1. s.p.relaxed = x.p.relaxed BY <2>3 DEF NewParser
      <3> QED BY <2>1, <3>1, Zenon
    <2> QED BY <2>1, <2>3, <2>4 DEF Tracked
  <1>11. CASE Midway(x, m, start, taken, size)
    <2>1. PICK j \in 0 .. 10, base \in Nat, l \in Nat :
            /\ x.n = size /\ size = base + l /\ l < Len(Piece(m, j))
            /\ taken + base = start + Offset(m, j) /\ Follow(x.p, m, j, l, base)
      BY <1>11 DEF Midway
    <2>2. PICK q : q = x.p OBVIOUS
    <2>3. ~Threw(q) /\ ~HasError(q) /\ ~IsFinished(q) BY <1>1, <2>1, <2>2, FollowRuns
    <2>4. PICK z : z = [u EXCEPT !.torn = @ \/ inside] OBVIOUS
    <2>5. s = CloseSession(u, "full") \/ s = z
      BY <1>0, <1>7, <2>2, <2>3, <2>4 DEF Received
    <2>6. CASE s = CloseSession(u, "full") BY <1>9, <2>6
    <2>7. CASE s = z
      <3>1. /\ s.pc = "recv" /\ s.p = q /\ s.taken = taken + size /\ s.why = "none"
            /\ s.torn = (u.torn \/ inside)
        BY <1>8, <2>2, <2>4, <2>7 DEF ConnFields
      <3>2. ~inside BY <3>1, Zenon
      <3>3. l = 0
        <4> SUFFICES ASSUME l # 0 PROVE FALSE OBVIOUS
        <4>1. PICK w, pos : w = Piece(m, j) /\ pos = start + Offset(m, j) OBVIOUS
        <4>2. PieceAt(t, pos, w) BY <1>2, <4>1
        <4>3. l > 0 /\ l < Len(w)
          <5>1. l > 0 OBVIOUS
          <5> QED BY <2>1, <4>1, <5>1, Zenon
        <4>4. Within(w, l) BY <1>1, <1>2, <4>1, <4>3, WithinPiece
        <4>5. InsideWord(c, pos + l) BY <1>0, <4>2, <4>3, <4>4, EndsInside
        <4>6. pos + l = r.taken + size
          <5>1. pos = taken + base BY <2>1, <4>1, Zenon
          <5>2. taken + base + l = taken + (base + l) BY <1>3
          <5> QED BY <1>0, <2>1, <5>1, <5>2, Zenon
        <4>7. inside BY <1>0, <4>5, <4>6, Zenon
        <4> QED BY <3>2, <4>7, Zenon
      <3>4. Follow(q, m, j, 0, 0) BY <1>1, <2>1, <2>2, <3>3, Rebase
      <3>5. size = base BY <2>1, <3>3
      <3>6. s.taken = start + Offset(m, j) BY <2>1, <3>1, <3>5
      <3>7. Len(Piece(m, j)) > 0 BY <2>1, <3>3
      <3>8. InHead(s, m, start) BY <3>1, <3>4, <3>6, <3>7 DEF InHead
      <3> QED BY <1>0, <3>1, <3>8 DEF Tracked
    <2> QED BY <2>5, <2>6, <2>7
  <1>12. CASE Finished(x, m, start, taken, size)
    <2>1. PICK q, n : q = x.p /\ n = x.n OBVIOUS
    <2>2. n \in 1 .. size /\ taken + n = start + Offset(m, 11) /\ Follow(q, m, 11, 0, n)
      BY <1>12, <2>1 DEF Finished
    <2>3. q.error = 0 /\ q.cs = "done" /\ q.req = RequestAt(m, 11) BY <2>2 DEF Follow, InPiece
    <2>4. ~Threw(q) /\ ~HasError(q) /\ IsFinished(q) BY <2>3 DEF Threw, HasError, IsFinished
    <2>5. PICK got : got = SubSeq(b, n + 1, Len(b)) OBVIOUS
    <2>6. s = CloseSession(u, "full") \/ s = HeadDone(u, got)
      BY <1>7, <2>1, <2>4, <2>5 DEF Received
    <2>7. CASE s = CloseSession(u, "full") BY <1>9, <2>7
    <2>8. CASE s = HeadDone(u, got)
      <3>1. RequestAt(m, 11) = Seen(m) BY DEF RequestAt, HeadersAt, Seen
      <3>2. u.p.req = Seen(m) BY <1>8, <2>1, <2>3, <3>1
      <3>3. PICK e \in Nat : e = size - n /\ n + e = size BY <2>2
      <3>4. Len(got) = e
        <4>1. b \in Seq(Chars) BY <1>3, <1>4, ReadIsText
        <4>2. n \in Nat /\ n + e <= Len(b) /\ got = SubSeq(b, n + 1, n + e)
          BY <1>5, <2>2, <2>5, <3>3
        <4> QED BY <4>1, <4>2, ReadIsText
      <3>5. taken + size = end + e
        <4>1. taken + n = end BY <1>2, <2>2, Zenon
        <4> QED BY <1>3, <2>2, <3>3, <4>1
      <3>6. u.taken = end + e BY <1>8, <3>5
      <3>7. e \in Nat /\ e = Len(got) /\ u.p = q /\ q.req = Seen(m) BY <1>8, <2>1, <3>2, <3>3, <3>4
      <3>8. InBody(s, m, end) /\ s.pc \in {"body", "dispatch"} /\ s.why = u.why
        <4>1. PlainWords /\ IsRequest(m) BY <1>1, <1>2
        <4>2. PICK h : h = HeadDone(u, got) OBVIOUS
        <4>3. Parsed(u, m, got, end) BY <1>2, <1>8, <3>2, <3>6, <3>7 DEF Parsed
        <4>4. InBody(h, m, end) /\ h.pc \in {"body", "dispatch"} /\ h.why = u.why
          <5>1. InBody(h, m, end) BY <4>1, <4>2, <4>3, HeadDoneTracked
          <5>2. h.pc \in {"body", "dispatch"} BY <4>1, <4>2, <4>3, HeadDoneTracked
          <5>3. h.why = u.why BY <4>1, <4>2, <4>3, HeadDoneTracked
          <5> QED BY <5>1, <5>2, <5>3
        <4> QED BY <2>8, <4>2, <4>4, Zenon
      <3> QED BY <1>0, <1>8, <3>8 DEF Tracked
    <2> QED BY <2>6, <2>7, <2>8
  <1> QED BY <1>6, <1>10, <1>11, <1>12 DEF InRun

-----------------------------------------------------------------------------
\* What a read leaves alone.
LEMMA ReceivedFields ==
  ASSUME NEW r, DOMAIN r = ConnFields, r.why = "none", NEW b, NEW x, NEW inside,
         NEW s, s = Received(r, b, x, inside)
  PROVE  /\ s.from = r.from /\ (~s.torn => ~r.torn)
         /\ s.pc # "closed" => s.why = "none"
  <1>1. PICK u : u = [r EXCEPT !.p = x.p, !.taken = r.taken + Len(b)] OBVIOUS
  <1>2. DOMAIN u = ConnFields /\ u.why = "none" /\ u.from = r.from /\ u.torn = r.torn
    BY <1>1 DEF ConnFields
  <1>3. PICK got, z : got = SubSeq(b, x.n + 1, Len(b)) /\ z = [u EXCEPT !.torn = @ \/ inside]
    OBVIOUS
  <1>4. \/ s \in {CloseSession(u, "parse"), CloseSession(u, "full")}
        \/ s = HeadDone(u, got) \/ s = z
    BY <1>1, <1>3 DEF Received
  <1>5. CASE s \in {CloseSession(u, "parse"), CloseSession(u, "full")}
    <2>1. s.pc = "closed" /\ s.from = u.from /\ s.torn = u.torn BY <1>5 DEF CloseSession, NoConn
    <2> QED BY <1>2, <2>1, Zenon
  <1>6. CASE s = HeadDone(u, got)
    <2>1. s.from = u.from /\ s.torn = u.torn /\ s.why = u.why BY <1>2, <1>6 DEF HeadDone, ConnFields
    <2> QED BY <1>2, <2>1, Zenon
  <1>7. CASE s = z
    <2>1. s.from = u.from /\ s.torn = (u.torn \/ inside) /\ s.why = u.why
      BY <1>2, <1>3, <1>7 DEF ConnFields
    <2> QED BY <1>2, <2>1, Zenon
  <1> QED BY <1>4, <1>5, <1>6, <1>7

\* One round of recvRequest's loop, wherever the session began.
LEMMA ReceivedTracked ==
  ASSUME PlainScript, NEW c \in Conns, NEW r, SessionOK(r, Text[c]), TrackedConn(r, c), r.pc = "recv",
         NEW size \in Nat, r.taken + size <= r.sent,
         NEW b, b = SubSeq(Text[c], r.taken + 1, r.taken + size), NEW x, x = Execute(r.p, b),
         NEW s, s = Received(r, b, x, InsideWord(c, r.taken + size))
  PROVE  TrackedConn(s, c)
  <1>1. /\ DOMAIN r = ConnFields /\ ParserShape(r.p) /\ r.sent \in Nat /\ r.taken \in Nat
        /\ r.sent <= Len(Text[c]) /\ r.fix = NoFix
    BY DEF SessionOK, Idling
  <1>2. r.why = "none" BY DEF TrackedConn
  <1>3. r.taken + size <= Len(Text[c])
    <2>1. Len(Text[c]) \in Nat BY TextOf
    <2> QED BY <1>1, <2>1
  <1>4. PICK inside : inside = InsideWord(c, r.taken + size) OBVIOUS
  <1>5. /\ s.from = r.from /\ (~s.torn => ~r.torn)
        /\ s.pc # "closed" => s.why = "none"
    BY <1>1, <1>2, <1>4, ReceivedFields
  <1>6. ASSUME NEW k \in DOMAIN Script[c], s.from = StartOf(c, k), ~s.torn PROVE Tracked(s, c, k)
    <2>1. r.from = StartOf(c, k) /\ ~r.torn BY <1>5, <1>6, Zenon
    <2>2. Tracked(r, c, k) BY <2>1 DEF TrackedConn
    <2>3. PICK m : m = Script[c][k] OBVIOUS
    <2>4. InHead(r, m, StartOf(c, k)) BY <2>2, <2>3 DEF Tracked
    <2> QED BY <1>1, <1>2, <1>3, <1>6, <2>3, <2>4, ReceivedHead
  <1> QED BY <1>5, <1>6 DEF TrackedConn

\* More of a body.
LEMMA BodyTracked ==
  ASSUME NEW c, NEW t \in Seq(Chars), NEW r, SessionOK(r, t), TrackedConn(r, c), r.pc = "body",
         NEW n \in Nat, r.taken + n <= r.sent, n <= r.fix.left, NEW f,
         f = FixRead(r.fix, SubSeq(t, r.taken + 1, r.taken + n)), NEW s,
         s = [r EXCEPT !.taken = @ + n, !.fix = f, !.pc = IF f.left = 0 THEN "dispatch" ELSE @]
  PROVE  TrackedConn(s, c)
  <1>0. /\ DOMAIN r = ConnFields /\ r.sent \in Nat /\ r.taken \in Nat /\ r.sent <= Len(t)
        /\ Len(t) \in Nat
    BY LenProperties DEF SessionOK
  <1>1. PICK e, taken, b : e = r.fix /\ taken = r.taken /\ b = SubSeq(t, r.taken + 1, r.taken + n)
    OBVIOUS
  <1>2. taken \in Nat /\ taken + n <= Len(t) BY <1>0, <1>1
  <1>3. Len(b) = n BY <1>1, <1>2, ReadIsText, ZenonT(60)
  <1>4. FixOK(e) BY <1>1 DEF SessionOK
  <1>5. DOMAIN e = FixFields /\ e.at \in Int /\ e.buf \in Seq(Chars) BY <1>4 DEF FixOK
  <1>6. f.at = e.at + n /\ f.late = e.late
        /\ f.buf = [k \in DOMAIN e.buf |-> IF k - e.at \in DOMAIN b THEN b[k - e.at] ELSE e.buf[k]]
    BY <1>1, <1>3, <1>5 DEF FixRead, FixFields
  <1>7. f.buf = <<>> <=> e.buf = <<>>
    <2>1. DOMAIN f.buf = DOMAIN e.buf BY <1>6
    <2>2. e.buf = <<>> <=> DOMAIN e.buf = {}
      <3>1. Len(e.buf) \in Nat /\ DOMAIN e.buf = 1 .. Len(e.buf) BY <1>5, LenProperties
      <3>2. e.buf = <<>> <=> Len(e.buf) = 0 BY <1>5, EmptySeq
      <3>3. \A y \in Nat : 1 .. y = {} <=> y = 0
        <4>1. \A y \in Nat : y # 0 => 1 \in 1 .. y OBVIOUS
        <4>2. 1 .. 0 = {} OBVIOUS
        <4> QED BY <4>1, <4>2
      <3> QED BY <3>1, <3>2, <3>3, Zenon
    <2>3. e.buf = <<>> => f.buf = <<>>
      <3>1. e.buf = <<>> => DOMAIN f.buf = {} BY <2>1, <2>2
      <3>2. DOMAIN f.buf = {} => f.buf = [k \in {} |-> f.buf[k]] BY <1>6
      <3>3. [k \in {} |-> f.buf[k]] = <<>> OBVIOUS
      <3> QED BY <3>1, <3>2, <3>3
    <2>4. f.buf = <<>> => DOMAIN f.buf = {} OBVIOUS
    <2> QED BY <2>1, <2>2, <2>3, <2>4
  <1>8. /\ s.p = r.p /\ s.req = r.req /\ s.taken = taken + n /\ s.fix = f /\ s.why = r.why
        /\ s.from = r.from /\ s.torn = r.torn /\ s.upto = r.upto
        /\ s.pc = IF f.left = 0 THEN "dispatch" ELSE "body"
    BY <1>0, <1>1 DEF ConnFields
  <1>9. r.why = "none" BY DEF TrackedConn
  <1>10. ASSUME NEW k \in DOMAIN Script[c], s.from = StartOf(c, k), ~s.torn PROVE Tracked(s, c, k)
    <2>1. Tracked(r, c, k) BY <1>8, <1>10 DEF TrackedConn
    <2>2. PICK m, end : m = Script[c][k] /\ end = HeadEnd(c, k) OBVIOUS
    <2>3. InBody(r, m, end) BY <2>1, <2>2 DEF Tracked
    <2>4. /\ r.req = Seen(m) /\ r.upto \in Nat
          /\ e.late = 0 /\ e.buf = <<>> => r.upto >= end + Len(m.body)
          /\ e.late = 0 /\ e.buf # <<>> => r.upto < end + Len(m.body) /\ taken - e.at = end
      BY <1>1, <2>3 DEF InBody
    <2>5. (taken + n) - f.at = taken - e.at BY <1>2, <1>5, <1>6
    <2>6. InBody(s, m, end)
      <3>1. s.req = Seen(m) /\ s.upto \in Nat BY <1>8, <2>4
      <3>2. f.late = 0 /\ f.buf = <<>> => s.upto >= end + Len(m.body) BY <1>6, <1>7, <1>8, <2>4
      <3>3. f.late = 0 /\ f.buf # <<>> => s.upto < end + Len(m.body) /\ s.taken - f.at = end
        BY <1>6, <1>7, <1>8, <2>4, <2>5
      <3> QED BY <1>8, <3>1, <3>2, <3>3 DEF InBody
    <2> QED BY <1>8, <1>9, <2>2, <2>6 DEF Tracked
  <1> QED BY <1>8, <1>9, <1>10 DEF TrackedConn

\* A read of it that failed.
LEMMA BodyErrorTracked ==
  ASSUME NEW c, NEW t, NEW r, SessionOK(r, t), TrackedConn(r, c), r.pc = "body", NEW s,
         s = [AfterRead(r) EXCEPT !.fix = FixError(@)]
  PROVE  TrackedConn(s, c)
  <1>0. DOMAIN r = ConnFields BY DEF SessionOK
  <1>1. PICK e, f, u : e = r.fix /\ f = FixError(e) /\ u = AfterRead(r) OBVIOUS
  <1>2. /\ DOMAIN u = ConnFields /\ u.p = r.p /\ u.req = r.req /\ u.taken = r.taken
        /\ u.fix = r.fix /\ u.pc = r.pc /\ u.why = r.why /\ u.from = r.from /\ u.torn = r.torn
        /\ u.upto = r.upto
    BY <1>0, <1>1 DEF AfterRead, ConnFields
  <1>3. /\ s.p = r.p /\ s.req = r.req /\ s.fix = f /\ s.pc = "body" /\ s.why = r.why
        /\ s.from = r.from /\ s.torn = r.torn /\ s.upto = r.upto
    BY <1>1, <1>2 DEF ConnFields
  <1>4. f.late # 0
    <2>1. DOMAIN e = FixFields /\ e.late \in Nat BY <1>1 DEF SessionOK, FixOK
    <2>2. f.late = e.late + 1 BY <1>1, <2>1 DEF FixError, FixFields
    <2> QED BY <2>1, <2>2
  <1>5. r.why = "none" BY DEF TrackedConn
  <1>6. ASSUME NEW k \in DOMAIN Script[c], s.from = StartOf(c, k), ~s.torn PROVE Tracked(s, c, k)
    <2>1. Tracked(r, c, k) BY <1>3, <1>6 DEF TrackedConn
    <2>2. PICK m, end : m = Script[c][k] /\ end = HeadEnd(c, k) OBVIOUS
    <2>3. InBody(r, m, end) BY <2>1, <2>2 DEF Tracked
    <2>4. InBody(s, m, end) BY <1>3, <1>4, <2>3 DEF InBody
    <2> QED BY <1>3, <1>5, <2>2, <2>4 DEF Tracked
  <1> QED BY <1>3, <1>5, <1>6 DEF TrackedConn

-----------------------------------------------------------------------------
\* Every connection.
LEMMA PutTracked ==
  ASSUME Sessions, Tracks, NEW c \in Conns, NEW s, TrackedConn(s, c), Put(c, s)
  PROVE  Tracks'
  <1>1. conn' = [conn EXCEPT ![c] = s] BY DEF Put
  <1>2. ASSUME NEW d \in Conns PROVE TrackedConn(conn'[d], d)
    <2>1. CASE d = c BY <1>1, <2>1 DEF Sessions
    <2>2. CASE d # c
      <3>1. conn'[d] = conn[d] BY <1>1, <2>2 DEF Sessions
      <3> QED BY <3>1 DEF Tracks
    <2> QED BY <2>1, <2>2
  <1> QED BY <1>2 DEF Tracks

\* The same as a step of the server,
LEMMA RecvHeadTracked ==
  ASSUME PlainScript, Sessions, Tracks, NEW c \in Conns, RecvHead(c)
  PROVE  Tracks'
  <1>1. PICK r, t : r = conn[c] /\ t = Text[c] OBVIOUS
  <1>2. SessionOK(r, t) /\ TrackedConn(r, c) /\ r.sent \in Nat /\ r.taken \in Nat
    BY <1>1 DEF Sessions, SessionOK, Tracks
  <1>3. BufSize \in Nat BY SessionAssumption, Zenon DEF SessionAssumption
  <1>4. PICK size : size = IF r.sent - r.taken < BufSize THEN r.sent - r.taken ELSE BufSize
    OBVIOUS
  <1>5. /\ r.pc = "recv" /\ size > 0
        /\ \E b \in {SubSeq(t, r.taken + 1, r.taken + size)} : \E x \in {Execute(r.p, b)} :
             Put(c, Received(r, b, x, InsideWord(c, r.taken + size)))
    BY <1>1, <1>4 DEF RecvHead
  <1>6. size \in Nat /\ r.taken + size <= r.sent BY <1>2, <1>3, <1>4, <1>5
  <1>7. PICK b, x :
          /\ b = SubSeq(t, r.taken + 1, r.taken + size) /\ x = Execute(r.p, b)
          /\ Put(c, Received(r, b, x, InsideWord(c, r.taken + size)))
    BY <1>5
  <1>8. PICK s : s = Received(r, b, x, InsideWord(c, r.taken + size)) OBVIOUS
  <1>9. TrackedConn(s, c) BY <1>1, <1>2, <1>5, <1>6, <1>7, <1>8, ReceivedTracked
  <1>10. Put(c, s) BY <1>7, <1>8
  <1> QED BY <1>9, <1>10, PutTracked

\* one read of a body,
LEMMA RecvBodyTracked ==
  ASSUME Sessions, Tracks, NEW c \in Conns, RecvBody(c)
  PROVE  Tracks'
  <1>0. Text[c] \in Seq(Chars) BY TextOf
  <1>1. PICK r, t : r = conn[c] /\ t = Text[c] OBVIOUS
  <1>2. /\ SessionOK(r, t) /\ TrackedConn(r, c) /\ r.sent \in Nat /\ r.taken \in Nat
        /\ r.taken <= r.sent /\ r.fix.left \in Nat
    BY <1>1 DEF Sessions, SessionOK, FixOK, Tracks
  <1>3. PICK n : n = IF r.sent - r.taken < r.fix.left THEN r.sent - r.taken ELSE r.fix.left
    OBVIOUS
  <1>4. PICK f : f = FixRead(r.fix, SubSeq(t, r.taken + 1, r.taken + n)) OBVIOUS
  <1>5. PICK s : s = [r EXCEPT !.taken = @ + n, !.fix = f,
                               !.pc = IF f.left = 0 THEN "dispatch" ELSE @]
    OBVIOUS
  <1>6. r.pc = "body" /\ Put(c, s) BY <1>1, <1>3, <1>4, <1>5 DEF RecvBody
  <1>7. n \in Nat /\ r.taken + n <= r.sent /\ n <= r.fix.left BY <1>2, <1>3
  <1>8. t \in Seq(Chars) BY <1>0, <1>1
  <1>9. TrackedConn(s, c) BY <1>2, <1>4, <1>5, <1>6, <1>7, <1>8, BodyTracked
  <1> QED BY <1>6, <1>9, PutTracked

\* and a read that returns nothing or fails.
LEMMA EndsTracked ==
  ASSUME Sessions, Tracks, NEW c \in Conns, NEW timeout \in BOOLEAN,
         RecvHeadEnds(c, timeout) \/ RecvBodyEnds(c, timeout)
  PROVE  Tracks'
  <1>1. PICK r, t : r = conn[c] /\ t = Text[c] OBVIOUS
  <1>2. SessionOK(r, t) /\ TrackedConn(r, c) BY <1>1 DEF Sessions, Tracks
  <1>3. ASSUME NEW why, why # "parse", Put(c, CloseSession(r, why)) PROVE Tracks'
    <2>1. PICK s : s = CloseSession(r, why) OBVIOUS
    <2>2. TrackedConn(s, c) BY <1>3, <2>1, CloseTracked
    <2> QED BY <1>3, <2>1, <2>2, PutTracked
  <1>4. CASE RecvHeadEnds(c, timeout)
    <2>1. PICK why : why \in {"timeout", "eof"} /\ Put(c, CloseSession(r, why))
      BY <1>1, <1>4 DEF RecvHeadEnds
    <2>2. why # "parse" BY <2>1
    <2> QED BY <1>3, <2>1, <2>2
  <1>5. CASE RecvBodyEnds(c, timeout)
    <2>1. PICK s : s = [AfterRead(r) EXCEPT !.fix = FixError(@)] OBVIOUS
    <2>2. r.pc = "body" /\ (Put(c, s) \/ Put(c, CloseSession(r, "eof")))
      BY <1>1, <1>5, <2>1 DEF RecvBodyEnds
    <2>3. TrackedConn(s, c) BY <1>2, <2>1, <2>2, BodyErrorTracked
    <2> QED BY <1>3, <2>2, <2>3, PutTracked
  <1> QED BY <1>4, <1>5

\* A client's step, and one that leaves the session alone.
LEMMA ClientTracked ==
  ASSUME Sessions, Tracks, NEW c \in Conns, Client(c) \/ ClientResets(c)
  PROVE  Tracks'
  <1>1. PICK r : r = conn[c] OBVIOUS
  <1>2. TrackedConn(r, c) /\ DOMAIN r = ConnFields BY <1>1 DEF Sessions, SessionOK, Tracks
  <1>3. PICK s : Put(c, s) /\ (\/ \E n : s = [r EXCEPT !.sent = @ + n, !.sends = @ + 1]
                               \/ \E how : s = [r EXCEPT !.peer = how]
                               \/ \E n : s = [r EXCEPT !.queued = @ - n])
    BY <1>1 DEF Client, ClientResets, Send, PeerReads, PeerClose, PeerResets
  <1>4. /\ s.p = r.p /\ s.fix = r.fix /\ s.req = r.req /\ s.taken = r.taken /\ s.why = r.why
        /\ s.from = r.from /\ s.upto = r.upto /\ s.torn = r.torn /\ s.pc = r.pc
    BY <1>2, <1>3 DEF ConnFields
  <1>5. TrackedConn(s, c) BY <1>2, <1>4, SameTracked
  <1> QED BY <1>3, <1>5, PutTracked

\* The steps of the server's worker, and the arrival of a client.
LEMMA WorkerTracked ==
  ASSUME PlainScript, Sessions, Tracks, NEW c \in Conns, Worker(c) \/ Arrive(c)
  PROVE  Tracks'
  <1>1. PICK r, t : r = conn[c] /\ t = Text[c] OBVIOUS
  <1>2. TrackedConn(r, c) /\ DOMAIN r = ConnFields /\ r.taken \in Nat
    BY <1>1 DEF Sessions, SessionOK, Tracks
  <1>3. CASE SessionRead(c) \/ RecvTimeout(c)
    BY <1>3, RecvHeadTracked, RecvBodyTracked, EndsTracked DEF SessionRead, RecvTimeout
  <1>4. CASE HandleClient(c)
    <2>1. PICK relaxed : Put(c, NewRequest(r, relaxed)) BY <1>1, <1>4 DEF HandleClient
    <2>2. PICK s : s = NewRequest(r, relaxed) OBVIOUS
    <2>3. r.pc # "closed" BY <1>1, <1>4 DEF HandleClient
    <2>4. TrackedConn(s, c) BY <1>2, <2>2, <2>3, NewTracked
    <2> QED BY <2>1, <2>2, <2>4, PutTracked
  <1>5. CASE Arrive(c)
    <2>1. PICK s : s = [r EXCEPT !.pc = "accept"] OBVIOUS
    <2>2. Put(c, s) /\ r.pc = "idle" BY <1>1, <1>5, <2>1 DEF Arrive
    <2>3. s.pc = "accept" /\ s.why = r.why BY <1>2, <2>1 DEF ConnFields
    <2>4. s.why = "none" BY <1>2, <2>2, <2>3 DEF TrackedConn
    <2>5. TrackedConn(s, c) BY <2>3, <2>4 DEF TrackedConn
    <2> QED BY <2>2, <2>5, PutTracked
  <1>6. CASE Dispatch(c)
    <2>1. PICK slt, s : s = BeginAnswer(r, slt) /\ Put(c, s) BY <1>1, <1>6 DEF Dispatch
    <2>2. /\ s.p = r.p /\ s.fix = r.fix /\ s.req = r.req /\ s.taken = r.taken /\ s.why = r.why
          /\ s.from = r.from /\ s.upto = r.upto /\ s.torn = r.torn /\ s.pc = "send"
      BY <1>2, <2>1 DEF BeginAnswer, ConnFields
    <2>3. r.pc = "dispatch" BY <1>1, <1>6 DEF Dispatch
    <2>4. TrackedConn(s, c) BY <1>2, <2>2, <2>3, SameTracked
    <2> QED BY <2>1, <2>4, PutTracked
  <1>7. CASE SendResponse(c)
    <2>1. \/ UNCHANGED conn
          \/ \E n, relaxed : Put(c, AfterSend(SendTo(r, n), relaxed))
      BY <1>1, <1>7 DEF SendResponse
    <2>2. CASE UNCHANGED conn BY <2>2 DEF Tracks
    <2>3. ASSUME NEW n, NEW relaxed, Put(c, AfterSend(SendTo(r, n), relaxed)) PROVE Tracks'
      <3>1. PICK u, s : u = SendTo(r, n) /\ s = AfterSend(u, relaxed) OBVIOUS
      <3>2. /\ DOMAIN u = ConnFields /\ u.p = r.p /\ u.fix = r.fix /\ u.req = r.req
            /\ u.taken = r.taken /\ u.why = r.why /\ u.from = r.from /\ u.upto = r.upto
            /\ u.torn = r.torn /\ u.pc = r.pc
        BY <1>2, <3>1 DEF SendTo, ConnFields
      <3>3. TrackedConn(u, c) BY <1>2, <3>2, SameTracked
      <3>4. u.pc # "closed" /\ u.taken \in Nat
        <4>1. r.pc = "send" BY <1>1, <1>7 DEF SendResponse
        <4> QED BY <1>2, <3>2, <4>1
      <3>5. PICK again, end, why : /\ again = NewRequest(u, relaxed) /\ why = "done"
                                   /\ end = CloseSession(u, why)
        OBVIOUS
      <3>6. TrackedConn(again, c) BY <3>2, <3>3, <3>4, <3>5, NewTracked
      <3>7. why # "parse" BY <3>5
      <3>8. TrackedConn(end, c) BY <3>5, <3>7, CloseTracked
      <3>9. s \in {u, again, end} BY <3>1, <3>5 DEF AfterSend
      <3> QED BY <2>3, <3>1, <3>3, <3>6, <3>8, <3>9, PutTracked
    <2> QED BY <2>1, <2>2, <2>3
  <1> QED BY <1>3, <1>4, <1>5, <1>6, <1>7 DEF Worker

\* No step of the server loses track.
LEMMA TracksStep ==
  ASSUME PlainScript, Sessions, Tracks, [Next]_vars
  PROVE  Tracks'
  <1>1. CASE UNCHANGED conn BY <1>1 DEF Tracks
  <1>2. ASSUME NEW c \in Conns, Smash(c) PROVE Tracks'
    BY <1>1, <1>2 DEF Smash
  <1> QED BY <1>1, <1>2, WorkerTracked, ClientTracked DEF Next, vars

\* A session that began at a request of a plain script and has not been torn is
\* between two pieces of its head, or has read it, for every script and however
\* its text is cut.
THEOREM ServerTracks ==
  ASSUME PlainScript
  PROVE  Spec => []Tracks
  <1>1. Init => Tracks
    <2> SUFFICES ASSUME Init PROVE Tracks OBVIOUS
    <2>1. conn = [c \in Conns |-> NoConn]
      BY ServerAssumption DEF Init, SessionInit, Clients, ServerAssumption
    <2>2. NoConn.pc = "idle" /\ NoConn.why = "none" BY DEF NoConn
    <2>3. \A c \in Conns : TrackedConn(NoConn, c) BY <2>2 DEF TrackedConn
    <2> QED BY <2>1, <2>3 DEF Tracks
  <1>2. Tracks /\ Sessions /\ [Next]_vars => Tracks' BY TracksStep
  <1> QED BY <1>1, <1>2, ServerSessions, PTL DEF Spec

\* HandledIsSent: a servlet gets the request that the client sent.
THEOREM ServerHandledIsSent ==
  ASSUME PlainScript
  PROVE  Spec => []HandledIsSent
  <1>1. Sessions /\ Tracks => HandledIsSent
    <2> SUFFICES ASSUME Sessions, Tracks, NEW c \in Conns,
                        NEW k \in DOMAIN Script[c], Handling(c), conn[c].from = StartOf(c, k),
                        ~conn[c].torn
                 PROVE  /\ conn[c].req = Seen(Script[c][k])
                        /\ conn[c].fix.late = 0 =>
                             conn[c].fix.buf =
                               (IF conn[c].upto >= StartOf(c, k) + Len(DumpHead(Script[c][k]))
                                                   + Len(Script[c][k].body)
                                THEN <<>> ELSE Script[c][k].body)
      BY DEF HandledIsSent
    <2>1. PICK r, t, m, end : /\ r = conn[c] /\ t = Text[c] /\ m = Script[c][k]
                              /\ end = HeadEnd(c, k)
      OBVIOUS
    <2>2. SessionOK(r, t) /\ TrackedConn(r, c) BY <2>1 DEF Sessions, Tracks
    <2>3. r.pc \in {"dispatch", "send"} BY <2>1 DEF Handling
    <2>4. InBody(r, m, end) BY <2>1, <2>2, <2>3 DEF TrackedConn, Tracked
    <2>5. /\ IsRequest(m) /\ end \in Nat /\ end = StartOf(c, k) + Len(DumpHead(m))
          /\ PieceAt(t, end, m.body)
      BY <2>1, TextLayout
    <2>6. r.req = Seen(m) /\ r.upto \in Nat BY <2>4 DEF InBody
    <2>7. PICK w, f : f = r.fix /\ w = f.buf OBVIOUS
    <2>8. FixOK(f) /\ BodyOK(f, r.taken, t) /\ LengthOK(f, r) /\ f.left = 0
      BY <2>2, <2>3, <2>7 DEF SessionOK
    <2>9. ASSUME f.late = 0
          PROVE  w = (IF r.upto >= end + Len(m.body) THEN <<>> ELSE m.body)
      <3>1. CASE w = <<>>
        <4>1. r.upto >= end + Len(m.body) BY <2>4, <2>7, <2>9, <3>1 DEF InBody
        <4> QED BY <3>1, <4>1
      <3>2. CASE w # <<>>
        <4>1. r.upto < end + Len(m.body) /\ r.taken - f.at = end
          BY <2>4, <2>7, <2>9, <3>2 DEF InBody
        <4>2. PICK n \in Nat : n = Len(m.body) BY <2>5 DEF IsRequest
        <4>3. ~(r.upto >= end + Len(m.body)) BY <2>5, <2>6, <4>1, <4>2
        <4>4. w \in Seq(Chars) /\ f.at \in Int BY <2>7, <2>8 DEF FixOK
        <4>5. Len(w) \in Nat /\ Len(w) # 0 BY <3>2, <4>4, LenProperties, EmptySeq
        <4>6. Len(w) = n
          <5>1. Len(w) > 0 BY <4>5
          <5>2. Len(w) = GetContentLength(r) BY <2>7, <2>8, <5>1 DEF LengthOK
          <5>3. PlainWords BY DEF PlainScript
          <5>4. GetContentLength(r) = Len(m.body) BY <2>5, <2>6, <5>3, LengthSent
          <5> QED BY <4>2, <5>2, <5>4
        <4>7. f.at = n BY <2>7, <2>8, <4>4, <4>6 DEF FixOK
        <4>8. \A y \in 1 .. n : w[y] = t[end + y]
          BY <2>7, <2>8, <2>9, <4>1, <4>7 DEF BodyOK
        <4>9. m.body \in Seq(Chars) /\ \A y \in 1 .. n : t[end + y] = m.body[y]
          BY <2>5, <4>2 DEF PieceAt
        <4>10. PICK v : v = m.body OBVIOUS
        <4>11. \A y \in 1 .. n : w[y] = v[y] BY <4>8, <4>9, <4>10
        <4>12. w = v BY <4>2, <4>4, <4>6, <4>9, <4>10, <4>11, SeqEqual
        <4> QED BY <4>3, <4>10, <4>12
      <3> QED BY <3>1, <3>2
    <2> QED BY <2>1, <2>5, <2>6, <2>7, <2>9
  <1> QED BY <1>1, ServerSessions, ServerTracks, PTL

\* ErrorNeedsCause: a connection is given up for a bad request only with a cause.
THEOREM ServerErrorNeedsCause ==
  ASSUME PlainScript
  PROVE  Spec => []ErrorNeedsCause
  <1>1. Tracks => ErrorNeedsCause
    <2> SUFFICES ASSUME Tracks, NEW c \in Conns, conn[c].why = "parse", ~conn[c].torn,
                        NEW k \in DOMAIN Script[c], conn[c].from = StartOf(c, k)
                 PROVE  /\ ~conn[c].p.relaxed
                        /\ \E i \in DOMAIN Script[c][k].path : Script[c][k].path[i] \in MoreDelims
      BY Zenon DEF ErrorNeedsCause
    <2>1. TrackedConn(conn[c], c) BY DEF Tracks
    <2>2. conn[c].pc = "closed" BY <2>1 DEF TrackedConn
    <2>3. Tracked(conn[c], c, k) BY <2>1, <2>2 DEF TrackedConn
    <2> QED BY <2>3 DEF Tracked, HasMoreDelims
  <1> QED BY <1>1, ServerTracks, PTL
=============================================================================
