----------------------------- MODULE TcpServer -----------------------------
(***************************************************************************)
(* TcpServer: bind, start, stop and one accept fiber for each start and    *)
(* listening socket.  The fibers and the task that stop schedules run on   *)
(* the accept worker, an IOManager with Threads threads, each of which     *)
(* runs one fiber until it yields; accept waits in do_io.  What happens to *)
(* an accepted connection is up to the module that extends this one.       *)
(***************************************************************************)
EXTENDS Integers, Sequences, FiniteSets

CONSTANTS
  MaxSocks,    \* bound on the listening sockets, numbered as they are bound
  Conns,       \* the connections that clients may open
  Threads,     \* threads of the accept worker
  MaxFails,    \* bound on calls of bind in which an address fails
  MaxStarts,   \* bound on calls of start that start
  MaxStops     \* bound on calls of stop

ASSUME TcpAssumption == Threads \in Nat \ {0} /\ MaxStarts \in Nat /\ MaxSocks \in Nat

VARIABLES
  isStop,      \* m_isStop
  socks,       \* m_socks
  made,        \* how many sockets have been bound
  fails,       \* how often an address could not be bound
  open,        \* listening sockets that are open
  backlog,     \* connections the kernel has completed, for each socket
  acceptor,    \* acceptor[k, s]: the fiber of the k-th start for socket s
  tasks,       \* the accept worker's queue: stop tasks and new fibers
  closing,     \* the running stop task: sockets to do, and the one cancelled
  scheduled,   \* connections for which handleClient has been scheduled
  down,        \* the process has ended
  starts, stops,
  early,       \* history: start was called before everything had stopped
  lost         \* history: accept fibers that no stop can reach any more

tcpVars == <<isStop, socks, made, fails, open, backlog, acceptor, tasks, closing,
             scheduled, down, starts, stops, early, lost>>

Socks == 1 .. MaxSocks
Fibers == (1 .. MaxStarts) \X Socks
StopTask == <<0, 0>>
Idle == [on |-> FALSE, left |-> {}, cur |-> {}]

TcpInit ==
  /\ isStop = TRUE
  /\ socks = {} /\ made = 0 /\ fails = 0 /\ open = {} /\ scheduled = {}
  /\ backlog = [s \in Socks |-> <<>>]
  /\ acceptor = [f \in Fibers |-> "none"]
  /\ tasks = <<>>
  /\ closing = Idle
  /\ down = FALSE /\ early = FALSE /\ lost = {}
  /\ starts = 0 /\ stops = 0

\* Fibers that run, wait or will: each holds a pointer to its socket.
Active == {f \in Fibers : acceptor[f] \notin {"none", "done"}}
Holders(s) == {f \in Active : f[2] = s}
\* Fibers on a thread; they leave it at their end or by waiting.
OnThread == {f \in Fibers : acceptor[f] \in {"loop", "accept"}}
FreeThread ==
  ~down /\ Cardinality(OnThread) + (IF closing.on THEN 1 ELSE 0) < Threads

\* The sockets of which m_socks or an accept fiber has a pointer; the others
\* are destroyed and closed, their pending connections reset.
Keep(kept) ==
  /\ open' = kept
  /\ backlog' = [s \in Socks |-> IF s \in kept THEN backlog[s] ELSE <<>>]

\* bind(addrs, fails), of which n addresses can be bound and another cannot if
\* failing.  A failure drops the sockets of all calls.  The vector fails is
\* the caller's: a caller that retries with the same vector finds it not empty
\* for ever.  fresh: the overload for one address, or a caller that clears the
\* vector.
Bind(n, failing, fresh) ==
  LET failed == failing \/ (fails > 0 /\ ~fresh)
      new == (made + 1) .. (made + n)
  IN /\ ~down /\ made + n <= MaxSocks
     /\ failing => fails < MaxFails
     /\ fails' = IF failing THEN fails + 1 ELSE fails
     /\ IF failed
          THEN /\ socks' = {} /\ UNCHANGED made
               /\ Keep({s \in open : Holders(s) # {}})
               /\ lost' = lost \cup {f \in Active : f[2] \in socks}
        ELSE /\ socks' = socks \cup new /\ made' = made + n
             /\ Keep(open \cup new)
             /\ UNCHANGED lost
     /\ UNCHANGED <<isStop, acceptor, tasks, closing, scheduled, down, starts, stops, early>>

\* Nothing of an earlier start is left.
Stopped == tasks = <<>> /\ ~closing.on /\ Active = {}

\* A start that does not look at m_isStop.
StartAlways ==
  /\ ~down /\ starts < MaxStarts
  /\ isStop' = FALSE
  /\ starts' = starts + 1
  /\ acceptor' = [f \in Fibers |-> IF f[1] = starts + 1 /\ f[2] \in socks
                                     THEN "woken" ELSE acceptor[f]]
  /\ UNCHANGED <<socks, made, fails, open, backlog, tasks, closing, scheduled, down, stops,
                 early, lost>>
\* The sockets that have been bound since the stop task began: it drops them,
\* and does not wake their fibers.
Unseen ==
  IF closing.on THEN (socks \cap open) \ (closing.left \cup closing.cur) ELSE {}
Start ==
  /\ ~down /\ isStop /\ starts < MaxStarts
  /\ isStop' = FALSE
  /\ starts' = starts + 1
  /\ acceptor' = [f \in Fibers |-> IF f[1] = starts + 1 /\ f[2] \in socks
                                     THEN "queued" ELSE acceptor[f]]
  /\ \E order \in [1 .. Cardinality(socks) -> socks] :
       /\ \A i, j \in DOMAIN order : i < j => order[i] < order[j]
       /\ tasks' = tasks \o [i \in DOMAIN order |-> <<starts + 1, order[i]>>]
  /\ early' = (early \/ ~Stopped)
  /\ lost' = lost \cup {<<starts + 1, s>> : s \in Unseen}
  /\ UNCHANGED <<socks, made, fails, open, backlog, closing, scheduled, down, stops>>

\* A second stop schedules a second task.
Stop ==
  /\ ~down /\ stops < MaxStops
  /\ stops' = stops + 1
  /\ isStop' = TRUE
  /\ tasks' = Append(tasks, StopTask)
  /\ UNCHANGED <<socks, made, fails, open, backlog, acceptor, closing, scheduled, down,
                 starts, early, lost>>

\* The accept worker takes its first task.
RunTask ==
  /\ FreeThread /\ tasks # <<>>
  /\ tasks' = Tail(tasks)
  /\ IF Head(tasks) = StopTask
       THEN /\ ~closing.on
            /\ closing' = [on |-> TRUE, left |-> socks, cur |-> {}]
            /\ UNCHANGED acceptor
       ELSE /\ acceptor' = [acceptor EXCEPT ![Head(tasks)] = "loop"]
            /\ UNCHANGED closing
  /\ UNCHANGED <<isStop, socks, made, fails, open, backlog, scheduled, down, starts, stops,
                 early, lost>>

\* A stop task that closes the socket without waking anyone.
StopOnlyCloses(s) ==
  /\ ~down /\ closing.on /\ closing.cur = {} /\ s \in closing.left
  /\ closing' = [closing EXCEPT !.left = @ \ {s}, !.cur = {s}]
  /\ UNCHANGED <<isStop, socks, made, fails, open, backlog, acceptor, tasks, scheduled,
                 down, starts, stops, early, lost>>
\* The stop task: cancelAll wakes the fiber that waits on the socket.
StopCancel(s) ==
  /\ ~down /\ closing.on /\ closing.cur = {} /\ s \in closing.left
  /\ acceptor' = [f \in Fibers |-> IF f[2] = s /\ acceptor[f] = "wait" THEN "woken" ELSE acceptor[f]]
  /\ closing' = [closing EXCEPT !.left = @ \ {s}, !.cur = {s}]
  /\ UNCHANGED <<isStop, socks, made, fails, open, backlog, tasks, scheduled, down, starts,
                 stops, early, lost>>

\* A stop task that does not close.
StopOnlyWakes ==
  /\ ~down /\ closing.on /\ closing.cur # {}
  /\ closing' = [closing EXCEPT !.cur = {}]
  /\ UNCHANGED <<isStop, socks, made, fails, open, backlog, acceptor, tasks, scheduled, down,
                 starts, stops, early, lost>>
\* close takes the socket from epoll without waking anyone.
StopClose ==
  /\ ~down /\ closing.on /\ closing.cur # {}
  /\ Keep(open \ closing.cur)
  /\ closing' = [closing EXCEPT !.cur = {}]
  /\ UNCHANGED <<isStop, socks, made, fails, acceptor, tasks, scheduled, down, starts, stops,
                 early, lost>>

\* m_socks.clear(), which also drops a socket bound since the task began.
StopDone ==
  /\ ~down /\ closing.on /\ closing.cur = {} /\ closing.left = {}
  /\ socks' = {}
  /\ closing' = Idle
  /\ Keep({s \in open : Holders(s) # {}})
  /\ UNCHANGED <<isStop, made, fails, acceptor, tasks, scheduled, down, starts, stops, early,
                 lost>>

\* An accept that does not wait, and ends the fiber.
AcceptTries(f) ==
  IF f[2] \in open /\ backlog[f[2]] # <<>>
    THEN /\ scheduled' = scheduled \cup {Head(backlog[f[2]])}
         /\ backlog' = [backlog EXCEPT ![f[2]] = Tail(@)]
         /\ acceptor' = [acceptor EXCEPT ![f] = "loop"]
         /\ UNCHANGED down
  ELSE acceptor' = [acceptor EXCEPT ![f] = "done"] /\ UNCHANGED <<backlog, scheduled, down>>
\* sock->accept() in do_io: it fails, returns a connection, or registers READ
\* and yields.  A second READ event on one descriptor is an assertion of
\* addEvent.
Accept(f) ==
  LET s == f[2]
  IN CASE s \notin open ->
            acceptor' = [acceptor EXCEPT ![f] = "loop"] /\ UNCHANGED <<backlog, scheduled,
                                                                       down>>
       [] s \in open /\ backlog[s] # <<>> ->
            /\ scheduled' = scheduled \cup {Head(backlog[s])}
            /\ backlog' = [backlog EXCEPT ![s] = Tail(@)]
            /\ acceptor' = [acceptor EXCEPT ![f] = "loop"]
            /\ UNCHANGED down
       [] OTHER ->
            /\ down' = (\E g \in Fibers : g[2] = s /\ acceptor[g] = "wait")
            /\ acceptor' = [acceptor EXCEPT ![f] = "wait"]
            /\ UNCHANGED <<backlog, scheduled>>

\* startAccpet: the test of m_isStop, the accept, and the end, with which the
\* fiber's pointer goes.  A woken fiber goes on in do_io.  One that begins to
\* wait between cancelAll and close waits for ever.
LoopTest(f) ==
  /\ ~down /\ acceptor[f] = "loop" /\ ~isStop
  /\ acceptor' = [acceptor EXCEPT ![f] = "accept"]
  /\ UNCHANGED <<isStop, socks, made, fails, open, backlog, tasks, closing, scheduled,
                 down, starts, stops, early, lost>>
LoopAccept(f) ==
  /\ ~down /\ acceptor[f] = "accept"
  /\ Accept(f)
  /\ lost' = IF acceptor'[f] = "wait" /\ f[2] \in closing.cur THEN lost \cup {f} ELSE lost
  /\ UNCHANGED <<isStop, socks, made, fails, open, tasks, closing, starts, stops, early>>
LoopEnds(f) ==
  /\ ~down /\ acceptor[f] = "loop" /\ isStop
  /\ acceptor' = [acceptor EXCEPT ![f] = "done"]
  /\ Keep(IF f[2] \notin socks /\ Holders(f[2]) = {f} THEN open \ {f[2]} ELSE open)
  /\ UNCHANGED <<isStop, socks, made, fails, tasks, closing, scheduled, down, starts,
                 stops, early, lost>>
Resume(f) ==
  /\ FreeThread /\ acceptor[f] = "woken"
  /\ acceptor' = [acceptor EXCEPT ![f] = "accept"]
  /\ UNCHANGED <<isStop, socks, made, fails, open, backlog, tasks, closing, scheduled,
                 down, starts, stops, early, lost>>

\* The kernel completes a connection; an idle thread's epoll_wait wakes the
\* fiber that waits.
Connect(c, s) ==
  /\ ~down /\ s \in open
  /\ backlog' = [backlog EXCEPT ![s] = Append(@, c)]
  /\ UNCHANGED <<isStop, socks, made, fails, open, acceptor, tasks, closing, scheduled,
                 down, starts, stops, early, lost>>
Readable(f) ==
  /\ FreeThread /\ acceptor[f] = "wait" /\ f[2] \in open /\ backlog[f[2]] # <<>>
  /\ acceptor' = [acceptor EXCEPT ![f] = "woken"]
  /\ UNCHANGED <<isStop, socks, made, fails, open, backlog, tasks, closing, scheduled,
                 down, starts, stops, early, lost>>

AcceptWorker ==
  \/ RunTask \/ StopClose \/ StopDone
  \/ \E s \in Socks : StopCancel(s)
  \/ \E f \in Fibers : LoopTest(f) \/ LoopAccept(f) \/ LoopEnds(f) \/ Resume(f) \/ Readable(f)
TcpCalls ==
  \/ \E n \in 0 .. MaxSocks, failing \in BOOLEAN, fresh \in BOOLEAN : Bind(n, failing, fresh)
  \/ Start \/ Stop

\* The server alone, with clients that connect.
TcpNext ==
  \/ AcceptWorker \/ TcpCalls
  \/ \E c \in Conns, s \in Socks :
       /\ c \notin scheduled /\ \A t \in Socks : \A i \in DOMAIN backlog[t] : backlog[t][i] # c
       /\ Connect(c, s)
\* The threads of the IOManager keep running what is ready.
TcpSpec == TcpInit /\ [][TcpNext]_tcpVars /\ WF_tcpVars(AcceptWorker)

(***************************************************************************)
(* Properties.                                                             *)
(***************************************************************************)
\* After stop every accept fiber ends, unless the server is started again.
\* The exceptions: start was called before the stop task and the fibers had
\* ended, or the fiber is lost, because a bind that failed dropped its socket
\* from m_socks or because it began to wait between cancelAll and close.
StopEndsAccept ==
  \A f \in Fibers :
    (isStop /\ f \in Active) ~> (f \notin Active \/ ~isStop \/ early \/ f \in lost)

\* When the stop tasks have run, no accept fiber has an open socket left,
\* however binds, starts and stops were mixed, unless a fiber has been lost.
StoppedIsClosed ==
  isStop /\ tasks = <<>> /\ ~closing.on /\ lost = {} => \A f \in Active : f[2] \notin open

\* A connection in the queue of a socket that the last start has made an accept
\* fiber for is handed to handleClient, or stop is called, or start was called
\* too early.  A socket that is bound while the server runs has no fiber until
\* the next start.
AcceptsAll ==
  \A s \in Socks :
    (backlog[s] # <<>> /\ starts > 0 /\ acceptor[<<starts, s>>] # "none" /\ ~isStop)
    ~> (backlog[s] = <<>> \/ isStop \/ early)

\* Two accept fibers never wait on one socket, which addEvent would end the
\* process for, unless start was called too early; with one thread the stop
\* task then still runs before the fibers of the second start, and closes the
\* socket, unless a bind that failed has dropped it before.
NoSecondWaiter == down => early /\ (Threads > 1 \/ lost # {})
=============================================================================
