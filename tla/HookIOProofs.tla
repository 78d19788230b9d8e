---------------------------- MODULE HookIOProofs ----------------------------
(***************************************************************************)
(* What holds of HookIO for any descriptors, fibers, threads and programs. *)
(*                                                                         *)
(* The inductive invariant says where the one wake-up of a switched-out    *)
(* fiber is (OneWakeup): without it queued has no bound and a fiber could  *)
(* be resumed inside a later call.  A wake-up is found through a timer or  *)
(* an EventContext, so the invariant also says which timers can be left    *)
(* (TimerOK, FiringOK), which call a fiber in each control state is in     *)
(* (CallOK), that a descriptor in use stays open with one user for each    *)
(* direction (UseOK, FdOK), and whose timer a time-out came from           *)
(* (TimeoutOK).                                                            *)
(***************************************************************************)
EXTENDS HookIO, FiniteSetTheorems, TLAPS

IoOps == {"read", "write", "accept", "connect"}
Switched == {"yield", "held"}
Pending == timers \cup expired

\* The types of everything but queued, which is bounded because every fiber has
\* one wake-up.
WaitTypes ==
  /\ pc \in [Fibers -> PCs]
  /\ events \in [Fds -> [Events -> Fibers \cup {None}]]
  /\ timers \subseteq TimerType /\ expired \subseteq TimerType
  /\ firing \subseteq TimerType
Types == FdTypeOK /\ WaitTypes /\ call \in [Fibers -> Call]

\* A fiber inside a call is in one that waits, on a descriptor unless it sleeps.
CallOK ==
  \A f \in Fibers :
    /\ pc[f] \in {"sys", "armed", "blocked"} => call[f].op \in IoOps
    /\ pc[f] \in Switched \cup {"woken"} => call[f].op \in IoOps \cup {"sleep"}
    /\ pc[f] \notin {"start", "app", "done"} =>
         IF call[f].op = "sleep" THEN call[f].fd = None ELSE call[f].fd \in Fds

\* The timers that are left belong to the current call or to earlier ones.
TimerOK ==
  \A t \in timers \cup expired \cup firing :
    /\ t.id <= call[t.fiber].id
    /\ t.op # "sleep" => t.fd \in Fds

FiringOK == \A t \in firing : t.op # "sleep"

\* A socket that is open has an FdCtx; a number never opened has neither; and
\* the first socket of a number is non-blocking unless the program asked.
FdOK ==
  \A fd \in Fds :
    /\ opened[fd] = 0 => m_datas[fd] = None /\ kernel[fd] = None
    /\ IsOpen(fd) => m_datas[fd] # None
    /\ IsOpen(fd) /\ opened[fd] <= 1 => kernel[fd].nonblock \/ kernel[fd].askedBlocking

\* A descriptor in use stays open, and has one user per direction.
UseOK ==
  \A fd \in Fds :
    /\ Using(fd) # {} => IsOpen(fd)
    /\ \A f, g \in Using(fd) : EventOf(call[f].op) = EventOf(call[g].op) => f = g

\* A switched-out fiber has exactly one wake-up to come: an entry in the queue,
\* its EventContext, or the timer of its sleep.  Others have none.
Registered(f) == \E fd \in Fds, e \in Events : events[fd][e] = f
Sleeping(f) == \E t \in Pending : t.op = "sleep" /\ t.fiber = f
OneWakeup ==
  /\ queued \in [Fibers -> 0 .. 1]
  /\ \A f \in Fibers :
       /\ pc[f] = "start" => queued[f] = 1
       /\ queued[f] = 1 => pc[f] \in {"start"} \cup Switched
       /\ pc[f] \in Switched /\ queued[f] = 0 => Registered(f) \/ Sleeping(f)
  /\ \A fd \in Fds, e \in Events :
       LET f == events[fd][e] IN
       f # None => /\ pc[f] \in Switched /\ queued[f] = 0
                   /\ call[f].fd = fd /\ EventOf(call[f].op) = e
  /\ \A t \in Pending :
       t.op = "sleep" => /\ pc[t.fiber] \in Switched /\ queued[t.fiber] = 0
                         /\ t = Timer(t.fiber)
                         /\ ~(t \in timers /\ t \in expired)

\* A timer callback that still counts for the current call was its own.
TimeoutOK ==
  /\ \A f \in Fibers : call[f].cancelled \/ call[f].result = "ETIMEDOUT" => call[f].ownExpired
  /\ \A t \in expired : call[t.fiber].id = t.id => call[t.fiber].ownExpired

Inv == Types /\ CallOK /\ TimerOK /\ FiringOK /\ FdOK /\ UseOK /\ OneWakeup /\ TimeoutOK
-----------------------------------------------------------------------------
\* The record of a new call has the type of a call.
LEMMA NewCallType ==
  ASSUME Types, NEW f \in Fibers, call[f].id < MaxCalls, NEW op \in AllOps,
         NEW fd \in Fds \cup {None}, NEW limited \in BOOLEAN
  PROVE  LET c == NewCall(f, op, fd, limited) IN
           /\ c \in Call
           /\ c.id = call[f].id + 1 /\ c.op = op /\ c.fd = fd /\ c.result = "none"
           /\ ~c.cancelled
  <1>1. NoCall \in Call
    BY HookAssumption DEF HookAssumption, NoCall, Call, Results, AllOps
  <1>2. call[f].id + 1 \in 0 .. MaxCalls
    BY HookAssumption DEF HookAssumption, Types, Call
  <1>3. \A c \in Call, i \in 0 .. MaxCalls :
          LET d == [c EXCEPT !.id = i, !.op = op, !.fd = fd, !.limited = limited] IN
            /\ d \in Call /\ d.id = i /\ d.op = op /\ d.fd = fd
            /\ d.cancelled = c.cancelled /\ d.result = c.result
    BY DEF Call
  <1>4. ~NoCall.cancelled /\ NoCall.result = "none" BY DEF NoCall
  <1> QED BY <1>1, <1>2, <1>3, <1>4, ZenonT(60) DEF NewCall

\* So has a call with a field changed.
LEMMA CallFieldType ==
  ASSUME NEW c \in Call
  PROVE  /\ \A r \in Results : [c EXCEPT !.result = r, !.fd = None, !.limited = FALSE] \in Call
         /\ [c EXCEPT !.ownExpired = TRUE] \in Call
         /\ [c EXCEPT !.cancelled = TRUE] \in Call
  BY DEF Call

\* And an open socket with a field changed is a socket.
LEMMA SocketFieldType ==
  ASSUME NEW s \in OpenSocket
  PROVE  /\ \A r \in SUBSET Events : [s EXCEPT !.ready = r] \in OpenSocket
         /\ \A r \in SUBSET Events, c \in Conns :
              [s EXCEPT !.conn = c, !.ready = r] \in OpenSocket
         /\ \A b, a \in BOOLEAN :
              [s EXCEPT !.nonblock = b, !.askedBlocking = a] \in OpenSocket
  BY DEF OpenSocket

\* The sockets and FdCtxs that are made new.
LEMMA NewSocketType ==
  ASSUME NEW conn \in Conns
  PROVE  /\ FreshSocket(conn) \in OpenSocket
         /\ InitNonblock(FreshSocket(conn)) \in OpenSocket
         /\ InitNonblock(FreshSocket(conn)).nonblock
         /\ NewFdCtx \in FdCtx
  <1>1. FreshSocket(conn) \in OpenSocket BY DEF FreshSocket, OpenSocket
  <1>2. \A s \in OpenSocket : InitNonblock(s) \in OpenSocket /\ InitNonblock(s).nonblock
    BY DEF OpenSocket, InitNonblock
  <1>3. InitNonblock(FreshSocket(conn)) \in OpenSocket /\ InitNonblock(FreshSocket(conn)).nonblock
    BY <1>1, <1>2
  <1>4. NewFdCtx \in FdCtx BY DEF NewFdCtx, FdCtx
  <1> QED BY <1>1, <1>3, <1>4

\* And an FdCtx with a field changed.
LEMMA FdCtxFieldType ==
  ASSUME NEW d \in FdCtx, NEW v \in BOOLEAN, NEW e \in Events
  PROVE  /\ [d EXCEPT !.userNonblock = v] \in FdCtx
         /\ [d EXCEPT !.timeout[e] = v] \in FdCtx
         /\ [d EXCEPT !.timeout = [x \in Events |-> TRUE]] \in FdCtx
  BY DEF FdCtx

\* Where the fibers are, what is registered and which timers there are.
LEMMA WaitTypesStep ==
  Types /\ CallOK /\ TimerOK /\ [Next]_vars => WaitTypes'
  <1> SUFFICES ASSUME Types, CallOK, TimerOK, [Next]_vars PROVE WaitTypes'
    OBVIOUS
  <1>a. \A f \in Fibers : Timer(f) \in TimerType
    BY DEF Timer, TimerType, Types, Call
  <1>1. ASSUME NEW f \in Fibers, Resume(f)
        PROVE  WaitTypes'
    BY <1>1, <1>a DEF Resume, Goto, fdVars, WaitTypes, Types, PCs
  <1>2. ASSUME NEW f \in Fibers, SysIo(f)
        PROVE  WaitTypes'
    BY <1>2, <1>a
    DEF SysIo, Goto, Return, AddConditionTimer, fdVars, WaitTypes, Types,
       PCs
  <1>3. ASSUME NEW f \in Fibers, SysConnect(f)
        PROVE  WaitTypes'
    BY <1>3, <1>a
    DEF SysConnect, Goto, Return, AddConditionTimer, fdVars, WaitTypes,
       Types, PCs
  <1>4. ASSUME NEW f \in Fibers, Unblock(f)
        PROVE  WaitTypes'
    BY <1>4, <1>a DEF Unblock, Goto, Return, Taken, WaitTypes, Types, PCs
  <1>4b. ASSUME NEW f \in Fibers, BlockedTooLong(f)
        PROVE  WaitTypes'
    BY <1>4b, <1>a
    DEF BlockedTooLong, Goto, AddConditionTimer, fdVars, WaitTypes, Types, PCs
  <1>5. ASSUME NEW f \in Fibers, AddEvent(f)
        PROVE  WaitTypes'
    BY <1>5 DEF AddEvent, Goto, WaitTypes, Types, PCs, CallOK, IoOps, EventOf, Events
  <1>6. ASSUME NEW f \in Fibers, AddEventFails(f)
        PROVE  WaitTypes'
    BY <1>6, <1>a
    DEF AddEventFails, ConnectResult, Return, Goto, fdVars, WaitTypes,
       Types, PCs
  <1>7. ASSUME NEW f \in Fibers, YieldToHold(f)
        PROVE  WaitTypes'
    BY <1>7, <1>a DEF YieldToHold, Goto, fdVars, WaitTypes, Types, PCs
  <1>8. ASSUME NEW f \in Fibers, Woken(f)
        PROVE  WaitTypes'
    BY <1>8, <1>a
    DEF Woken, CancelTimer, ConnectResult, Return, Goto, fdVars, WaitTypes,
       WaitTypes, Types, PCs
  <1>9. ASSUME NEW t \in timers \cup expired \cup firing, Expire(t)
        PROVE  WaitTypes'
    BY <1>9, <1>a DEF Expire, fdVars, WaitTypes, Types, PCs
  <1>10. ASSUME NEW t \in timers \cup expired \cup firing, CallbackBegin(t)
        PROVE  WaitTypes'
    BY <1>10, <1>a
    DEF CallbackBegin, InfoAlive, fdVars, WaitTypes, Types, PCs
  <1>11. ASSUME NEW t \in timers \cup expired \cup firing, CallbackCancel(t)
        PROVE  WaitTypes'
    BY <1>11 DEF CallbackCancel, Schedule, WaitTypes, Types, PCs
  <1>12. ASSUME NEW t \in timers \cup expired \cup firing, CallbackSleep(t)
        PROVE  WaitTypes'
    BY <1>12, <1>a DEF CallbackSleep, fdVars, WaitTypes, Types, PCs
  <1>13. ASSUME NEW f \in Fibers, BeginSleep(f)
        PROVE  WaitTypes'
    <2>1. [fiber |-> f, id |-> call[f].id + 1, op |-> "sleep", fd |-> None] \in TimerType
      BY <1>13, HookAssumption
      DEF HookAssumption, BeginSleep, MayCall, Types, Call, TimerType, AllOps
    <2> QED BY <1>13, <2>1 DEF BeginSleep, Goto, WaitTypes, Types, PCs
  <1>14. ASSUME NEW f \in Fibers, Finish(f)
        PROVE  WaitTypes'
    BY <1>14, <1>a DEF Finish, Goto, fdVars, WaitTypes, Types, PCs
  <1>15. ASSUME NEW f \in Fibers, NEW fd \in Fds,
                NEW op \in {"read", "write", "accept"}, BeginIo(f, op, fd)
        PROVE  WaitTypes'
    BY <1>15, <1>a
    DEF BeginIo, MayCall, NewCall, NoCall, Immediate, Taken, Goto, fdVars,
       WaitTypes, Types, PCs
  <1>16. ASSUME NEW f \in Fibers, NEW fd \in Fds, NEW limited \in BOOLEAN,
                BeginConnect(f, fd, limited)
        PROVE  WaitTypes'
    BY <1>16, <1>a
    DEF BeginConnect, MayCall, NewCall, NoCall, Goto, fdVars, WaitTypes,
       Types, PCs
  <1>17. ASSUME NEW f \in Fibers, NEW fd \in Fds, Control(f, fd)
        PROVE  WaitTypes'
    BY <1>17, <1>a
    DEF Control, MayCall, NewCall, NoCall, Immediate, GetCreating, CanOpen, FdClose,
       SetFl, SetFionbio, SetTimeout, fdVars, WaitTypes, Types, PCs
  <1>18. ASSUME NEW f \in Fibers, NEW fd \in Fds, CancelAll(f, fd)
        PROVE  WaitTypes'
    BY <1>18, <1>a
    DEF CancelAll, MayCall, NewCall, NoCall, fdVars, WaitTypes, Types,
       PCs
  <1>19. ASSUME NEW fd \in Fds, NEW e \in Events, TriggerEvent(fd, e)
        PROVE  WaitTypes'
    BY <1>19, <1>a DEF TriggerEvent, Schedule, fdVars, WaitTypes, Types, PCs
  <1>20. ASSUME NEW fd \in Fds, NEW e \in Events, Readiness(fd, e)
        PROVE  WaitTypes'
    BY <1>20, <1>a DEF Readiness, ioVars, WaitTypes, Types, PCs
  <1>21. ASSUME NEW fd \in Fds, NEW how \in {"up", "refused"}, ConnectEnds(fd, how)
        PROVE  WaitTypes'
    BY <1>21, <1>a DEF ConnectEnds, ioVars, WaitTypes, Types, PCs
  <1>22. CASE UNCHANGED vars
    BY <1>22 DEF vars, fdVars, ioVars, WaitTypes, Types, PCs
  <1> QED
    BY <1>1, <1>2, <1>3, <1>4, <1>4b, <1>5, <1>6, <1>7, <1>8, <1>9, <1>10, <1>11, <1>12,
       <1>13, <1>14, <1>15, <1>16, <1>17, <1>18, <1>19, <1>20, <1>21, <1>22
    DEF Next, FiberStep, CallbackStep, Request, KernelStep

\* The records of the calls.
LEMMA CallTypesStep ==
  Types /\ FdOK /\ [Next]_vars => call' \in [Fibers -> Call]
  <1> SUFFICES ASSUME Types, FdOK, [Next]_vars PROVE call' \in [Fibers -> Call]
    OBVIOUS
  <1>a. call \in [Fibers -> Call] BY DEF Types
  <1>b. ASSUME NEW f \in Fibers, NEW r \in Results, Return(f, call[f], r)
        PROVE  call' \in [Fibers -> Call]
    BY <1>a, <1>b, CallFieldType DEF Return
  <1>c. ASSUME NEW f \in Fibers, NEW op \in AllOps, NEW fd \in Fds \cup {None},
               NEW l \in BOOLEAN, call[f].id < MaxCalls,
               call' = [call EXCEPT ![f] = NewCall(f, op, fd, l)]
        PROVE  call' \in [Fibers -> Call]
    BY <1>a, <1>c, NewCallType
  <1>1. ASSUME NEW f \in Fibers, Resume(f)
        PROVE  call' \in [Fibers -> Call]
    BY <1>a, <1>1 DEF Resume
  <1>2. ASSUME NEW f \in Fibers, SysIo(f)
        PROVE  call' \in [Fibers -> Call]
    BY <1>a, <1>b, <1>2 DEF Results, SysIo, AddConditionTimer
  <1>3. ASSUME NEW f \in Fibers, SysConnect(f)
        PROVE  call' \in [Fibers -> Call]
    BY <1>a, <1>b, <1>3 DEF Results, SysConnect, AddConditionTimer
  <1>4. ASSUME NEW f \in Fibers, Unblock(f)
        PROVE  call' \in [Fibers -> Call]
    BY <1>a, <1>b, <1>4 DEF Results, Unblock
  <1>4b. ASSUME NEW f \in Fibers, BlockedTooLong(f)
        PROVE  call' \in [Fibers -> Call]
    BY <1>a, <1>4b DEF BlockedTooLong, AddConditionTimer
  <1>5. ASSUME NEW f \in Fibers, AddEvent(f)
        PROVE  call' \in [Fibers -> Call]
    BY <1>a, <1>5 DEF AddEvent
  <1>6. ASSUME NEW f \in Fibers, AddEventFails(f)
        PROVE  call' \in [Fibers -> Call]
    BY <1>a, <1>b, <1>6 DEF Results, AddEventFails, ConnectResult
  <1>7. ASSUME NEW f \in Fibers, YieldToHold(f)
        PROVE  call' \in [Fibers -> Call]
    BY <1>a, <1>7 DEF YieldToHold
  <1>8. ASSUME NEW f \in Fibers, Woken(f)
        PROVE  call' \in [Fibers -> Call]
    BY <1>a, <1>b, <1>8 DEF Results, Woken, ConnectResult
  <1>9. ASSUME NEW t \in timers \cup expired \cup firing, Expire(t)
        PROVE  call' \in [Fibers -> Call]
    <2>1. t.fiber \in Fibers BY DEF Types, WaitTypes, TimerType
    <2> QED BY <1>a, <1>9, <2>1, CallFieldType DEF Expire
  <1>10. ASSUME NEW t \in timers \cup expired \cup firing, CallbackBegin(t)
        PROVE  call' \in [Fibers -> Call]
    <2>1. t.fiber \in Fibers BY DEF Types, WaitTypes, TimerType
    <2> QED BY <1>a, <1>10, <2>1, CallFieldType, ZenonT(60) DEF CallbackBegin
  <1>11. ASSUME NEW t \in timers \cup expired \cup firing, CallbackCancel(t)
        PROVE  call' \in [Fibers -> Call]
    BY <1>a, <1>11 DEF CallbackCancel
  <1>12. ASSUME NEW t \in timers \cup expired \cup firing, CallbackSleep(t)
        PROVE  call' \in [Fibers -> Call]
    BY <1>a, <1>12 DEF CallbackSleep
  <1>13. ASSUME NEW f \in Fibers, BeginSleep(f)
        PROVE  call' \in [Fibers -> Call]
    BY <1>c, <1>13 DEF BeginSleep, MayCall, AllOps
  <1>14. ASSUME NEW f \in Fibers, Finish(f)
        PROVE  call' \in [Fibers -> Call]
    BY <1>a, <1>14 DEF Finish
  <1>15. ASSUME NEW f \in Fibers, NEW fd \in Fds,
                NEW op \in {"read", "write", "accept"}, BeginIo(f, op, fd)
        PROVE  call' \in [Fibers -> Call]
    <2>1. m_datas[fd].timeout[EventOf(op)] \in BOOLEAN
      BY <1>15 DEF BeginIo, IsOpen, FdOK, Types, FdTypeOK, FdCtx, EventOf, Events
    <2>2. "sleep" \in AllOps /\ op \in AllOps BY DEF AllOps
    <2> QED BY <1>c, <1>15, <2>1, <2>2 DEF BeginIo, MayCall, Immediate
  <1>16. ASSUME NEW f \in Fibers, NEW fd \in Fds, NEW limited \in BOOLEAN,
                BeginConnect(f, fd, limited)
        PROVE  call' \in [Fibers -> Call]
    BY <1>c, <1>16 DEF BeginConnect, MayCall, AllOps
  <1>17. ASSUME NEW f \in Fibers, NEW fd \in Fds, Control(f, fd)
        PROVE  call' \in [Fibers -> Call]
    BY <1>c, <1>17 DEF Control, MayCall, Immediate, AllOps
  <1>18. ASSUME NEW f \in Fibers, NEW fd \in Fds, CancelAll(f, fd)
        PROVE  call' \in [Fibers -> Call]
    BY <1>c, <1>18 DEF CancelAll, MayCall, AllOps
  <1>19. ASSUME NEW fd \in Fds, NEW e \in Events, TriggerEvent(fd, e)
        PROVE  call' \in [Fibers -> Call]
    BY <1>a, <1>19 DEF TriggerEvent
  <1>20. ASSUME NEW fd \in Fds, NEW e \in Events, Readiness(fd, e)
        PROVE  call' \in [Fibers -> Call]
    BY <1>a, <1>20 DEF Readiness, ioVars
  <1>21. ASSUME NEW fd \in Fds, NEW how \in {"up", "refused"}, ConnectEnds(fd, how)
        PROVE  call' \in [Fibers -> Call]
    BY <1>a, <1>21 DEF ConnectEnds, ioVars
  <1>22. CASE UNCHANGED vars
    BY <1>a, <1>22 DEF vars, fdVars, ioVars
  <1> QED
    BY <1>1, <1>2, <1>3, <1>4, <1>4b, <1>5, <1>6, <1>7, <1>8, <1>9, <1>10, <1>11, <1>12,
       <1>13, <1>14, <1>15, <1>16, <1>17, <1>18, <1>19, <1>20, <1>21, <1>22
    DEF Next, FiberStep, CallbackStep, Request, KernelStep

-----------------------------------------------------------------------------
\* k is the kernel's table, but for what the sockets are ready for and how their
\* connects stand.
SameSockets(k) ==
  /\ k \in [Fds -> OpenSocket \cup {None}]
  /\ \A fd \in Fds :
       /\ k[fd] = None <=> kernel[fd] = None
       /\ k[fd] # None => /\ k[fd].nonblock = kernel[fd].nonblock
                          /\ k[fd].askedBlocking = kernel[fd].askedBlocking

\* No socket is closed.
AllStayOpen == \A fd \in Fds : IsOpen(fd) => kernel'[fd] # None

\* What FdTypeOK and FdOK say of the next state, in terms of kernel' and so on.
LEMMA SameKept ==
  ASSUME FdTypeOK, FdOK, SameSockets(kernel'), UNCHANGED <<m_datas, opened>>
  PROVE  FdTypeOK' /\ FdOK' /\ AllStayOpen
  <1>1. FdTypeOK' BY DEF FdTypeOK, SameSockets
  <1>2. AllStayOpen BY DEF AllStayOpen, SameSockets, IsOpen
  <1>3. FdOK' BY DEF FdOK, SameSockets, IsOpen
  <1> QED BY <1>1, <1>2, <1>3

\* Changing what a socket is ready for, or how its connect stands.
LEMMA SocketChanges ==
  ASSUME FdTypeOK, NEW fd \in Fds, IsOpen(fd), NEW r \in SUBSET Events, NEW c \in Conns
  PROVE  /\ SameSockets([kernel EXCEPT ![fd].ready = r])
         /\ SameSockets([kernel EXCEPT ![fd].conn = c, ![fd].ready = r])
  <1>1. kernel[fd] \in OpenSocket BY DEF FdTypeOK, IsOpen
  <1>2. ASSUME NEW s \in OpenSocket, s.nonblock = kernel[fd].nonblock,
               s.askedBlocking = kernel[fd].askedBlocking
        PROVE  SameSockets([kernel EXCEPT ![fd] = s])
    <2>1. s # None BY NullAssumption DEF NullAssumption
    <2> QED BY <1>1, <1>2, <2>1 DEF SameSockets, FdTypeOK, IsOpen
  <1>3. \A s \in OpenSocket :
          /\ [s EXCEPT !.ready = r].nonblock = s.nonblock
          /\ [s EXCEPT !.ready = r].askedBlocking = s.askedBlocking
          /\ [s EXCEPT !.conn = c, !.ready = r].nonblock = s.nonblock
          /\ [s EXCEPT !.conn = c, !.ready = r].askedBlocking = s.askedBlocking
    BY DEF OpenSocket
  <1>4. [kernel[fd] EXCEPT !.ready = r] \in OpenSocket
        /\ [kernel[fd] EXCEPT !.conn = c, !.ready = r] \in OpenSocket
    BY <1>1, SocketFieldType
  <1>5. [kernel EXCEPT ![fd].ready = r] = [kernel EXCEPT ![fd] = [kernel[fd] EXCEPT !.ready = r]]
    OBVIOUS
  <1>6. [kernel EXCEPT ![fd].conn = c, ![fd].ready = r]
          = [kernel EXCEPT ![fd] = [kernel[fd] EXCEPT !.conn = c, !.ready = r]]
    BY DEF FdTypeOK
  <1> QED BY <1>1, <1>2, <1>3, <1>4, <1>5, <1>6

\* get(fd, true) for a number the kernel has just returned.
LEMMA GetCreatingKeeps ==
  ASSUME FdTypeOK, FdOK, NEW fd \in Fds, NEW conn \in Conns, NEW k, SameSockets(k),
         GetCreating(fd, conn, k)
  PROVE  FdTypeOK' /\ FdOK' /\ AllStayOpen
  <1> DEFINE s == IF m_datas[fd] = None THEN InitNonblock(FreshSocket(conn))
                  ELSE FreshSocket(conn)
             d == IF m_datas[fd] = None THEN NewFdCtx ELSE m_datas[fd]
  <1>1. /\ kernel[fd] = None /\ opened[fd] < MaxGen
        /\ opened' = [opened EXCEPT ![fd] = opened[fd] + 1]
        /\ m_datas' = [m_datas EXCEPT ![fd] = d]
        /\ kernel' = [k EXCEPT ![fd] = s]
    BY DEF GetCreating, CanOpen
  <1>2. s \in OpenSocket /\ d \in FdCtx /\ (m_datas[fd] = None => s.nonblock)
    BY NewSocketType DEF FdTypeOK
  <1>3. s # None /\ d # None
    BY <1>2, NullAssumption DEF NullAssumption
  <1> HIDE DEF s, d
  <1>4. FdTypeOK'
    BY <1>1, <1>2, FdAssumption DEF FdAssumption, FdTypeOK, SameSockets
  <1>5. AllStayOpen
    BY <1>1, <1>3 DEF AllStayOpen, SameSockets, IsOpen
  <1>6. opened[fd] # 0 => opened'[fd] > 1
    BY <1>1, FdAssumption DEF FdAssumption, FdTypeOK
  <1>7. ASSUME NEW g \in Fds
        PROVE  /\ opened'[g] = 0 => m_datas'[g] = None /\ kernel'[g] = None
               /\ kernel'[g] # None => m_datas'[g] # None
               /\ kernel'[g] # None /\ opened'[g] <= 1
                    => kernel'[g].nonblock \/ kernel'[g].askedBlocking
    <2>1. CASE g = fd
      <3>1. kernel'[fd] = s /\ m_datas'[fd] = d /\ opened'[fd] = opened[fd] + 1
        BY <1>1 DEF FdTypeOK, SameSockets
      <3>2. opened[fd] \in Nat BY DEF FdTypeOK
      <3>3. opened[fd] = 0 => m_datas[fd] = None BY DEF FdOK
      <3>4. opened'[fd] <= 1 => opened[fd] = 0 BY <3>1, <3>2
      <3> QED BY <1>2, <1>3, <2>1, <3>1, <3>2, <3>3, <3>4
    <2>2. CASE g # fd
      <3>1. kernel'[g] = k[g] /\ m_datas'[g] = m_datas[g] /\ opened'[g] = opened[g]
        BY <1>1, <2>2 DEF FdTypeOK, SameSockets
      <3> QED BY <3>1 DEF FdOK, IsOpen, SameSockets
    <2> QED BY <2>1, <2>2
  <1>8. FdOK' BY <1>7 DEF FdOK, IsOpen
  <1> QED BY <1>4, <1>5, <1>8

\* fcntl(F_SETFL), ioctl(FIONBIO) and setsockopt on an open socket.
LEMMA SettingKeeps ==
  ASSUME FdTypeOK, FdOK, NEW fd \in Fds, IsOpen(fd), NEW v \in BOOLEAN, NEW e \in Events,
         SetFl(fd, v) \/ SetFionbio(fd, v) \/ SetTimeout(fd, e, v)
  PROVE  FdTypeOK' /\ FdOK' /\ AllStayOpen
  <1>1. kernel[fd] \in OpenSocket /\ m_datas[fd] \in FdCtx
    BY DEF FdTypeOK, FdOK, IsOpen
  <1>2. \E s \in OpenSocket, d \in FdCtx :
          /\ kernel' = [kernel EXCEPT ![fd] = s]
          /\ m_datas' = [m_datas EXCEPT ![fd] = d]
          /\ s.nonblock \/ s.askedBlocking
             \/ (s.nonblock = kernel[fd].nonblock /\ s.askedBlocking = kernel[fd].askedBlocking)
    <2> DEFINE s == [kernel[fd] EXCEPT !.nonblock = v, !.askedBlocking = ~v]
               d == [m_datas[fd] EXCEPT !.userNonblock = v]
               t == [m_datas[fd] EXCEPT !.timeout[e] = v]
               u == [kernel[fd] EXCEPT !.limits = IF v THEN @ \cup {e} ELSE @ \ {e}]
    <2>1. d \in FdCtx /\ t \in FdCtx /\ s \in OpenSocket
      BY <1>1, FdCtxFieldType, SocketFieldType
    <2>2. s.nonblock \/ s.askedBlocking BY <1>1 DEF OpenSocket
    <2>3. /\ [kernel EXCEPT ![fd].nonblock = v, ![fd].askedBlocking = ~v]
               = [kernel EXCEPT ![fd] = s]
          /\ [m_datas EXCEPT ![fd].userNonblock = v] = [m_datas EXCEPT ![fd] = d]
          /\ [m_datas EXCEPT ![fd].timeout[e] = v] = [m_datas EXCEPT ![fd] = t]
      BY DEF FdTypeOK
    <2>4. /\ kernel = [kernel EXCEPT ![fd] = kernel[fd]]
          /\ m_datas = [m_datas EXCEPT ![fd] = m_datas[fd]]
      BY DEF FdTypeOK
    <2>u. /\ u \in OpenSocket
          /\ u.nonblock = kernel[fd].nonblock /\ u.askedBlocking = kernel[fd].askedBlocking
      BY <1>1 DEF OpenSocket
    <2>k. [kernel EXCEPT ![fd].limits = IF v THEN @ \cup {e} ELSE @ \ {e}]
            = [kernel EXCEPT ![fd] = u]
      BY DEF FdTypeOK
    <2> HIDE DEF s, d, t, u
    <2>5. CASE SetFl(fd, v) BY <2>1, <2>2, <2>3, <2>5 DEF SetFl
    <2>6. CASE SetFionbio(fd, v) BY <1>1, <2>1, <2>2, <2>3, <2>4, <2>6 DEF SetFionbio
    <2>7. CASE SetTimeout(fd, e, v) BY <2>1, <2>3, <2>7, <2>u, <2>k DEF SetTimeout
    <2> QED BY <2>5, <2>6, <2>7
  <1>3. UNCHANGED opened BY DEF SetFl, SetFionbio, SetTimeout
  <1>4. PICK s \in OpenSocket, d \in FdCtx :
          /\ kernel' = [kernel EXCEPT ![fd] = s]
          /\ m_datas' = [m_datas EXCEPT ![fd] = d]
          /\ s.nonblock \/ s.askedBlocking
             \/ (s.nonblock = kernel[fd].nonblock /\ s.askedBlocking = kernel[fd].askedBlocking)
    BY <1>2
  <1>5. s # None /\ d # None BY NullAssumption DEF NullAssumption
  <1>6. FdTypeOK' BY <1>3, <1>4 DEF FdTypeOK
  <1>7. AllStayOpen BY <1>4, <1>5 DEF AllStayOpen, FdTypeOK, IsOpen
  <1>8. ASSUME NEW g \in Fds
        PROVE  /\ opened'[g] = 0 => m_datas'[g] = None /\ kernel'[g] = None
               /\ kernel'[g] # None => m_datas'[g] # None
               /\ kernel'[g] # None /\ opened'[g] <= 1
                    => kernel'[g].nonblock \/ kernel'[g].askedBlocking
    <2>1. CASE g = fd
      <3>1. kernel'[fd] = s /\ m_datas'[fd] = d BY <1>4 DEF FdTypeOK
      <3>2. opened[fd] # 0 BY DEF FdOK, IsOpen
      <3>3. opened[fd] <= 1 => kernel[fd].nonblock \/ kernel[fd].askedBlocking
        BY DEF FdOK
      <3> QED BY <1>3, <1>4, <1>5, <2>1, <3>1, <3>2, <3>3
    <2>2. CASE g # fd
      <3>1. kernel'[g] = kernel[g] /\ m_datas'[g] = m_datas[g] BY <1>4, <2>2 DEF FdTypeOK
      <3> QED BY <1>3, <3>1 DEF FdOK, IsOpen
    <2> QED BY <2>1, <2>2
  <1>9. FdOK' BY <1>8 DEF FdOK, IsOpen
  <1> QED BY <1>6, <1>7, <1>9

\* close.
LEMMA CloseKeeps ==
  ASSUME FdTypeOK, FdOK, NEW fd \in Fds, FdClose(fd)
  PROVE  FdTypeOK' /\ FdOK'
  BY DEF FdTypeOK, FdOK, FdClose, IsOpen


\* No step but close closes a socket, and close only one that nobody uses; every
\* step keeps the FdCtxs and the sockets in order.
LEMMA FdStep ==
  ASSUME Types, CallOK, FdOK, UseOK, [Next]_vars
  PROVE  /\ FdTypeOK' /\ FdOK'
         /\ \A fd \in Fds : IsOpen(fd) /\ Using(fd) # {} => kernel'[fd] # None
  <1> DEFINE G == /\ FdTypeOK' /\ FdOK'
                  /\ \A fd \in Fds : IsOpen(fd) /\ Using(fd) # {} => kernel'[fd] # None
  <1>a. FdTypeOK BY DEF Types
  <1>b. ASSUME FdTypeOK' /\ FdOK' /\ AllStayOpen PROVE G
    BY <1>b DEF AllStayOpen
  <1>c. ASSUME UNCHANGED fdVars PROVE G
    BY <1>a, <1>c DEF FdTypeOK, FdOK, fdVars, IsOpen
  <1>d. ASSUME SameSockets(kernel'), UNCHANGED <<m_datas, opened>> PROVE G
    BY <1>a, <1>b, <1>d, SameKept
  <1>e. ASSUME NEW f \in Fibers, pc[f] \in {"sys", "blocked"}
        PROVE  /\ call[f].fd \in Fds /\ IsOpen(call[f].fd)
               /\ kernel[call[f].fd].ready \in SUBSET Events
    <2>1. call[f].fd \in Fds BY <1>e DEF CallOK, IoOps
    <2>2. IsOpen(call[f].fd) BY <1>e, <2>1 DEF UseOK, Using
    <2> QED BY <1>a, <2>1, <2>2 DEF FdTypeOK, IsOpen, OpenSocket
  <1>f. ASSUME NEW fd \in Fds, IsOpen(fd), NEW x
        PROVE  SameSockets(Taken(fd, x))
    <2>1. kernel[fd].ready \ {x} \in SUBSET Events
      BY <1>a, <1>f DEF FdTypeOK, IsOpen, OpenSocket
    <2>2. "up" \in Conns BY DEF Conns
    <2> QED BY <1>a, <1>f, <2>1, <2>2, SocketChanges DEF Taken
  <1> HIDE DEF G
  <1>1. ASSUME NEW f \in Fibers, Resume(f)
        PROVE  G
    BY <1>c, <1>1 DEF Resume
  <1>2. ASSUME NEW f \in Fibers, SysIo(f)
        PROVE  G
    <2>1. pc[f] = "sys" BY <1>2 DEF SysIo
    <2>2. SameSockets(Taken(call[f].fd, EventOf(call[f].op)))
      BY <1>e, <1>f, <2>1
    <2>3. CASE UNCHANGED fdVars BY <1>c, <2>3
    <2>4. CASE /\ kernel' = Taken(call[f].fd, EventOf(call[f].op))
               /\ UNCHANGED <<m_datas, opened>>
      BY <1>d, <2>2, <2>4
    <2>5. ASSUME NEW new \in Fds,
                 GetCreating(new, "up", Taken(call[f].fd, EventOf(call[f].op)))
          PROVE  G
      <3>1. "up" \in Conns BY DEF Conns
      <3> QED BY <1>a, <1>b, <2>2, <2>5, <3>1, GetCreatingKeeps
    <2> QED BY <1>2, <2>3, <2>4, <2>5 DEF SysIo
  <1>3. ASSUME NEW f \in Fibers, SysConnect(f)
        PROVE  G
    <2>1. CASE UNCHANGED fdVars BY <1>c, <2>1
    <2>2. CASE /\ kernel' = [kernel EXCEPT ![call[f].fd].conn = "progress",
                                           ![call[f].fd].ready = {}]
               /\ UNCHANGED <<m_datas, opened>>
      <3>1. pc[f] = "sys" BY <1>3 DEF SysConnect
      <3>2. "progress" \in Conns /\ {} \in SUBSET Events BY DEF Conns
      <3>3. SameSockets(kernel') BY <1>a, <1>e, <2>2, <3>1, <3>2, SocketChanges
      <3> QED BY <1>d, <2>2, <3>3
    <2> QED BY <1>3, <2>1, <2>2 DEF SysConnect
  <1>4. ASSUME NEW f \in Fibers, Unblock(f)
        PROVE  G
    BY <1>d, <1>e, <1>f, <1>4 DEF Unblock
  <1>4b. ASSUME NEW f \in Fibers, BlockedTooLong(f)
        PROVE  G
    BY <1>c, <1>4b DEF BlockedTooLong
  <1>5. ASSUME NEW f \in Fibers, AddEvent(f)
        PROVE  G
    BY <1>c, <1>5 DEF AddEvent
  <1>6. ASSUME NEW f \in Fibers, AddEventFails(f)
        PROVE  G
    BY <1>c, <1>6 DEF AddEventFails
  <1>7. ASSUME NEW f \in Fibers, YieldToHold(f)
        PROVE  G
    BY <1>c, <1>7 DEF YieldToHold
  <1>8. ASSUME NEW f \in Fibers, Woken(f)
        PROVE  G
    BY <1>c, <1>8 DEF Woken
  <1>9. ASSUME NEW t \in timers \cup expired \cup firing, Expire(t)
        PROVE  G
    BY <1>c, <1>9 DEF Expire
  <1>10. ASSUME NEW t \in timers \cup expired \cup firing, CallbackBegin(t)
        PROVE  G
    BY <1>c, <1>10 DEF CallbackBegin
  <1>11. ASSUME NEW t \in timers \cup expired \cup firing, CallbackCancel(t)
        PROVE  G
    BY <1>c, <1>11 DEF CallbackCancel
  <1>12. ASSUME NEW t \in timers \cup expired \cup firing, CallbackSleep(t)
        PROVE  G
    BY <1>c, <1>12 DEF CallbackSleep
  <1>13. ASSUME NEW f \in Fibers, BeginSleep(f)
        PROVE  G
    BY <1>c, <1>13 DEF BeginSleep
  <1>14. ASSUME NEW f \in Fibers, Finish(f)
        PROVE  G
    BY <1>c, <1>14 DEF Finish
  <1>15. ASSUME NEW f \in Fibers, NEW fd \in Fds,
                NEW op \in {"read", "write", "accept"}, BeginIo(f, op, fd)
        PROVE  G
    <2>1. IsOpen(fd) BY <1>15 DEF BeginIo
    <2>2. SameSockets(Taken(fd, EventOf(op))) BY <1>f, <2>1
    <2>3. CASE UNCHANGED fdVars BY <1>c, <2>3
    <2>4. CASE kernel' = Taken(fd, EventOf(op)) /\ UNCHANGED <<m_datas, opened>>
      BY <1>d, <2>2, <2>4
    <2>5. ASSUME NEW new \in Fds, GetCreating(new, "up", Taken(fd, "READ"))
          PROVE  G
      <3>1. "up" \in Conns BY DEF Conns
      <3>2. SameSockets(Taken(fd, "READ")) BY <1>f, <2>1
      <3> QED BY <1>a, <1>b, <2>5, <3>1, <3>2, GetCreatingKeeps
    <2> QED BY <1>15, <2>3, <2>4, <2>5 DEF BeginIo
  <1>16. ASSUME NEW f \in Fibers, NEW fd \in Fds, NEW limited \in BOOLEAN,
                BeginConnect(f, fd, limited)
        PROVE  G
    BY <1>c, <1>16 DEF BeginConnect
  <1>17. ASSUME NEW f \in Fibers, NEW fd \in Fds, Control(f, fd)
        PROVE  G
    <2>1. ASSUME GetCreating(fd, "none", kernel) PROVE G
      <3>1. SameSockets(kernel) BY <1>a DEF SameSockets, FdTypeOK
      <3>2. "none" \in Conns BY DEF Conns
      <3> QED BY <1>a, <1>b, <2>1, <3>1, <3>2, GetCreatingKeeps
    <2>2. ASSUME FdClose(fd), Using(fd) = {} PROVE G
      <3>1. FdTypeOK' /\ FdOK' BY <1>a, <2>2, CloseKeeps
      <3>2. \A g \in Fds : IsOpen(g) /\ Using(g) # {} => kernel'[g] # None
        BY <1>a, <2>2 DEF FdClose, IsOpen, FdTypeOK
      <3> QED BY <3>1, <3>2 DEF G
    <2>3. ASSUME IsOpen(fd), NEW v \in BOOLEAN,
                 SetFl(fd, v) \/ SetFionbio(fd, v) PROVE G
      <3>1. "READ" \in Events BY DEF Events
      <3> QED BY <1>a, <1>b, <2>3, <3>1, SettingKeeps
    <2>4. ASSUME IsOpen(fd), NEW v \in BOOLEAN, NEW e \in Events,
                 SetTimeout(fd, e, v) PROVE G
      BY <1>a, <1>b, <2>4, SettingKeeps
    <2> QED BY <1>17, <2>1, <2>2, <2>3, <2>4 DEF Control
  <1>18. ASSUME NEW f \in Fibers, NEW fd \in Fds, CancelAll(f, fd)
        PROVE  G
    BY <1>c, <1>18 DEF CancelAll
  <1>19. ASSUME NEW fd \in Fds, NEW e \in Events, TriggerEvent(fd, e)
        PROVE  G
    BY <1>c, <1>19 DEF TriggerEvent
  <1>20. ASSUME NEW fd \in Fds, NEW e \in Events, Readiness(fd, e)
        PROVE  G
    <2>1. IsOpen(fd) BY <1>20 DEF Readiness
    <2>2. kernel[fd].ready \cup {e} \in SUBSET Events
      BY <1>a, <2>1 DEF FdTypeOK, IsOpen, OpenSocket
    <2>3. "up" \in Conns BY DEF Conns
    <2>4. kernel' = [kernel EXCEPT ![fd].ready = kernel[fd].ready \cup {e}]
      BY <1>20 DEF Readiness
    <2>5. SameSockets(kernel') BY <1>a, <2>1, <2>2, <2>3, <2>4, SocketChanges
    <2> QED BY <1>d, <1>20, <2>5 DEF Readiness
  <1>21. ASSUME NEW fd \in Fds, NEW how \in {"up", "refused"}, ConnectEnds(fd, how)
        PROVE  G
    <2>1. IsOpen(fd) BY <1>21 DEF ConnectEnds
    <2>2. kernel[fd].ready \cup {"WRITE"} \in SUBSET Events
      BY <1>a, <2>1 DEF FdTypeOK, IsOpen, OpenSocket, Events
    <2>3. how \in Conns BY DEF Conns
    <2>4. kernel' = [kernel EXCEPT ![fd].conn = how, ![fd].ready = kernel[fd].ready \cup {"WRITE"}]
      <3>1. kernel[fd] \in OpenSocket BY <1>a, <2>1 DEF FdTypeOK, IsOpen
      <3>2. [kernel[fd] EXCEPT !.conn = how].ready = kernel[fd].ready BY <3>1 DEF OpenSocket
      <3> QED BY <1>21, <1>a, <3>2 DEF ConnectEnds, FdTypeOK
    <2>5. SameSockets(kernel') BY <1>a, <2>1, <2>2, <2>3, <2>4, SocketChanges
    <2> QED BY <1>d, <1>21, <2>5 DEF ConnectEnds
  <1>22. ASSUME UNCHANGED vars PROVE G
    BY <1>c, <1>22 DEF vars
  <1>23. G
    BY <1>1, <1>2, <1>3, <1>4, <1>4b, <1>5, <1>6, <1>7, <1>8, <1>9, <1>10, <1>11, <1>12,
       <1>13, <1>14, <1>15, <1>16, <1>17, <1>18, <1>19, <1>20, <1>21, <1>22
    DEF Next, FiberStep, CallbackStep, Request, KernelStep
  <1> QED BY <1>23 DEF G


-----------------------------------------------------------------------------
\* The fiber is inside a hooked call.
InCall(f) == pc[f] \notin {"start", "app", "done"}

SameCall(f) ==
  /\ call'[f].op = call[f].op /\ call'[f].fd = call[f].fd /\ call'[f].id = call[f].id

\* Fiber f, alone, enters a call on a descriptor that is free in its direction.
Enters(f) ==
  /\ ~InCall(f) /\ call'[f].fd \in Fds /\ IsOpen(call'[f].fd)
  /\ UNCHANGED fdVars
  /\ \A g \in Using(call'[f].fd) : EventOf(call[g].op) # EventOf(call'[f].op)
  /\ \A g \in Fibers \ {f} : pc'[g] = pc[g] /\ call'[g] = call[g]

\* What a step may do to a fiber: it stays in its call, is outside of calls
\* afterwards, sleeps, or enters a call.
Moves(f) ==
  /\ call'[f].id >= call[f].id
  /\ \/ SameCall(f) /\ (InCall(f)' => InCall(f))
     \/ ~InCall(f)'
     \/ call'[f].op = "sleep" /\ call'[f].fd = None
     \/ Enters(f)

\* Every step moves the fibers in one of these ways.
LEMMA CallStep ==
  ASSUME Types, CallOK, TimerOK, FdOK, [Next]_vars
  PROVE  CallOK' /\ \A g \in Fibers : Moves(g)
  <1> DEFINE G == CallOK' /\ \A g \in Fibers : Moves(g)
  <1>a. pc \in [Fibers -> PCs] /\ call \in [Fibers -> Call] BY DEF Types, WaitTypes
  <1>z. \A g \in Fibers : call[g].id \in Nat BY <1>a DEF Call
  <1>b. ASSUME UNCHANGED pc, \A g \in Fibers : SameCall(g) PROVE G
    BY <1>b, <1>z DEF CallOK, Moves, SameCall, InCall
  <1>c. ASSUME NEW f \in Fibers, NEW r, Return(f, call[f], r) PROVE G
    <2>1. /\ pc' = [pc EXCEPT ![f] = "app"]
          /\ \A g \in Fibers \ {f} : call'[g] = call[g]
          /\ call'[f].id = call[f].id
      BY <1>a, <1>c DEF Return, Goto, Call
    <2>2. \A g \in Fibers : pc'[g] = IF g = f THEN "app" ELSE pc[g] BY <1>a, <2>1
    <2>3. CallOK' BY <2>1, <2>2 DEF CallOK, IoOps, Switched
    <2>4. \A g \in Fibers : Moves(g) BY <1>z, <2>1, <2>2 DEF Moves, SameCall, InCall
    <2> QED BY <2>3, <2>4
  <1>d. ASSUME NEW f \in Fibers, NEW p \in PCs, Goto(f, p), UNCHANGED call,
               p \in {"app", "done"} \/ InCall(f),
               p \in {"sys", "armed", "blocked"} => call[f].op \in IoOps, p # "start"
        PROVE  G
    <2>1. \A g \in Fibers : pc'[g] = IF g = f THEN p ELSE pc[g] BY <1>a, <1>d DEF Goto
    <2>2. \A g \in Fibers : Moves(g) BY <1>d, <1>z, <2>1 DEF Moves, SameCall, InCall
    <2>3. InCall(f) => call[f].op \in IoOps \cup {"sleep"}
      BY <1>a DEF InCall, CallOK, PCs, Switched
    <2>4. CallOK'
      <3> SUFFICES ASSUME NEW g \in Fibers
                   PROVE  /\ pc'[g] \in {"sys", "armed", "blocked"} => call[g].op \in IoOps
                          /\ pc'[g] \in Switched \cup {"woken"} => call[g].op \in IoOps \cup {"sleep"}
                          /\ pc'[g] \notin {"start", "app", "done"} =>
                               IF call[g].op = "sleep" THEN call[g].fd = None
                               ELSE call[g].fd \in Fds
        BY <1>d DEF CallOK
      <3>1. CASE g # f BY <2>1, <3>1 DEF CallOK
      <3>2. CASE g = f BY <1>d, <2>1, <2>3, <3>2 DEF CallOK, InCall, Switched
      <3> QED BY <3>1, <3>2
    <2> QED BY <2>2, <2>4
  <1>e. ASSUME NEW f \in Fibers, pc[f] = "app", call[f].id < MaxCalls,
               NEW op \in AllOps,
               NEW fd \in Fds \cup {None}, NEW l \in BOOLEAN,
               call' = [call EXCEPT ![f] = NewCall(f, op, fd, l)],
               \/ UNCHANGED pc
               \/ pc' = [pc EXCEPT ![f] = "yield"] /\ op = "sleep" /\ fd = None
               \/ /\ pc' = [pc EXCEPT ![f] = "sys"] /\ op \in IoOps /\ fd \in Fds /\ IsOpen(fd)
                  /\ UNCHANGED fdVars
                  /\ \A g \in Using(fd) : EventOf(call[g].op) # EventOf(op)
        PROVE  G
    <2>1. call'[f].op = op /\ call'[f].fd = fd /\ call'[f].id = call[f].id + 1
      BY <1>a, <1>e, NewCallType
    <2>2. \A g \in Fibers \ {f} : call'[g] = call[g] BY <1>a, <1>e
    <2>3. \A g \in Fibers \ {f} : pc'[g] = pc[g] BY <1>a, <1>e
    <2>4. \A g \in Fibers \ {f} : Moves(g)
      BY <1>z, <2>2, <2>3 DEF Moves, SameCall, InCall
    <2>5. Moves(f)
      <3>1. call'[f].id >= call[f].id BY <1>z, <2>1
      <3>2. ~InCall(f) BY <1>e DEF InCall
      <3>3. CASE UNCHANGED pc BY <3>1, <3>2, <3>3 DEF Moves, InCall
      <3>4. CASE op = "sleep" /\ fd = None BY <2>1, <3>1, <3>4 DEF Moves
      <3>5. CASE /\ fd \in Fds /\ IsOpen(fd) /\ UNCHANGED fdVars
                 /\ \A g \in Using(fd) : EventOf(call[g].op) # EventOf(op)
        BY <2>1, <2>2, <2>3, <3>1, <3>2, <3>5 DEF Moves, Enters
      <3> QED BY <1>e, <3>3, <3>4, <3>5
    <2>6. CallOK'
      BY <1>a, <1>e, <2>1, <2>2, <2>3, NullAssumption
      DEF NullAssumption, CallOK, IoOps, Switched
    <2> QED BY <2>4, <2>5, <2>6
  <1> HIDE DEF G
  <1>1. ASSUME NEW f \in Fibers, Resume(f)
        PROVE  G
    <2>1. CASE pc[f] = "start" BY <1>d, <1>1, <2>1 DEF Resume, PCs
    <2>2. CASE pc[f] = "held" BY <1>d, <1>1, <2>2 DEF Resume, PCs, InCall
    <2> QED BY <1>1, <2>1, <2>2 DEF Resume
  <1>2. ASSUME NEW f \in Fibers, SysIo(f)
        PROVE  G
    <2>1. pc[f] = "sys" /\ InCall(f) /\ call[f].op \in IoOps
      BY <1>2 DEF SysIo, InCall, CallOK
    <2>2. {"armed", "blocked"} \subseteq PCs BY DEF PCs
    <2> QED BY <1>c, <1>d, <1>2, <2>1, <2>2 DEF SysIo, AddConditionTimer
  <1>3. ASSUME NEW f \in Fibers, SysConnect(f)
        PROVE  G
    <2>1. pc[f] = "sys" /\ InCall(f) /\ call[f].op \in IoOps
      BY <1>3 DEF SysConnect, InCall, CallOK
    <2>2. {"armed", "blocked"} \subseteq PCs BY DEF PCs
    <2> QED BY <1>c, <1>d, <1>3, <2>1, <2>2 DEF SysConnect, AddConditionTimer
  <1>4. ASSUME NEW f \in Fibers, Unblock(f)
        PROVE  G
    BY <1>c, <1>4 DEF Unblock
  <1>4b. ASSUME NEW f \in Fibers, BlockedTooLong(f)
        PROVE  G
    <2>1. pc[f] = "blocked" /\ InCall(f) /\ call[f].op \in IoOps
      BY <1>4b DEF BlockedTooLong, InCall, CallOK
    <2>2. "armed" \in PCs BY DEF PCs
    <2> QED BY <1>d, <1>4b, <2>1, <2>2 DEF BlockedTooLong, AddConditionTimer
  <1>5. ASSUME NEW f \in Fibers, AddEvent(f)
        PROVE  G
    BY <1>d, <1>5 DEF AddEvent, PCs, InCall
  <1>6. ASSUME NEW f \in Fibers, AddEventFails(f)
        PROVE  G
    BY <1>c, <1>6 DEF AddEventFails, ConnectResult
  <1>7. ASSUME NEW f \in Fibers, YieldToHold(f)
        PROVE  G
    BY <1>d, <1>7 DEF YieldToHold, PCs, InCall
  <1>8. ASSUME NEW f \in Fibers, Woken(f)
        PROVE  G
    <2>1. ASSUME call[f].op \notin {"sleep", "connect"}, Goto(f, "sys"), UNCHANGED call
          PROVE  G
      <3>1. InCall(f) /\ call[f].op \in IoOps BY <1>8, <2>1 DEF Woken, InCall, CallOK
      <3> QED BY <1>d, <2>1, <3>1 DEF PCs
    <2> QED BY <1>c, <1>8, <2>1 DEF Woken, ConnectResult
  <1>9. ASSUME NEW t \in timers \cup expired \cup firing, Expire(t)
        PROVE  G
    <2>1. t.fiber \in Fibers BY DEF Types, WaitTypes, TimerType
    <2>2. \A g \in Fibers : SameCall(g) BY <1>a, <1>9, <2>1 DEF Expire, SameCall, Call
    <2> QED BY <1>b, <1>9, <2>2 DEF Expire
  <1>10. ASSUME NEW t \in timers \cup expired \cup firing, CallbackBegin(t)
        PROVE  G
    <2>1. t.fiber \in Fibers BY DEF Types, WaitTypes, TimerType
    <2>2. \A g \in Fibers : SameCall(g) BY <1>a, <1>10, <2>1 DEF CallbackBegin, SameCall, Call
    <2> QED BY <1>b, <1>10, <2>2 DEF CallbackBegin
  <1>11. ASSUME NEW t \in timers \cup expired \cup firing, CallbackCancel(t)
        PROVE  G
    BY <1>b, <1>11 DEF CallbackCancel, SameCall
  <1>12. ASSUME NEW t \in timers \cup expired \cup firing, CallbackSleep(t)
        PROVE  G
    BY <1>b, <1>12 DEF CallbackSleep, SameCall
  <1>13. ASSUME NEW f \in Fibers, BeginSleep(f)
        PROVE  G
    BY <1>e, <1>13 DEF BeginSleep, MayCall, Goto, AllOps
  <1>14. ASSUME NEW f \in Fibers, Finish(f)
        PROVE  G
    BY <1>d, <1>14 DEF Finish, PCs
  <1>15. ASSUME NEW f \in Fibers, NEW fd \in Fds,
                NEW op \in {"read", "write", "accept"}, BeginIo(f, op, fd)
        PROVE  G
    <2>1. op \in AllOps /\ op \in IoOps /\ "sleep" \in AllOps BY DEF AllOps, IoOps
    <2>2. CASE m_datas[fd].userNonblock
      BY <1>e, <1>15, <2>1, <2>2 DEF BeginIo, MayCall, Immediate
    <2>3. CASE ~m_datas[fd].userNonblock
      <3>1. m_datas[fd].timeout[EventOf(op)] \in BOOLEAN
        BY <1>15 DEF BeginIo, IsOpen, FdOK, Types, FdTypeOK, FdCtx, EventOf, Events
      <3> QED BY <1>e, <1>15, <2>1, <2>3, <3>1 DEF BeginIo, MayCall, Goto
    <2> QED BY <2>2, <2>3
  <1>16. ASSUME NEW f \in Fibers, NEW fd \in Fds, NEW limited \in BOOLEAN,
                BeginConnect(f, fd, limited)
        PROVE  G
    BY <1>e, <1>16 DEF BeginConnect, MayCall, Goto, AllOps, IoOps
  <1>17. ASSUME NEW f \in Fibers, NEW fd \in Fds, Control(f, fd)
        PROVE  G
    BY <1>e, <1>17 DEF Control, MayCall, Immediate, AllOps
  <1>18. ASSUME NEW f \in Fibers, NEW fd \in Fds, CancelAll(f, fd)
        PROVE  G
    BY <1>e, <1>18 DEF CancelAll, MayCall, AllOps
  <1>19. ASSUME NEW fd \in Fds, NEW e \in Events, TriggerEvent(fd, e)
        PROVE  G
    BY <1>b, <1>19 DEF TriggerEvent, SameCall
  <1>20. ASSUME NEW fd \in Fds, NEW e \in Events, Readiness(fd, e)
        PROVE  G
    BY <1>b, <1>20 DEF Readiness, ioVars, SameCall
  <1>21. ASSUME NEW fd \in Fds, NEW how \in {"up", "refused"}, ConnectEnds(fd, how)
        PROVE  G
    BY <1>b, <1>21 DEF ConnectEnds, ioVars, SameCall
  <1>22. ASSUME UNCHANGED vars PROVE G
    BY <1>b, <1>22 DEF vars, ioVars, SameCall
  <1>23. G
    BY <1>1, <1>2, <1>3, <1>4, <1>4b, <1>5, <1>6, <1>7, <1>8, <1>9, <1>10, <1>11, <1>12,
       <1>13, <1>14, <1>15, <1>16, <1>17, <1>18, <1>19, <1>20, <1>21, <1>22
    DEF Next, FiberStep, CallbackStep, Request, KernelStep
  <1> QED BY <1>23 DEF G

\* A descriptor in use stays open and keeps one user per direction.
LEMMA UseStep ==
  ASSUME Types, CallOK, TimerOK, FdOK, UseOK, [Next]_vars
  PROVE  UseOK'
  <1>1. \A g \in Fibers : Moves(g) BY CallStep
  <1>2. \A fd \in Fds : IsOpen(fd) /\ Using(fd) # {} => kernel'[fd] # None
    BY FdStep
  <1>3. None \notin Fds BY NullAssumption DEF NullAssumption
  <1> SUFFICES ASSUME NEW fd \in Fds
               PROVE  /\ Using(fd)' # {} => kernel'[fd] # None
                      /\ \A f, g \in Using(fd)' :
                           EventOf(call'[f].op) = EventOf(call'[g].op) => f = g
    BY DEF UseOK, IsOpen
  <1>4. \A f \in Using(fd)' : \/ f \in Using(fd) /\ SameCall(f)
                              \/ Enters(f) /\ call'[f].fd = fd
    BY <1>1, <1>3 DEF Moves, Using, InCall, SameCall
  <1>5. Using(fd)' # {} => kernel'[fd] # None
    BY <1>2, <1>4 DEF UseOK, Enters, IsOpen, fdVars
  <1>6. ASSUME NEW f \in Using(fd)', NEW g \in Using(fd)',
               EventOf(call'[f].op) = EventOf(call'[g].op), f # g
        PROVE  FALSE
    <2>1. CASE SameCall(f) /\ SameCall(g) /\ f \in Using(fd) /\ g \in Using(fd)
      BY <1>6, <2>1 DEF UseOK, SameCall
    <2>2. ASSUME NEW h \in Fibers, NEW k \in Using(fd)', k # h,
                 Enters(h), call'[h].fd = fd,
                 EventOf(call'[h].op) = EventOf(call'[k].op)
          PROVE  FALSE
      <3>1. k \in Using(fd) /\ call'[k] = call[k] BY <2>2 DEF Enters, Using
      <3> QED BY <2>2, <3>1 DEF Enters
    <2>3. f \in Fibers /\ g \in Fibers BY DEF Using
    <2> QED BY <1>4, <1>6, <2>1, <2>2, <2>3
  <1> QED BY <1>5, <1>6


-----------------------------------------------------------------------------
AllTimers == timers \cup expired \cup firing

\* Timers are made for the current call.
LEMMA TimerStep ==
  ASSUME Types, CallOK, TimerOK, FdOK, [Next]_vars
  PROVE  TimerOK'
  <1> DEFINE G == \A t \in AllTimers' :
                    \/ t \in AllTimers
                    \/ /\ t.fiber \in Fibers /\ t.id = call'[t.fiber].id
                       /\ t.id \in Nat /\ (t.op # "sleep" => t.fd \in Fds)
  <1>a. pc \in [Fibers -> PCs] /\ call \in [Fibers -> Call] BY DEF Types, WaitTypes
  <1>z. \A g \in Fibers : call[g].id \in Nat BY <1>a DEF Call
  <1>b. ASSUME AllTimers' \subseteq AllTimers PROVE G BY <1>b
  <1>c. ASSUME NEW f \in Fibers, pc[f] \in {"sys", "blocked"}, AddConditionTimer(f),
               UNCHANGED <<expired, firing>>
        PROVE  G
    <2>1. call[f].fd \in Fds BY <1>c DEF CallOK, IoOps
    <2>2. \A t \in AllTimers' : t \in AllTimers \/ t = Timer(f)
      BY <1>c DEF AddConditionTimer, AllTimers
    <2>3. Timer(f).fiber = f /\ Timer(f).id = call[f].id /\ Timer(f).fd = call[f].fd
      BY DEF Timer
    <2>4. call' = call BY <1>c DEF AddConditionTimer
    <2> QED BY <1>z, <2>1, <2>2, <2>3, <2>4
  <1>d. ASSUME NEW f \in Fibers, call[f].id < MaxCalls, NEW op \in AllOps,
               NEW fd \in Fds \cup {None}, NEW l \in BOOLEAN,
               call' = [call EXCEPT ![f] = NewCall(f, op, fd, l)]
        PROVE  call'[f].id = call[f].id + 1
    BY <1>a, <1>d, NewCallType
  <1> HIDE DEF G
  <1>1. ASSUME NEW f \in Fibers, Resume(f)
        PROVE  G
    BY <1>b, <1>1 DEF Resume, AllTimers
  <1>2. ASSUME NEW f \in Fibers, SysIo(f)
        PROVE  G
    BY <1>b, <1>c, <1>2 DEF SysIo, AllTimers
  <1>3. ASSUME NEW f \in Fibers, SysConnect(f)
        PROVE  G
    BY <1>b, <1>c, <1>3 DEF SysConnect, AllTimers
  <1>4. ASSUME NEW f \in Fibers, Unblock(f)
        PROVE  G
    BY <1>b, <1>4 DEF Unblock, AllTimers
  <1>4b. ASSUME NEW f \in Fibers, BlockedTooLong(f)
        PROVE  G
    BY <1>c, <1>4b DEF BlockedTooLong
  <1>5. ASSUME NEW f \in Fibers, AddEvent(f)
        PROVE  G
    BY <1>b, <1>5 DEF AddEvent, AllTimers
  <1>6. ASSUME NEW f \in Fibers, AddEventFails(f)
        PROVE  G
    BY <1>b, <1>6 DEF AddEventFails, ConnectResult, AllTimers
  <1>7. ASSUME NEW f \in Fibers, YieldToHold(f)
        PROVE  G
    BY <1>b, <1>7 DEF YieldToHold, AllTimers
  <1>8. ASSUME NEW f \in Fibers, Woken(f)
        PROVE  G
    BY <1>b, <1>8 DEF Woken, CancelTimer, ConnectResult, AllTimers
  <1>9. ASSUME NEW t \in timers \cup expired \cup firing, Expire(t)
        PROVE  G
    BY <1>b, <1>9 DEF Expire, AllTimers
  <1>10. ASSUME NEW t \in timers \cup expired \cup firing, CallbackBegin(t)
        PROVE  G
    BY <1>b, <1>10 DEF CallbackBegin, AllTimers
  <1>11. ASSUME NEW t \in timers \cup expired \cup firing, CallbackCancel(t)
        PROVE  G
    BY <1>b, <1>11 DEF CallbackCancel, AllTimers
  <1>12. ASSUME NEW t \in timers \cup expired \cup firing, CallbackSleep(t)
        PROVE  G
    BY <1>b, <1>12 DEF CallbackSleep, AllTimers
  <1>13. ASSUME NEW f \in Fibers, BeginSleep(f)
        PROVE  G
    <2> DEFINE new == [fiber |-> f, id |-> call[f].id + 1, op |-> "sleep", fd |-> None]
    <2>1. \A t \in AllTimers' : t \in AllTimers \/ t = new
      BY <1>13 DEF BeginSleep, AllTimers
    <2>2. new.fiber = f /\ new.id = call[f].id + 1 /\ new.op = "sleep" OBVIOUS
    <2>3. call' = [call EXCEPT ![f] = NewCall(f, "sleep", None, TRUE)] /\ call[f].id < MaxCalls
      BY <1>13 DEF BeginSleep, MayCall
    <2>4. "sleep" \in AllOps BY DEF AllOps
    <2>5. call'[f].id = call[f].id + 1 BY <1>d, <2>3, <2>4
    <2>6. call[f].id + 1 \in Nat BY <1>z
    <2> HIDE DEF new
    <2> QED BY <2>1, <2>2, <2>5, <2>6 DEF G
  <1>14. ASSUME NEW f \in Fibers, Finish(f)
        PROVE  G
    BY <1>b, <1>14 DEF Finish, AllTimers
  <1>15. ASSUME NEW f \in Fibers, NEW fd \in Fds,
                NEW op \in {"read", "write", "accept"}, BeginIo(f, op, fd)
        PROVE  G
    BY <1>b, <1>15 DEF BeginIo, Immediate, AllTimers
  <1>16. ASSUME NEW f \in Fibers, NEW fd \in Fds, NEW limited \in BOOLEAN,
                BeginConnect(f, fd, limited)
        PROVE  G
    BY <1>b, <1>16 DEF BeginConnect, AllTimers
  <1>17. ASSUME NEW f \in Fibers, NEW fd \in Fds, Control(f, fd)
        PROVE  G
    BY <1>b, <1>17 DEF Control, Immediate, AllTimers
  <1>18. ASSUME NEW f \in Fibers, NEW fd \in Fds, CancelAll(f, fd)
        PROVE  G
    BY <1>b, <1>18 DEF CancelAll, AllTimers
  <1>19. ASSUME NEW fd \in Fds, NEW e \in Events, TriggerEvent(fd, e)
        PROVE  G
    BY <1>b, <1>19 DEF TriggerEvent, AllTimers
  <1>20. ASSUME NEW fd \in Fds, NEW e \in Events, Readiness(fd, e)
        PROVE  G
    BY <1>b, <1>20 DEF Readiness, ioVars, AllTimers
  <1>21. ASSUME NEW fd \in Fds, NEW how \in {"up", "refused"}, ConnectEnds(fd, how)
        PROVE  G
    BY <1>b, <1>21 DEF ConnectEnds, ioVars, AllTimers
  <1>22. ASSUME UNCHANGED vars PROVE G
    BY <1>b, <1>22 DEF vars, ioVars, AllTimers
  <1>23. G
    BY <1>1, <1>2, <1>3, <1>4, <1>4b, <1>5, <1>6, <1>7, <1>8, <1>9, <1>10, <1>11, <1>12,
       <1>13, <1>14, <1>15, <1>16, <1>17, <1>18, <1>19, <1>20, <1>21, <1>22
    DEF Next, FiberStep, CallbackStep, Request, KernelStep
  <1>24. \A g \in Fibers : call'[g].id >= call[g].id BY CallStep DEF Moves
  <1>25. call' \in [Fibers -> Call] BY CallTypesStep
  <1> SUFFICES ASSUME NEW t \in AllTimers'
               PROVE  t.id <= call'[t.fiber].id /\ (t.op # "sleep" => t.fd \in Fds)
    BY DEF TimerOK, AllTimers
  <1>26. CASE t \in AllTimers
    <2>1. t \in TimerType BY <1>26 DEF AllTimers, Types, WaitTypes
    <2>2. t.fiber \in Fibers /\ t.id \in Nat BY <2>1 DEF TimerType
    <2>3. t.id <= call[t.fiber].id /\ (t.op # "sleep" => t.fd \in Fds)
      BY <1>26 DEF TimerOK, AllTimers
    <2>4. call'[t.fiber].id \in Nat BY <1>25, <2>2 DEF Call
    <2> QED BY <1>z, <1>24, <2>2, <2>3, <2>4
  <1>27. CASE t \notin AllTimers BY <1>23, <1>27 DEF G
  <1> QED BY <1>26, <1>27

\* Only a timer of the call itself makes the call time out.
LEMMA TimeoutStep ==
  ASSUME Types, TimerOK, FdOK, TimeoutOK, [Next]_vars
  PROVE  TimeoutOK'
  <1> DEFINE G == TimeoutOK'
  <1>a. call \in [Fibers -> Call] BY DEF Types
  <1>z. /\ \A t \in AllTimers : t.fiber \in Fibers /\ t.id \in Nat
        /\ \A g \in Fibers : call[g].id \in Nat
    BY <1>a DEF Types, WaitTypes, AllTimers, TimerType, Call
  <1>b. ASSUME UNCHANGED call, expired' \subseteq expired PROVE G
    BY <1>b DEF TimeoutOK
  <1>c. ASSUME NEW f \in Fibers, NEW r, Return(f, call[f], r), UNCHANGED expired,
               r = "ETIMEDOUT" => call[f].cancelled
        PROVE  G
    <2>1. \A g \in Fibers \ {f} : call'[g] = call[g] BY <1>a, <1>c DEF Return
    <2>2. /\ call'[f].id = call[f].id /\ call'[f].result = r
          /\ call'[f].cancelled = call[f].cancelled
          /\ call'[f].ownExpired = call[f].ownExpired
      BY <1>a, <1>c DEF Return, Call
    <2>3. \A g \in Fibers : call'[g].cancelled \/ call'[g].result = "ETIMEDOUT" => call'[g].ownExpired
      BY <1>c, <2>1, <2>2 DEF TimeoutOK
    <2>4. \A t \in expired : call'[t.fiber].id = t.id => call'[t.fiber].ownExpired
      BY <1>z, <2>1, <2>2 DEF TimeoutOK, AllTimers
    <2> QED BY <1>c, <2>3, <2>4 DEF TimeoutOK
  <1>d. ASSUME NEW f \in Fibers, call[f].id < MaxCalls, NEW op \in AllOps,
               NEW fd \in Fds \cup {None}, NEW l \in BOOLEAN, UNCHANGED expired,
               call' = [call EXCEPT ![f] = NewCall(f, op, fd, l)]
        PROVE  G
    <2>1. \A g \in Fibers \ {f} : call'[g] = call[g] BY <1>a, <1>d
    <2>2. /\ call'[f].id = call[f].id + 1 /\ call'[f].result = "none"
          /\ ~call'[f].cancelled
      BY <1>a, <1>d, NewCallType
    <2>3. \A g \in Fibers : call'[g].cancelled \/ call'[g].result = "ETIMEDOUT" => call'[g].ownExpired
      BY <2>1, <2>2 DEF TimeoutOK
    <2>4. ASSUME NEW t \in expired, call'[t.fiber].id = t.id PROVE call'[t.fiber].ownExpired
      <3>1. t.id <= call[t.fiber].id /\ t.fiber \in Fibers /\ t.id \in Nat
        BY <1>z DEF TimerOK, AllTimers
      <3>2. t.fiber # f BY <1>z, <2>2, <2>4, <3>1
      <3> QED BY <2>1, <2>4, <3>1, <3>2 DEF TimeoutOK
    <2> QED BY <1>d, <2>3, <2>4 DEF TimeoutOK
  <1> HIDE DEF G
  <1>1. ASSUME NEW f \in Fibers, Resume(f)
        PROVE  G
    BY <1>b, <1>1 DEF Resume
  <1>2. ASSUME NEW f \in Fibers, SysIo(f)
        PROVE  G
    BY <1>b, <1>c, <1>2 DEF SysIo, AddConditionTimer
  <1>3. ASSUME NEW f \in Fibers, SysConnect(f)
        PROVE  G
    BY <1>b, <1>c, <1>3 DEF SysConnect, AddConditionTimer
  <1>4. ASSUME NEW f \in Fibers, Unblock(f)
        PROVE  G
    BY <1>c, <1>4 DEF Unblock
  <1>4b. ASSUME NEW f \in Fibers, BlockedTooLong(f)
        PROVE  G
    BY <1>b, <1>4b DEF BlockedTooLong, AddConditionTimer
  <1>5. ASSUME NEW f \in Fibers, AddEvent(f)
        PROVE  G
    BY <1>b, <1>5 DEF AddEvent
  <1>6. ASSUME NEW f \in Fibers, AddEventFails(f)
        PROVE  G
    BY <1>c, <1>6 DEF AddEventFails, ConnectResult
  <1>7. ASSUME NEW f \in Fibers, YieldToHold(f)
        PROVE  G
    BY <1>b, <1>7 DEF YieldToHold
  <1>8. ASSUME NEW f \in Fibers, Woken(f)
        PROVE  G
    BY <1>b, <1>c, <1>8 DEF Woken, ConnectResult
  <1>9. ASSUME NEW t \in timers \cup expired \cup firing, Expire(t)
        PROVE  G
    <2>1. t.fiber \in Fibers BY <1>z DEF AllTimers
    <2>2. CASE call[t.fiber].id = t.id
      <3>1. call' = [call EXCEPT ![t.fiber].ownExpired = TRUE] /\ expired' = expired \cup {t}
        BY <1>9, <2>2 DEF Expire
      <3>2. /\ \A g \in Fibers \ {t.fiber} : call'[g] = call[g]
            /\ call'[t.fiber].ownExpired
        BY <1>a, <2>1, <3>1 DEF Call
      <3>3. \A g \in Fibers : call'[g].cancelled \/ call'[g].result = "ETIMEDOUT" => call'[g].ownExpired
        BY <3>2 DEF TimeoutOK
      <3>4. \A u \in expired' : call'[u.fiber].id = u.id => call'[u.fiber].ownExpired
        BY <1>z, <3>1, <3>2 DEF TimeoutOK, AllTimers
      <3> QED BY <3>3, <3>4 DEF G, TimeoutOK
    <2>3. CASE call[t.fiber].id # t.id
      BY <1>9, <2>3 DEF G, Expire, TimeoutOK
    <2> QED BY <2>2, <2>3
  <1>10. ASSUME NEW t \in timers \cup expired \cup firing, CallbackBegin(t)
        PROVE  G
    <2>1. t.fiber \in Fibers BY <1>z DEF AllTimers
    <2>2. CASE InfoAlive(t) /\ ~call[t.fiber].cancelled
      <3>1. /\ call' = [call EXCEPT ![t.fiber].cancelled = TRUE] /\ expired' = expired \ {t}
            /\ t \in expired /\ call[t.fiber].id = t.id
        BY <1>10, <2>2 DEF CallbackBegin, InfoAlive
      <3>2. call[t.fiber].ownExpired BY <3>1 DEF TimeoutOK
      <3>3. /\ \A g \in Fibers \ {t.fiber} : call'[g] = call[g]
            /\ call'[t.fiber].ownExpired
        BY <1>a, <2>1, <3>1, <3>2 DEF Call
      <3>4. \A g \in Fibers : call'[g].cancelled \/ call'[g].result = "ETIMEDOUT" => call'[g].ownExpired
        BY <3>3 DEF TimeoutOK
      <3>5. \A u \in expired' : call'[u.fiber].id = u.id => call'[u.fiber].ownExpired
        BY <1>z, <3>1, <3>3 DEF TimeoutOK, AllTimers
      <3> QED BY <3>4, <3>5 DEF G, TimeoutOK
    <2>3. CASE ~(InfoAlive(t) /\ ~call[t.fiber].cancelled)
      BY <1>b, <1>10, <2>3 DEF CallbackBegin
    <2> QED BY <2>2, <2>3
  <1>11. ASSUME NEW t \in timers \cup expired \cup firing, CallbackCancel(t)
        PROVE  G
    BY <1>b, <1>11 DEF CallbackCancel
  <1>12. ASSUME NEW t \in timers \cup expired \cup firing, CallbackSleep(t)
        PROVE  G
    BY <1>b, <1>12 DEF CallbackSleep
  <1>13. ASSUME NEW f \in Fibers, BeginSleep(f)
        PROVE  G
    BY <1>d, <1>13 DEF BeginSleep, MayCall, AllOps
  <1>14. ASSUME NEW f \in Fibers, Finish(f)
        PROVE  G
    BY <1>b, <1>14 DEF Finish
  <1>15. ASSUME NEW f \in Fibers, NEW fd \in Fds,
                NEW op \in {"read", "write", "accept"}, BeginIo(f, op, fd)
        PROVE  G
    <2>1. op \in AllOps /\ "sleep" \in AllOps BY DEF AllOps
    <2>2. m_datas[fd].timeout[EventOf(op)] \in BOOLEAN
      BY <1>15 DEF BeginIo, IsOpen, FdOK, Types, FdTypeOK, FdCtx, EventOf, Events
    <2> QED BY <1>d, <1>15, <2>1, <2>2 DEF BeginIo, MayCall, Immediate
  <1>16. ASSUME NEW f \in Fibers, NEW fd \in Fds, NEW limited \in BOOLEAN,
                BeginConnect(f, fd, limited)
        PROVE  G
    BY <1>d, <1>16 DEF BeginConnect, MayCall, AllOps
  <1>17. ASSUME NEW f \in Fibers, NEW fd \in Fds, Control(f, fd)
        PROVE  G
    BY <1>d, <1>17 DEF Control, MayCall, Immediate, AllOps
  <1>18. ASSUME NEW f \in Fibers, NEW fd \in Fds, CancelAll(f, fd)
        PROVE  G
    BY <1>d, <1>18 DEF CancelAll, MayCall, AllOps
  <1>19. ASSUME NEW fd \in Fds, NEW e \in Events, TriggerEvent(fd, e)
        PROVE  G
    BY <1>b, <1>19 DEF TriggerEvent
  <1>20. ASSUME NEW fd \in Fds, NEW e \in Events, Readiness(fd, e)
        PROVE  G
    BY <1>b, <1>20 DEF Readiness, ioVars
  <1>21. ASSUME NEW fd \in Fds, NEW how \in {"up", "refused"}, ConnectEnds(fd, how)
        PROVE  G
    BY <1>b, <1>21 DEF ConnectEnds, ioVars
  <1>22. ASSUME UNCHANGED vars PROVE G
    BY <1>b, <1>22 DEF vars, ioVars
  <1>23. G
    BY <1>1, <1>2, <1>3, <1>4, <1>4b, <1>5, <1>6, <1>7, <1>8, <1>9, <1>10, <1>11, <1>12,
       <1>13, <1>14, <1>15, <1>16, <1>17, <1>18, <1>19, <1>20, <1>21, <1>22
    DEF Next, FiberStep, CallbackStep, Request, KernelStep
  <1> QED BY <1>23 DEF G

\* The callback of a sleep is never between its two halves.
LEMMA FiringStep == FiringOK /\ [Next]_vars => FiringOK'
  <1> SUFFICES ASSUME FiringOK, [Next]_vars PROVE FiringOK'
    OBVIOUS
  <1>1. ASSUME NEW f \in Fibers, Resume(f)
        PROVE  FiringOK'
    BY <1>1 DEF FiringOK, Resume
  <1>2. ASSUME NEW f \in Fibers, SysIo(f)
        PROVE  FiringOK'
    BY <1>2 DEF FiringOK, SysIo
  <1>3. ASSUME NEW f \in Fibers, SysConnect(f)
        PROVE  FiringOK'
    BY <1>3 DEF FiringOK, SysConnect
  <1>4. ASSUME NEW f \in Fibers, Unblock(f)
        PROVE  FiringOK'
    BY <1>4 DEF FiringOK, Unblock
  <1>4b. ASSUME NEW f \in Fibers, BlockedTooLong(f)
        PROVE  FiringOK'
    BY <1>4b DEF FiringOK, BlockedTooLong
  <1>5. ASSUME NEW f \in Fibers, AddEvent(f)
        PROVE  FiringOK'
    BY <1>5 DEF FiringOK, AddEvent
  <1>6. ASSUME NEW f \in Fibers, AddEventFails(f)
        PROVE  FiringOK'
    BY <1>6 DEF FiringOK, AddEventFails
  <1>7. ASSUME NEW f \in Fibers, YieldToHold(f)
        PROVE  FiringOK'
    BY <1>7 DEF FiringOK, YieldToHold
  <1>8. ASSUME NEW f \in Fibers, Woken(f)
        PROVE  FiringOK'
    BY <1>8 DEF FiringOK, Woken
  <1>9. ASSUME NEW t \in timers \cup expired \cup firing, Expire(t)
        PROVE  FiringOK'
    BY <1>9 DEF FiringOK, Expire
  <1>10. ASSUME NEW t \in timers \cup expired \cup firing, CallbackBegin(t)
        PROVE  FiringOK'
    BY <1>10 DEF FiringOK, CallbackBegin
  <1>11. ASSUME NEW t \in timers \cup expired \cup firing, CallbackCancel(t)
        PROVE  FiringOK'
    BY <1>11 DEF FiringOK, CallbackCancel
  <1>12. ASSUME NEW t \in timers \cup expired \cup firing, CallbackSleep(t)
        PROVE  FiringOK'
    BY <1>12 DEF FiringOK, CallbackSleep
  <1>13. ASSUME NEW f \in Fibers, BeginSleep(f)
        PROVE  FiringOK'
    BY <1>13 DEF FiringOK, BeginSleep
  <1>14. ASSUME NEW f \in Fibers, Finish(f)
        PROVE  FiringOK'
    BY <1>14 DEF FiringOK, Finish
  <1>15. ASSUME NEW f \in Fibers, NEW fd \in Fds,
                NEW op \in {"read", "write", "accept"}, BeginIo(f, op, fd)
        PROVE  FiringOK'
    BY <1>15 DEF FiringOK, BeginIo, Immediate
  <1>16. ASSUME NEW f \in Fibers, NEW fd \in Fds, NEW limited \in BOOLEAN,
                BeginConnect(f, fd, limited)
        PROVE  FiringOK'
    BY <1>16 DEF FiringOK, BeginConnect
  <1>17. ASSUME NEW f \in Fibers, NEW fd \in Fds, Control(f, fd)
        PROVE  FiringOK'
    BY <1>17 DEF FiringOK, Control, Immediate
  <1>18. ASSUME NEW f \in Fibers, NEW fd \in Fds, CancelAll(f, fd)
        PROVE  FiringOK'
    BY <1>18 DEF FiringOK, CancelAll
  <1>19. ASSUME NEW fd \in Fds, NEW e \in Events, TriggerEvent(fd, e)
        PROVE  FiringOK'
    BY <1>19 DEF FiringOK, TriggerEvent
  <1>20. ASSUME NEW fd \in Fds, NEW e \in Events, Readiness(fd, e)
        PROVE  FiringOK'
    BY <1>20 DEF FiringOK, Readiness, ioVars
  <1>21. ASSUME NEW fd \in Fds, NEW how \in {"up", "refused"}, ConnectEnds(fd, how)
        PROVE  FiringOK'
    BY <1>21 DEF FiringOK, ConnectEnds, ioVars
  <1>22. CASE UNCHANGED vars
    BY <1>22 DEF vars, ioVars, FiringOK
  <1> QED
    BY <1>1, <1>2, <1>3, <1>4, <1>4b, <1>5, <1>6, <1>7, <1>8, <1>9, <1>10, <1>11, <1>12,
       <1>13, <1>14, <1>15, <1>16, <1>17, <1>18, <1>19, <1>20, <1>21, <1>22
    DEF Next, FiberStep, CallbackStep, Request, KernelStep


-----------------------------------------------------------------------------
\* The timers of sleeps are left as they are.
SameSleeps ==
  \A t \in TimerType :
    t.op = "sleep" => (t \in timers' <=> t \in timers) /\ (t \in expired' <=> t \in expired)

\* Nobody starts or stops waiting, and who waits does so in the same call.
SameWaits ==
  \A f \in Fibers :
    /\ pc'[f] = "start" <=> pc[f] = "start"
    /\ pc'[f] \in Switched <=> pc[f] \in Switched
    /\ pc[f] \in Switched => SameCall(f)

\* The parts of OneWakeup for one fiber, one EventContext and one sleep timer.
FiberWakes(f) ==
  /\ pc[f] = "start" => queued[f] = 1
  /\ queued[f] = 1 => pc[f] \in {"start"} \cup Switched
  /\ pc[f] \in Switched /\ queued[f] = 0 => Registered(f) \/ Sleeping(f)
EventWakes(fd, e) ==
  LET f == events[fd][e] IN
  f # None => /\ pc[f] \in Switched /\ queued[f] = 0
              /\ call[f].fd = fd /\ EventOf(call[f].op) = e
SleepWakes(t) ==
  t.op = "sleep" => /\ pc[t.fiber] \in Switched /\ queued[t.fiber] = 0
                    /\ t = Timer(t.fiber)
                    /\ ~(t \in timers /\ t \in expired)

\* A step that touches no wake-up.
LEMMA QuietKeeps ==
  ASSUME Types, Types', OneWakeup, UNCHANGED <<queued, events>>, SameSleeps, SameWaits
  PROVE  OneWakeup'
  <1>1. \A t \in Pending' : t.op = "sleep" => t \in Pending
    BY DEF Types, WaitTypes, SameSleeps, Pending
  <1>2. \A t \in Pending : t.op = "sleep" => t \in Pending'
    BY DEF Types, WaitTypes, SameSleeps, Pending
  <1>3. \A f \in Fibers : Sleeping(f)' <=> Sleeping(f)
    BY <1>1, <1>2 DEF Sleeping
  <1>4. \A f \in Fibers : Registered(f)' <=> Registered(f)
    BY DEF Registered
  <1>5. \A f \in Fibers : FiberWakes(f)'
    BY <1>3, <1>4 DEF OneWakeup, FiberWakes, SameWaits
  <1>6. ASSUME NEW fd \in Fds, NEW e \in Events PROVE EventWakes(fd, e)'
    <2>1. events[fd][e] \in Fibers \cup {None} BY DEF Types, WaitTypes
    <2> QED BY <2>1 DEF OneWakeup, EventWakes, SameWaits, SameCall
  <1>7. ASSUME NEW t \in Pending' PROVE SleepWakes(t)'
    <2>1. t \in TimerType /\ t.fiber \in Fibers BY DEF Types, WaitTypes, Pending, TimerType
    <2>2. SUFFICES ASSUME t.op = "sleep" PROVE SleepWakes(t)' BY DEF SleepWakes
    <2>3. t \in Pending BY <1>1, <2>2
    <2>4. SleepWakes(t) BY <2>3 DEF OneWakeup, SleepWakes
    <2>5. Timer(t.fiber)' = Timer(t.fiber)
      BY <2>1, <2>2, <2>4 DEF SameWaits, SameCall, SleepWakes, Timer
    <2> QED BY <2>1, <2>2, <2>4, <2>5 DEF SleepWakes, SameSleeps, SameWaits
  <1> QED BY <1>5, <1>6, <1>7 DEF OneWakeup, FiberWakes, EventWakes, SleepWakes

\* A fiber taken out of its EventContext is queued instead.
LEMMA ScheduleKeeps ==
  ASSUME Types, Types', CallOK, OneWakeup, NEW fd \in Fds, NEW e \in Events, Schedule(fd, e),
         UNCHANGED <<pc, call, timers, expired>>
  PROVE  OneWakeup'
  <1> DEFINE f == events[fd][e]
  <1>0. events \in [Fds -> [Events -> Fibers \cup {None}]] BY DEF Types, WaitTypes
  <1>n. None \notin Fibers BY HookAssumption DEF HookAssumption
  <1>1. \A g \in Fds, x \in Events :
          events'[g][x] = IF g = fd /\ x = e THEN None ELSE events[g][x]
    BY <1>0 DEF Schedule
  <1>2. CASE f = None
    <2>1. UNCHANGED queued BY <1>2 DEF Schedule
    <2>2. \A g \in Fds, x \in Events : events'[g][x] = events[g][x] BY <1>1, <1>2
    <2>3. \A g \in Fibers : (Registered(g)' <=> Registered(g)) /\ (Sleeping(g)' <=> Sleeping(g))
      BY <2>2 DEF Registered, Sleeping, Pending
    <2>4. \A g \in Fibers : FiberWakes(g)' BY <2>1, <2>3 DEF OneWakeup, FiberWakes
    <2>5. \A g \in Fds, x \in Events : EventWakes(g, x)'
      BY <2>1, <2>2 DEF OneWakeup, EventWakes
    <2>6. \A t \in Pending' : SleepWakes(t)'
      BY <2>1 DEF OneWakeup, SleepWakes, Timer, Pending
    <2> QED BY <2>1, <2>4, <2>5, <2>6 DEF OneWakeup, FiberWakes, EventWakes, SleepWakes
  <1>3. CASE f # None
    <2>1. f \in Fibers BY <1>0, <1>3
    <2>2. pc[f] \in Switched /\ queued[f] = 0 /\ call[f].fd = fd /\ EventOf(call[f].op) = e
      BY <1>3 DEF OneWakeup
    <2>3. /\ queued' \in [Fibers -> 0 .. 1] /\ queued'[f] = 1
          /\ \A g \in Fibers \ {f} : queued'[g] = queued[g]
      BY <1>3, <2>1, <2>2 DEF Schedule, OneWakeup
    <2>4. \A g \in Fibers \ {f} : (Registered(g) => Registered(g)') /\ (Sleeping(g) => Sleeping(g)')
      BY <1>1 DEF Registered, Sleeping, Pending
    <2>5. \A g \in Fibers : FiberWakes(g)'
      BY <2>2, <2>3, <2>4 DEF OneWakeup, FiberWakes, Switched
    <2>6. \A g \in Fds, x \in Events : events'[g][x] # None => events'[g][x] # f
      BY <1>1, <2>2 DEF OneWakeup
    <2>7. \A g \in Fds, x \in Events : EventWakes(g, x)'
      BY <1>0, <1>1, <2>3, <2>6 DEF OneWakeup, EventWakes
    <2>8. ASSUME NEW t \in Pending, t.op = "sleep" PROVE t.fiber # f /\ t.fiber \in Fibers
      <3>1. t.fiber \in Fibers BY DEF Pending, Types, WaitTypes, TimerType
      <3>2. t = Timer(t.fiber) BY <2>8 DEF OneWakeup
      <3>3. t.fiber = f => call[f].op = "sleep" BY <2>8, <3>2 DEF Timer
      <3>4. call[f].op = "sleep" => call[f].fd = None BY <2>1, <2>2 DEF CallOK, Switched
      <3>5. fd # None BY NullAssumption DEF NullAssumption
      <3> QED BY <2>2, <3>1, <3>3, <3>4, <3>5
    <2>9. \A t \in Pending' : SleepWakes(t)'
      BY <2>3, <2>8 DEF OneWakeup, SleepWakes, Timer, Pending
    <2> QED BY <2>3, <2>5, <2>7, <2>9 DEF OneWakeup, FiberWakes, EventWakes, SleepWakes
  <1> QED BY <1>2, <1>3

\* A fiber is resumed by the one wake-up it had.
LEMMA ResumeKeeps ==
  ASSUME Types, Types', CallOK, OneWakeup, NEW f \in Fibers, Resume(f)
  PROVE  OneWakeup'
  <1>1. /\ queued[f] = 1 /\ pc[f] \in {"start", "held"}
        /\ pc' = [pc EXCEPT ![f] = IF pc[f] = "start" THEN "app" ELSE "woken"]
        /\ queued' = [queued EXCEPT ![f] = queued[f] - 1]
        /\ UNCHANGED <<call, events, timers, expired>>
    BY DEF Resume, Goto, OneWakeup
  <1>2. queued' \in [Fibers -> 0 .. 1] /\ queued'[f] = 0
    BY <1>1 DEF OneWakeup
  <1>3. \A g \in Fibers \ {f} : queued'[g] = queued[g] /\ pc'[g] = pc[g]
    BY <1>1 DEF OneWakeup, Types, WaitTypes
  <1>4. pc'[f] \in {"app", "woken"} BY <1>1 DEF Types, WaitTypes
  <1>5. \A g \in Fibers : (Registered(g)' <=> Registered(g)) /\ (Sleeping(g)' <=> Sleeping(g))
    BY <1>1 DEF Registered, Sleeping, Pending
  <1>6. \A g \in Fibers : FiberWakes(g)'
    BY <1>2, <1>3, <1>4, <1>5 DEF OneWakeup, FiberWakes, Switched
  <1>7. \A g \in Fds, x \in Events : EventWakes(g, x)'
    <2>1. \A g \in Fds, x \in Events : events[g][x] \in Fibers \cup {None}
      BY DEF Types, WaitTypes
    <2> QED BY <1>1, <1>3, <2>1 DEF OneWakeup, EventWakes
  <1>8. \A t \in Pending' : SleepWakes(t)'
    <2>1. \A t \in Pending : t.fiber \in Fibers BY DEF Pending, Types, WaitTypes, TimerType
    <2> QED BY <1>1, <1>3, <2>1 DEF OneWakeup, SleepWakes, Timer, Pending
  <1> QED BY <1>2, <1>6, <1>7, <1>8 DEF OneWakeup, FiberWakes, EventWakes, SleepWakes

\* addEvent finds the EventContext empty, because the fiber is the only user of
\* the descriptor in its direction, and becomes its wake-up.
LEMMA AddEventKeeps ==
  ASSUME Types, Types', CallOK, UseOK, OneWakeup, NEW f \in Fibers, AddEvent(f)
  PROVE  OneWakeup'
  <1> DEFINE fd == call[f].fd
             e  == EventOf(call[f].op)
  <1>1. /\ pc[f] = "armed" /\ pc' = [pc EXCEPT ![f] = "yield"]
        /\ events' = [events EXCEPT ![fd][e] = f]
        /\ UNCHANGED <<call, queued, timers, expired>>
    BY DEF AddEvent, Goto
  <1>2. fd \in Fds /\ e \in Events BY <1>1 DEF CallOK, IoOps, EventOf, Events
  <1>3. events[fd][e] = None
    <2> SUFFICES ASSUME events[fd][e] # None PROVE FALSE OBVIOUS
    <2>1. PICK g \in Fibers : events[fd][e] = g BY <1>2 DEF Types, WaitTypes
    <2>2. pc[g] \in Switched /\ call[g].fd = fd /\ EventOf(call[g].op) = e
      BY <1>2, <2>1 DEF OneWakeup
    <2>3. g \in Using(fd) /\ f \in Using(fd) BY <1>1, <2>2 DEF Using, Switched
    <2>4. g = f BY <1>2, <2>2, <2>3 DEF UseOK
    <2> QED BY <1>1, <2>2, <2>4 DEF Switched
  <1>4. \A g \in Fds, x \in Events :
          events'[g][x] = IF g = fd /\ x = e THEN f ELSE events[g][x]
    BY <1>1, <1>2 DEF Types, WaitTypes
  <1>5. \A g \in Fibers : pc'[g] = IF g = f THEN "yield" ELSE pc[g]
    BY <1>1 DEF Types, WaitTypes
  <1>6. queued[f] = 0 BY <1>1 DEF OneWakeup, Switched
  <1>7. Registered(f)' BY <1>2, <1>4 DEF Registered
  <1>8. \A g \in Fibers : (Registered(g) => Registered(g)') /\ (Sleeping(g) => Sleeping(g)')
    BY <1>1, <1>3, <1>4, HookAssumption
    DEF HookAssumption, Registered, Sleeping, Pending
  <1>9. \A g \in Fibers : FiberWakes(g)'
    BY <1>1, <1>5, <1>6, <1>7, <1>8 DEF OneWakeup, FiberWakes, Switched
  <1>10. ASSUME NEW g \in Fds, NEW x \in Events PROVE EventWakes(g, x)'
    <2>1. CASE g = fd /\ x = e BY <1>1, <1>4, <1>5, <1>6, <2>1 DEF EventWakes, Switched
    <2>2. CASE ~(g = fd /\ x = e)
      <3>1. events[g][x] \in Fibers \cup {None} BY DEF Types, WaitTypes
      <3>2. events[g][x] # f BY <1>1, HookAssumption DEF HookAssumption, OneWakeup, Switched
      <3> QED BY <1>1, <1>4, <1>5, <2>2, <3>1, <3>2 DEF OneWakeup, EventWakes
    <2> QED BY <2>1, <2>2
  <1>11. \A t \in Pending' : SleepWakes(t)'
    <2>1. \A t \in Pending : t.fiber \in Fibers BY DEF Pending, Types, WaitTypes, TimerType
    <2> QED BY <1>1, <1>5, <2>1 DEF OneWakeup, SleepWakes, Timer, Pending, Switched
  <1> QED BY <1>1, <1>9, <1>10, <1>11 DEF OneWakeup, FiberWakes, EventWakes, SleepWakes

\* The timer of a sleep expires, and is then waiting for its callback.
LEMMA ExpireKeeps ==
  ASSUME Types, Types', OneWakeup, NEW t \in timers, Expire(t)
  PROVE  OneWakeup'
  <1>1. /\ timers' = timers \ {t} /\ expired' = expired \cup {t}
        /\ UNCHANGED <<pc, queued, events>>
    BY DEF Expire
  <1>2. t.fiber \in Fibers BY DEF Types, WaitTypes, TimerType
  <1>3. \A g \in Fibers : SameCall(g)
    BY <1>2 DEF Expire, SameCall, Types, Call
  <1>4. Pending' = Pending BY <1>1 DEF Pending
  <1>5. \A g \in Fibers : (Registered(g)' <=> Registered(g)) /\ (Sleeping(g)' <=> Sleeping(g))
    BY <1>1, <1>4 DEF Registered, Sleeping
  <1>6. \A g \in Fibers : FiberWakes(g)' BY <1>1, <1>5 DEF OneWakeup, FiberWakes
  <1>7. \A g \in Fds, x \in Events : EventWakes(g, x)'
    <2>1. \A g \in Fds, x \in Events : events[g][x] \in Fibers \cup {None}
      BY DEF Types, WaitTypes
    <2> QED BY <1>1, <1>3, <2>1 DEF OneWakeup, EventWakes, SameCall
  <1>8. ASSUME NEW u \in Pending', u.op = "sleep" PROVE SleepWakes(u)'
    <2>1. u \in Pending /\ u.fiber \in Fibers
      BY <1>4 DEF Pending, Types, WaitTypes, TimerType
    <2>2. Timer(u.fiber)' = Timer(u.fiber) BY <1>3, <2>1 DEF SameCall, Timer
    <2> QED BY <1>1, <1>8, <2>1, <2>2 DEF OneWakeup, SleepWakes
  <1>9. \A u \in Pending' : SleepWakes(u)' BY <1>8 DEF SleepWakes
  <1> QED BY <1>1, <1>6, <1>7, <1>9 DEF OneWakeup, FiberWakes, EventWakes, SleepWakes

\* Its callback turns it into an entry in the queue.
LEMMA CallbackSleepKeeps ==
  ASSUME Types, Types', CallOK, OneWakeup, NEW t \in expired, CallbackSleep(t)
  PROVE  OneWakeup'
  <1> DEFINE f == t.fiber
  <1>1. /\ t.op = "sleep" /\ expired' = expired \ {t}
        /\ queued' = [queued EXCEPT ![f] = queued[f] + 1]
        /\ UNCHANGED <<pc, call, events, timers>>
    BY DEF CallbackSleep
  <1>2. f \in Fibers BY DEF Types, WaitTypes, TimerType
  <1>3. pc[f] \in Switched /\ queued[f] = 0 /\ t = Timer(f) /\ t \notin timers
    BY <1>1 DEF OneWakeup, Pending
  <1>4. /\ queued' \in [Fibers -> 0 .. 1] /\ queued'[f] = 1
        /\ \A g \in Fibers \ {f} : queued'[g] = queued[g]
    BY <1>1, <1>2, <1>3 DEF OneWakeup
  <1>5. \A g \in Fibers \ {f} : (Registered(g)' <=> Registered(g)) /\ (Sleeping(g) => Sleeping(g)')
    BY <1>1 DEF Registered, Sleeping, Pending
  <1>6. \A g \in Fibers : FiberWakes(g)'
    BY <1>1, <1>3, <1>4, <1>5 DEF OneWakeup, FiberWakes
  <1>7. call[f].op = "sleep" /\ call[f].fd = None
    <2>1. call[f].op = "sleep" BY <1>1, <1>3 DEF Timer
    <2> QED BY <1>2, <1>3, <2>1 DEF CallOK, Switched
  <1>8. ASSUME NEW g \in Fds, NEW x \in Events PROVE EventWakes(g, x)'
    <2>1. events[g][x] \in Fibers \cup {None} BY DEF Types, WaitTypes
    <2>2. events[g][x] # None => events[g][x] # f
      BY <1>7, NullAssumption DEF NullAssumption, OneWakeup
    <2> QED BY <1>1, <1>4, <2>1, <2>2 DEF OneWakeup, EventWakes
  <1>9. ASSUME NEW u \in Pending', u.op = "sleep" PROVE SleepWakes(u)'
    <2>1. u \in Pending /\ u.fiber \in Fibers /\ u # t
      BY <1>1, <1>3 DEF Pending, Types, WaitTypes, TimerType
    <2>2. u = Timer(u.fiber) BY <1>9, <2>1 DEF OneWakeup
    <2>3. u.fiber # f BY <1>3, <2>1, <2>2
    <2> QED BY <1>1, <1>4, <1>9, <2>1, <2>3 DEF OneWakeup, SleepWakes, Timer
  <1>10. \A u \in Pending' : SleepWakes(u)' BY <1>9 DEF SleepWakes
  <1> QED BY <1>4, <1>6, <1>8, <1>10 DEF OneWakeup, FiberWakes, EventWakes, SleepWakes

\* A fiber that goes to sleep has its timer as its wake-up.
LEMMA BeginSleepKeeps ==
  ASSUME Types, Types', OneWakeup, NEW f \in Fibers, BeginSleep(f)
  PROVE  OneWakeup'
  <1> DEFINE new == [fiber |-> f, id |-> call[f].id + 1, op |-> "sleep", fd |-> None]
  <1>1. /\ pc[f] = "app" /\ call[f].id < MaxCalls /\ pc' = [pc EXCEPT ![f] = "yield"]
        /\ call' = [call EXCEPT ![f] = NewCall(f, "sleep", None, TRUE)]
        /\ timers' = timers \cup {new}
        /\ UNCHANGED <<queued, events, expired>>
    BY DEF BeginSleep, MayCall, Goto
  <1>2. ASSUME NEW op \in AllOps, NEW l \in BOOLEAN, NEW d \in Fds \cup {None},
               call' = [call EXCEPT ![f] = NewCall(f, op, d, l)]
        PROVE  call'[f].id = call[f].id + 1 /\ call'[f].op = op /\ call'[f].fd = d
    <2>1. call \in [Fibers -> Call] BY DEF Types
    <2>2. call[f].id < MaxCalls BY <1>1
    <2> QED BY <1>2, <2>1, <2>2, NewCallType
  <1>3. call'[f].id = call[f].id + 1 /\ call'[f].op = "sleep" /\ call'[f].fd = None
    <2>1. "sleep" \in AllOps BY DEF AllOps
    <2> QED BY <1>1, <1>2, <2>1
  <1>4. \A g \in Fibers \ {f} : pc'[g] = pc[g] /\ call'[g] = call[g]
    BY <1>1 DEF Types, WaitTypes
  <1>5. pc'[f] = "yield" BY <1>1 DEF Types, WaitTypes
  <1>6. queued[f] = 0 BY <1>1 DEF OneWakeup, Switched
  <1>7. Timer(f)' = new BY <1>3 DEF Timer
  <1>8. new.fiber = f /\ new.op = "sleep" OBVIOUS
  <1> HIDE DEF new
  <1>9. Sleeping(f)' BY <1>1, <1>8 DEF Sleeping, Pending
  <1>10. \A g \in Fibers : (Registered(g) => Registered(g)') /\ (Sleeping(g) => Sleeping(g)')
    BY <1>1 DEF Registered, Sleeping, Pending
  <1>11. \A g \in Fibers : FiberWakes(g)'
    BY <1>1, <1>4, <1>5, <1>6, <1>9, <1>10 DEF OneWakeup, FiberWakes, Switched
  <1>12. ASSUME NEW g \in Fds, NEW x \in Events PROVE EventWakes(g, x)'
    <2>1. events[g][x] \in Fibers \cup {None} BY DEF Types, WaitTypes
    <2>1a. f # None BY HookAssumption DEF HookAssumption
    <2>2. events[g][x] # f BY <1>1, <2>1a DEF OneWakeup, EventWakes, Switched
    <2> QED BY <1>1, <1>4, <2>1, <2>2 DEF OneWakeup, EventWakes
  <1>13. ASSUME NEW u \in Pending', u.op = "sleep" PROVE SleepWakes(u)'
    <2>1. \A v \in Pending : v.op = "sleep" => v.fiber # f /\ v.fiber \in Fibers
      BY <1>1 DEF OneWakeup, Pending, Switched, Types, WaitTypes, TimerType
    <2>2. CASE u = new
      <3>1. new \notin expired BY <1>8, <2>1 DEF Pending
      <3> QED BY <1>1, <1>5, <1>6, <1>7, <1>8, <2>2, <3>1 DEF SleepWakes, Switched
    <2>3. CASE u # new
      <3>1. u \in Pending BY <1>1, <2>3 DEF Pending
      <3>2. u.fiber # f /\ u.fiber \in Fibers BY <1>13, <2>1, <3>1
      <3>3. Timer(u.fiber)' = Timer(u.fiber) BY <1>4, <3>2 DEF Timer
      <3> QED BY <1>1, <1>4, <1>13, <2>3, <3>1, <3>2, <3>3 DEF OneWakeup, SleepWakes
    <2> QED BY <2>2, <2>3
  <1>14. \A u \in Pending' : SleepWakes(u)' BY <1>13 DEF SleepWakes
  <1> QED BY <1>1, <1>11, <1>12, <1>14 DEF OneWakeup, FiberWakes, EventWakes, SleepWakes

\* cancelAll queues each fiber that is registered for the descriptor once.
LEMMA CancelAllKeeps ==
  ASSUME Types, Types', CallOK, OneWakeup, NEW f \in Fibers, NEW fd \in Fds, CancelAll(f, fd)
  PROVE  OneWakeup'
  <1>1. /\ pc[f] = "app"
        /\ queued' = [g \in Fibers |->
                        queued[g] + Cardinality({e \in Events : events[fd][e] = g})]
        /\ events' = [events EXCEPT ![fd] = [e \in Events |-> None]]
        /\ \A g \in Fibers \ {f} : call'[g] = call[g]
        /\ UNCHANGED <<pc, timers, expired>>
    BY DEF CancelAll, MayCall, Types
  <1>n. None \notin Fibers BY HookAssumption DEF HookAssumption
  <1>2. ASSUME NEW g \in Fibers
        PROVE  /\ queued'[g] = IF \E e \in Events : events[fd][e] = g THEN 1 ELSE queued[g]
               /\ (\E e \in Events : events[fd][e] = g) => queued[g] = 0 /\ pc[g] \in Switched
                                                           /\ call[g].fd = fd
    <2>1. CASE \E e \in Events : events[fd][e] = g
      <3>1. PICK e \in Events : events[fd][e] = g BY <2>1
      <3>2. \A x \in Events : events[fd][x] = g => x = EventOf(call[g].op)
        BY <1>n DEF OneWakeup
      <3>3. {x \in Events : events[fd][x] = g} = {e} BY <3>1, <3>2
      <3>4. Cardinality({x \in Events : events[fd][x] = g}) = 1 BY <3>3, FS_Singleton
      <3>5. queued[g] = 0 /\ pc[g] \in Switched /\ call[g].fd = fd
        BY <1>n, <3>1 DEF OneWakeup
      <3> QED BY <1>1, <2>1, <3>4, <3>5
    <2>2. CASE ~\E e \in Events : events[fd][e] = g
      <3>1. {x \in Events : events[fd][x] = g} = {} BY <2>2
      <3>2. Cardinality({x \in Events : events[fd][x] = g}) = 0 BY <3>1, FS_EmptySet
      <3> QED BY <1>1, <2>2, <3>2 DEF OneWakeup
    <2> QED BY <2>1, <2>2
  <1>3. queued' \in [Fibers -> 0 .. 1]
    <2>1. \A g \in Fibers : queued'[g] \in 0 .. 1 BY <1>2 DEF OneWakeup
    <2> QED BY <1>1, <2>1
  <1>4. \A g \in Fds, x \in Events : events'[g][x] = IF g = fd THEN None ELSE events[g][x]
    BY <1>1 DEF Types, WaitTypes
  <1>5. \A g \in Fibers : Sleeping(g)' <=> Sleeping(g) BY <1>1 DEF Sleeping, Pending
  <1>6. \A g \in Fibers : Registered(g) => Registered(g)' \/ \E e \in Events : events[fd][e] = g
    BY <1>4 DEF Registered
  <1>7. \A g \in Fibers : FiberWakes(g)'
    BY <1>1, <1>2, <1>5, <1>6 DEF OneWakeup, FiberWakes
  <1>8. ASSUME NEW g \in Fds, NEW x \in Events PROVE EventWakes(g, x)'
    <2> DEFINE h == events[g][x]
    <2>1. h \in Fibers \cup {None} BY DEF Types, WaitTypes
    <2>2. SUFFICES ASSUME g # fd, h # None PROVE EventWakes(g, x)' BY <1>4 DEF EventWakes
    <2>3. pc[h] \in Switched /\ queued[h] = 0 /\ call[h].fd = g /\ EventOf(call[h].op) = x
      BY <2>2 DEF OneWakeup
    <2>4. h # f BY <1>1, <2>3 DEF Switched
    <2>5. queued'[h] = 0 /\ call'[h] = call[h] BY <1>1, <1>2, <2>1, <2>2, <2>3, <2>4
    <2> QED BY <1>1, <1>4, <2>2, <2>3, <2>5 DEF EventWakes
  <1>9. ASSUME NEW u \in Pending', u.op = "sleep" PROVE SleepWakes(u)'
    <2>1. u \in Pending /\ u.fiber \in Fibers
      BY <1>1 DEF Pending, Types, WaitTypes, TimerType
    <2>2. pc[u.fiber] \in Switched /\ queued[u.fiber] = 0 /\ u = Timer(u.fiber)
      BY <1>9, <2>1 DEF OneWakeup
    <2>3. u.fiber # f BY <1>1, <2>2 DEF Switched
    <2>4. call[u.fiber].op = "sleep" BY <1>9, <2>2 DEF Timer
    <2>5. call[u.fiber].fd = None BY <2>1, <2>2, <2>4 DEF CallOK, Switched
    <2>6. queued'[u.fiber] = 0
      BY <1>2, <2>1, <2>2, <2>5, NullAssumption DEF NullAssumption
    <2>7. Timer(u.fiber)' = Timer(u.fiber) BY <1>1, <2>1, <2>3 DEF Timer
    <2> QED BY <1>1, <1>9, <2>1, <2>2, <2>6, <2>7 DEF OneWakeup, SleepWakes
  <1>10. \A u \in Pending' : SleepWakes(u)' BY <1>9 DEF SleepWakes
  <1> QED BY <1>3, <1>7, <1>8, <1>10 DEF OneWakeup, FiberWakes, EventWakes, SleepWakes

\* Every step keeps one wake-up per switched-out fiber.
LEMMA WakeStep ==
  ASSUME Types, Types', CallOK, TimerOK, FdOK, UseOK, FiringOK, OneWakeup, [Next]_vars
  PROVE  OneWakeup'
  <1> DEFINE G == OneWakeup'
  <1>a. pc \in [Fibers -> PCs] /\ call \in [Fibers -> Call] BY DEF Types, WaitTypes
  <1>b. ASSUME UNCHANGED <<queued, events>>, SameSleeps, SameWaits PROVE G
    BY <1>b, QuietKeeps
  <1>c. ASSUME NEW f \in Fibers, NEW r, Return(f, call[f], r),
               UNCHANGED <<queued, events>>,
               SameSleeps, pc[f] \notin Switched \cup {"start"}
        PROVE  G
    <2>1. /\ \A g \in Fibers \ {f} : call'[g] = call[g]
          /\ \A g \in Fibers : pc'[g] = IF g = f THEN "app" ELSE pc[g]
      BY <1>a, <1>c DEF Return, Goto
    <2>2. SameWaits BY <1>c, <2>1 DEF SameWaits, SameCall, Switched
    <2> QED BY <1>b, <1>c, <2>2
  <1>d. ASSUME NEW f \in Fibers, NEW p, Goto(f, p), UNCHANGED <<queued, events, call>>,
               SameSleeps, pc[f] # "start", p # "start", p \in Switched <=> pc[f] \in Switched
        PROVE  G
    <2>1. \A g \in Fibers : pc'[g] = IF g = f THEN p ELSE pc[g] BY <1>a, <1>d DEF Goto
    <2>2. SameWaits BY <1>d, <2>1 DEF SameWaits, SameCall
    <2> QED BY <1>b, <1>d, <2>2
  <1>e. ASSUME NEW f \in Fibers, NEW c, call' = [call EXCEPT ![f] = c], pc[f] = "app",
               UNCHANGED pc \/ pc' = [pc EXCEPT ![f] = "sys"],
               UNCHANGED <<queued, events, timers, expired>>
        PROVE  G
    <2>1. /\ \A g \in Fibers \ {f} : call'[g] = call[g] /\ pc'[g] = pc[g]
          /\ pc'[f] \in {"app", "sys"}
      BY <1>a, <1>e
    <2>2. SameWaits BY <1>e, <2>1 DEF SameWaits, SameCall, Switched
    <2>3. SameSleeps BY <1>e DEF SameSleeps
    <2> QED BY <1>b, <1>e, <2>2, <2>3
  <1>f. ASSUME UNCHANGED <<timers, expired>> PROVE SameSleeps
    BY <1>f DEF SameSleeps
  <1>g. ASSUME NEW f \in Fibers, call[f].op # "sleep", UNCHANGED expired,
               timers' = timers \cup {Timer(f)} \/ timers' = timers \ {Timer(f)}
        PROVE  SameSleeps
    <2>1. Timer(f).op # "sleep" BY <1>g DEF Timer
    <2> QED BY <1>g, <2>1 DEF SameSleeps
  <1>h. ASSUME \A g \in Fibers : SameCall(g), UNCHANGED pc PROVE SameWaits
    BY <1>h DEF SameWaits
  <1> HIDE DEF G
  <1>1. ASSUME NEW f \in Fibers, Resume(f)
        PROVE  G
    BY <1>1, ResumeKeeps DEF G
  <1>2. ASSUME NEW f \in Fibers, SysIo(f)
        PROVE  G
    <2>1. call[f].op # "sleep" /\ pc[f] = "sys" /\ pc[f] \notin Switched
      BY <1>2 DEF SysIo, CallOK, IoOps, Switched
    <2>2. UNCHANGED <<queued, events, expired>> BY <1>2 DEF SysIo
    <2>3. ASSUME AddConditionTimer(f) PROVE G
      <3>1. SameSleeps BY <1>f, <1>g, <2>1, <2>2, <2>3 DEF AddConditionTimer
      <3> QED BY <1>d, <2>1, <2>2, <2>3, <3>1 DEF AddConditionTimer, Switched
    <2>4. ASSUME Goto(f, "blocked"), UNCHANGED <<call, timers>> PROVE G
      BY <1>d, <1>f, <2>1, <2>2, <2>4 DEF Switched
    <2>5. ASSUME NEW r, Return(f, call[f], r), UNCHANGED timers PROVE G
      BY <1>c, <1>f, <2>1, <2>2, <2>5 DEF Switched
    <2> QED BY <1>2, <2>3, <2>4, <2>5 DEF SysIo
  <1>3. ASSUME NEW f \in Fibers, SysConnect(f)
        PROVE  G
    <2>1. call[f].op # "sleep" /\ pc[f] = "sys" /\ pc[f] \notin Switched
      BY <1>3 DEF SysConnect, Switched
    <2>2. UNCHANGED <<queued, events, expired>> BY <1>3 DEF SysConnect
    <2>3. ASSUME AddConditionTimer(f) PROVE G
      <3>1. SameSleeps BY <1>f, <1>g, <2>1, <2>2, <2>3 DEF AddConditionTimer
      <3> QED BY <1>d, <2>1, <2>2, <2>3, <3>1 DEF AddConditionTimer, Switched
    <2>4. ASSUME Goto(f, "blocked"), UNCHANGED <<call, timers>> PROVE G
      BY <1>d, <1>f, <2>1, <2>2, <2>4 DEF Switched
    <2>5. ASSUME NEW r, Return(f, call[f], r), UNCHANGED timers PROVE G
      BY <1>c, <1>f, <2>1, <2>2, <2>5 DEF Switched
    <2> QED BY <1>3, <2>3, <2>4, <2>5 DEF SysConnect
  <1>4. ASSUME NEW f \in Fibers, Unblock(f)
        PROVE  G
    BY <1>c, <1>f, <1>4 DEF Unblock, Switched
  <1>4b. ASSUME NEW f \in Fibers, BlockedTooLong(f)
        PROVE  G
    <2>1. call[f].op # "sleep" /\ pc[f] = "blocked" /\ pc[f] \notin Switched
      BY <1>4b DEF BlockedTooLong, CallOK, IoOps, Switched
    <2>2. UNCHANGED <<queued, events, expired>> /\ AddConditionTimer(f)
      BY <1>4b DEF BlockedTooLong
    <2>3. SameSleeps BY <1>f, <1>g, <2>1, <2>2 DEF AddConditionTimer
    <2> QED BY <1>d, <2>1, <2>2, <2>3 DEF AddConditionTimer, Switched
  <1>5. ASSUME NEW f \in Fibers, AddEvent(f)
        PROVE  G
    BY <1>5, AddEventKeeps DEF G
  <1>6. ASSUME NEW f \in Fibers, AddEventFails(f)
        PROVE  G
    <2>1. call[f].op # "sleep" /\ pc[f] \notin Switched \cup {"start"}
      BY <1>6 DEF AddEventFails, CallOK, IoOps, Switched
    <2>2. SameSleeps BY <1>6, <1>g, <2>1 DEF AddEventFails, ConnectResult
    <2> QED BY <1>c, <1>6, <2>1, <2>2 DEF AddEventFails, ConnectResult
  <1>7. ASSUME NEW f \in Fibers, YieldToHold(f)
        PROVE  G
    BY <1>d, <1>f, <1>7 DEF YieldToHold, Switched
  <1>8. ASSUME NEW f \in Fibers, Woken(f)
        PROVE  G
    <2>1. pc[f] = "woken" /\ pc[f] \notin Switched /\ UNCHANGED <<queued, events, expired>>
      BY <1>8 DEF Woken, Switched
    <2>2. ASSUME call[f].op # "sleep", timers' = CancelTimer(f) PROVE SameSleeps
      BY <1>g, <2>1, <2>2 DEF CancelTimer
    <2>3. ASSUME NEW r, Return(f, call[f], r), SameSleeps PROVE G BY <1>c, <2>1, <2>3
    <2>4. ASSUME Goto(f, "sys"), UNCHANGED call, SameSleeps PROVE G
      BY <1>d, <2>1, <2>4 DEF Switched
    <2> QED BY <1>8, <1>f, <2>1, <2>2, <2>3, <2>4 DEF Woken, ConnectResult
  <1>9. ASSUME NEW t \in timers \cup expired \cup firing, Expire(t)
        PROVE  G
    <2>1. t \in timers BY <1>9 DEF Expire
    <2> QED BY <1>9, <2>1, ExpireKeeps DEF G
  <1>10. ASSUME NEW t \in timers \cup expired \cup firing, CallbackBegin(t)
        PROVE  G
    <2>1. t.fiber \in Fibers BY DEF Types, WaitTypes, TimerType
    <2>2. \A g \in Fibers : SameCall(g) BY <1>a, <1>10, <2>1 DEF CallbackBegin, SameCall, Call
    <2>3. SameWaits BY <1>h, <1>10, <2>2 DEF CallbackBegin
    <2>4. SameSleeps BY <1>10 DEF CallbackBegin, SameSleeps
    <2> QED BY <1>b, <1>10, <2>3, <2>4 DEF CallbackBegin
  <1>11. ASSUME NEW t \in timers \cup expired \cup firing, CallbackCancel(t)
        PROVE  G
    <2>1. t \in firing /\ t.fd \in Fds
      BY <1>11 DEF CallbackCancel, FiringOK, TimerOK
    <2>2. EventOf(t.op) \in Events BY DEF EventOf, Events
    <2> QED BY <1>11, <2>1, <2>2, ScheduleKeeps DEF CallbackCancel, G
  <1>12. ASSUME NEW t \in timers \cup expired \cup firing, CallbackSleep(t)
        PROVE  G
    <2>1. t \in expired BY <1>12 DEF CallbackSleep
    <2> QED BY <1>12, <2>1, CallbackSleepKeeps DEF G
  <1>13. ASSUME NEW f \in Fibers, BeginSleep(f)
        PROVE  G
    BY <1>13, BeginSleepKeeps DEF G
  <1>14. ASSUME NEW f \in Fibers, Finish(f)
        PROVE  G
    BY <1>d, <1>f, <1>14 DEF Finish, Switched
  <1>15. ASSUME NEW f \in Fibers, NEW fd \in Fds,
                NEW op \in {"read", "write", "accept"}, BeginIo(f, op, fd)
        PROVE  G
    BY <1>e, <1>15 DEF BeginIo, MayCall, Immediate, Goto
  <1>16. ASSUME NEW f \in Fibers, NEW fd \in Fds, NEW limited \in BOOLEAN,
                BeginConnect(f, fd, limited)
        PROVE  G
    BY <1>e, <1>16 DEF BeginConnect, MayCall, Goto
  <1>17. ASSUME NEW f \in Fibers, NEW fd \in Fds, Control(f, fd)
        PROVE  G
    BY <1>e, <1>17 DEF Control, MayCall, Immediate
  <1>18. ASSUME NEW f \in Fibers, NEW fd \in Fds, CancelAll(f, fd)
        PROVE  G
    BY <1>18, CancelAllKeeps DEF G
  <1>19. ASSUME NEW fd \in Fds, NEW e \in Events, TriggerEvent(fd, e)
        PROVE  G
    BY <1>19, ScheduleKeeps DEF TriggerEvent, G
  <1>20. ASSUME NEW fd \in Fds, NEW e \in Events, Readiness(fd, e)
        PROVE  G
    BY <1>b, <1>f, <1>h, <1>20 DEF Readiness, ioVars, SameCall
  <1>21. ASSUME NEW fd \in Fds, NEW how \in {"up", "refused"}, ConnectEnds(fd, how)
        PROVE  G
    BY <1>b, <1>f, <1>h, <1>21 DEF ConnectEnds, ioVars, SameCall
  <1>22. ASSUME UNCHANGED vars PROVE G
    BY <1>b, <1>f, <1>h, <1>22 DEF vars, ioVars, SameCall
  <1>23. G
    BY <1>1, <1>2, <1>3, <1>4, <1>4b, <1>5, <1>6, <1>7, <1>8, <1>9, <1>10, <1>11, <1>12,
       <1>13, <1>14, <1>15, <1>16, <1>17, <1>18, <1>19, <1>20, <1>21, <1>22
    DEF Next, FiberStep, CallbackStep, Request, KernelStep
  <1> QED BY <1>23 DEF G


-----------------------------------------------------------------------------
\* The initial state.
LEMMA HookInit == Init => Inv
  <1> SUFFICES ASSUME Init PROVE Inv OBVIOUS
  <1> USE DEF Init
  <1>1. FdTypeOK /\ FdOK
    <2>1. FdInit OBVIOUS
    <2> DEFINE s0 == InitNonblock(FreshSocket("none"))
               s == [s0 EXCEPT !.limits = Events]
               d == [NewFdCtx EXCEPT !.timeout = [e \in Events |-> TRUE]]
    <2>1a. s0 \in OpenSocket /\ s0.nonblock /\ NewFdCtx \in FdCtx
      BY NewSocketType, "none" \in Conns DEF Conns
    <2> HIDE DEF s0
    <2>2. s \in OpenSocket /\ s.nonblock /\ NewFdCtx \in FdCtx
      BY <2>1a DEF OpenSocket
    <2>3. d \in FdCtx
      <3>1. "READ" \in Events /\ TRUE \in BOOLEAN BY DEF Events
      <3> QED BY <2>2, <3>1, FdCtxFieldType
    <2>4. s # None /\ d # None BY <2>2, <2>3, NullAssumption DEF NullAssumption
    <2>5. /\ m_datas = [fd \in Fds |-> IF fd \in Prepared THEN d ELSE None]
          /\ kernel = [fd \in Fds |-> IF fd \in Prepared THEN s ELSE None]
          /\ opened = [fd \in Fds |-> IF fd \in Prepared THEN 1 ELSE 0]
      BY <2>1 DEF FdInit, s0
    <2> HIDE DEF s, d
    <2>6. FdTypeOK BY <2>2, <2>3, <2>5, FdAssumption DEF FdAssumption, FdTypeOK
    <2>7. FdOK BY <2>2, <2>4, <2>5 DEF FdOK, IsOpen
    <2> QED BY <2>6, <2>7
  <1>2. NoCall \in Call
    BY HookAssumption DEF HookAssumption, NoCall, Call, Results, AllOps
  <1>3. Types
    BY <1>1, <1>2 DEF Types, WaitTypes, PCs
  <1>4. CallOK /\ TimerOK /\ FiringOK
    BY DEF CallOK, TimerOK, FiringOK, Switched
  <1>5. UseOK BY DEF UseOK, Using
  <1>6. OneWakeup
    BY HookAssumption DEF HookAssumption, OneWakeup, Pending, Switched
  <1>7. TimeoutOK
    <2>1. ~NoCall.cancelled /\ NoCall.result = "none" BY DEF NoCall
    <2> QED BY <2>1 DEF TimeoutOK
  <1> QED BY <1>1, <1>3, <1>4, <1>5, <1>6, <1>7 DEF Inv

\* Every step keeps the invariant.
LEMMA HookStep == Inv /\ [Next]_vars => Inv'
  <1> SUFFICES ASSUME Inv, [Next]_vars PROVE Inv' OBVIOUS
  <1>1. Types /\ CallOK /\ TimerOK /\ FiringOK /\ FdOK /\ UseOK /\ OneWakeup /\ TimeoutOK
    BY DEF Inv
  <1>2. FdTypeOK' /\ FdOK' BY <1>1, FdStep
  <1>3. Types' BY <1>1, <1>2, WaitTypesStep, CallTypesStep DEF Types
  <1>4. CallOK' BY <1>1, CallStep
  <1>5. TimerOK' /\ FiringOK' BY <1>1, TimerStep, FiringStep
  <1>6. UseOK' BY <1>1, UseStep
  <1>7. OneWakeup' BY <1>1, <1>3, WakeStep
  <1>8. TimeoutOK' BY <1>1, TimeoutStep
  <1> QED BY <1>2, <1>3, <1>4, <1>5, <1>6, <1>7, <1>8 DEF Inv

\* The invariant holds in every reachable state.
THEOREM HookInvariant == Spec => []Inv
  <1> QED BY HookInit, HookStep, PTL DEF Spec

\* Every variable keeps its type; in particular no fiber is in the scheduler's
\* queue twice, however many threads run and whichever timers and events race.
THEOREM HookTypeOK == Spec => []TypeOK
  <1>1. Inv => TypeOK BY DEF Inv, Types, WaitTypes, OneWakeup, TypeOK
  <1> QED BY <1>1, HookInvariant, PTL

\* A fiber that a hooked call switched out has exactly one wake-up to come (its
\* entry in the queue, its EventContext or the timer of its sleep), and a fiber
\* that runs or has ended has none: an event, a time limit and cancelAll that
\* race for a fiber neither lose it nor resume it twice.
THEOREM HookOneWakeup == Spec => []OneWakeup
  <1>1. Inv => OneWakeup BY DEF Inv
  <1> QED BY <1>1, HookInvariant, PTL

\* A call returns ETIMEDOUT only if a timer of its own has expired.
THEOREM HookOwnTimeout == Spec => []OwnTimeout
  <1>1. Inv => OwnTimeout BY DEF Inv, TimeoutOK, OwnTimeout
  <1> QED BY <1>1, HookInvariant, PTL

\* A hooked call goes into a blocking system call only on a socket that the
\* program made blocking, or on a number that was open before.
THEOREM HookBlocksOnlyIf == Spec => BlocksOnlyIf
  <1> DEFINE G == \A f \in Fibers :
                    pc[f] # "blocked" /\ pc'[f] = "blocked" =>
                      opened[call[f].fd] > 1 \/ kernel[call[f].fd].askedBlocking
  <1>1. Inv /\ [Next]_vars => [G]_vars
    <2> SUFFICES ASSUME Inv, Next PROVE G OBVIOUS
    <2>a. pc \in [Fibers -> PCs] BY DEF Inv, Types, WaitTypes
    <2>b. ASSUME NEW f \in Fibers, NEW p, Goto(f, p), p # "blocked" PROVE G
      BY <2>a, <2>b DEF Goto
    <2>c. ASSUME UNCHANGED pc PROVE G BY <2>c
    <2>d. ASSUME NEW f \in Fibers, pc[f] = "sys", Goto(f, "blocked"),
                 ~kernel[call[f].fd].nonblock
          PROVE  G
      <3>1. call[f].fd \in Fds BY <2>d DEF Inv, CallOK, IoOps
      <3>2. IsOpen(call[f].fd) BY <2>d, <3>1 DEF Inv, UseOK, Using
      <3>3. opened[call[f].fd] \in Nat BY <3>1 DEF Inv, Types, FdTypeOK
      <3>4. opened[call[f].fd] > 1 \/ kernel[call[f].fd].askedBlocking
        BY <2>d, <3>1, <3>2, <3>3 DEF Inv, FdOK
      <3> QED BY <2>a, <2>d, <3>4 DEF Goto
    <2> HIDE DEF G
    <2>1. ASSUME NEW f \in Fibers, Resume(f)
          PROVE  G
      BY <2>b, <2>1 DEF Resume
    <2>2. ASSUME NEW f \in Fibers, SysIo(f)
          PROVE  G
      <3>1. ASSUME NEW r, Return(f, call[f], r) PROVE G BY <2>b, <3>1 DEF Return
      <3>2. ASSUME AddConditionTimer(f) PROVE G BY <2>b, <3>2 DEF AddConditionTimer
      <3> QED BY <2>2, <2>d, <3>1, <3>2 DEF SysIo
    <2>3. ASSUME NEW f \in Fibers, SysConnect(f)
          PROVE  G
      <3>1. ASSUME NEW r, Return(f, call[f], r) PROVE G BY <2>b, <3>1 DEF Return
      <3>2. ASSUME AddConditionTimer(f) PROVE G BY <2>b, <3>2 DEF AddConditionTimer
      <3> QED BY <2>3, <2>d, <3>1, <3>2 DEF SysConnect
    <2>4. ASSUME NEW f \in Fibers, Unblock(f)
          PROVE  G
      BY <2>b, <2>4 DEF Unblock, Return
    <2>4b. ASSUME NEW f \in Fibers, BlockedTooLong(f)
          PROVE  G
      BY <2>b, <2>4b DEF BlockedTooLong, AddConditionTimer
    <2>5. ASSUME NEW f \in Fibers, AddEvent(f)
          PROVE  G
      BY <2>b, <2>5 DEF AddEvent
    <2>6. ASSUME NEW f \in Fibers, AddEventFails(f)
          PROVE  G
      BY <2>b, <2>6 DEF AddEventFails, ConnectResult, Return
    <2>7. ASSUME NEW f \in Fibers, YieldToHold(f)
          PROVE  G
      BY <2>b, <2>7 DEF YieldToHold
    <2>8. ASSUME NEW f \in Fibers, Woken(f)
          PROVE  G
      BY <2>b, <2>8 DEF Woken, ConnectResult, Return
    <2>9. ASSUME NEW t \in timers \cup expired \cup firing, Expire(t)
          PROVE  G
      BY <2>c, <2>9 DEF Expire
    <2>10. ASSUME NEW t \in timers \cup expired \cup firing, CallbackBegin(t)
          PROVE  G
      BY <2>c, <2>10 DEF CallbackBegin
    <2>11. ASSUME NEW t \in timers \cup expired \cup firing, CallbackCancel(t)
          PROVE  G
      BY <2>c, <2>11 DEF CallbackCancel
    <2>12. ASSUME NEW t \in timers \cup expired \cup firing, CallbackSleep(t)
          PROVE  G
      BY <2>c, <2>12 DEF CallbackSleep
    <2>13. ASSUME NEW f \in Fibers, BeginSleep(f)
          PROVE  G
      BY <2>b, <2>13 DEF BeginSleep
    <2>14. ASSUME NEW f \in Fibers, Finish(f)
          PROVE  G
      BY <2>b, <2>14 DEF Finish
    <2>15. ASSUME NEW f \in Fibers, NEW fd \in Fds,
                  NEW op \in {"read", "write", "accept"}, BeginIo(f, op, fd)
          PROVE  G
      BY <2>b, <2>c, <2>15 DEF BeginIo, Immediate
    <2>16. ASSUME NEW f \in Fibers, NEW fd \in Fds, NEW limited \in BOOLEAN,
                  BeginConnect(f, fd, limited)
          PROVE  G
      BY <2>b, <2>16 DEF BeginConnect
    <2>17. ASSUME NEW f \in Fibers, NEW fd \in Fds, Control(f, fd)
          PROVE  G
      BY <2>c, <2>17 DEF Control, Immediate
    <2>18. ASSUME NEW f \in Fibers, NEW fd \in Fds, CancelAll(f, fd)
          PROVE  G
      BY <2>c, <2>18 DEF CancelAll
    <2>19. ASSUME NEW fd \in Fds, NEW e \in Events, TriggerEvent(fd, e)
          PROVE  G
      BY <2>c, <2>19 DEF TriggerEvent
    <2>20. ASSUME NEW fd \in Fds, NEW e \in Events, Readiness(fd, e)
          PROVE  G
      BY <2>c, <2>20 DEF Readiness, ioVars
    <2>21. ASSUME NEW fd \in Fds, NEW how \in {"up", "refused"}, ConnectEnds(fd, how)
          PROVE  G
      BY <2>c, <2>21 DEF ConnectEnds, ioVars
    <2> QED
      BY <2>1, <2>2, <2>3, <2>4, <2>4b, <2>5, <2>6, <2>7, <2>8, <2>9, <2>10, <2>11,
         <2>12, <2>13, <2>14, <2>15, <2>16, <2>17, <2>18, <2>19, <2>20, <2>21
      DEF Next, FiberStep, CallbackStep, Request, KernelStep
  <1> QED BY <1>1, HookInvariant, PTL DEF Spec, BlocksOnlyIf
=============================================================================
