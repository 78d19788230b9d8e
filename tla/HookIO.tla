------------------------------- MODULE HookIO -------------------------------
(***************************************************************************)
(* The blocking calls of hook.cpp: do_io, under read, write, accept and    *)
(* their variants; connect_with_timeout; and sleep, usleep and nanosleep.  *)
(* A call that cannot proceed arms a timer, registers its fiber with the   *)
(* IOManager, and yields; the event or the timer's callback schedules the  *)
(* fiber again.                                                            *)
(*                                                                         *)
(* The IOManager and its timers are used as their own modules show them to *)
(* behave: a registered fiber is scheduled when its event happens or is    *)
(* cancelled and is registered no more; an armed timer is armed until it   *)
(* is cancelled or found expired by a worker in idle, which hands its      *)
(* callback to the scheduler, and then nothing can stop the callback.      *)
(* Workers threads run fibers, callbacks and idle, one thing at a time.    *)
(***************************************************************************)
EXTENDS FdManager

CONSTANTS
  Fibers,
  Workers,     \* the number of threads of the IOManager
  Ops,         \* the operations, of AllOps, that each fiber's first, second,
               \* ... call may be
  MaxCalls,    \* bound: operations of one fiber
  EpollFails   \* epoll_ctl may fail in addEvent

AllOps == {"read", "write", "accept", "connect", "sleep", "socket", "close",
           "setfl", "fionbio", "settimeout", "cancelall"}

ASSUME HookAssumption ==
  /\ IsFiniteSet(Fibers) /\ None \notin Fibers
  /\ Workers \in Nat \ {0} /\ MaxCalls \in Nat
  /\ Ops \in [Fibers -> [1 .. MaxCalls -> SUBSET AllOps]] /\ EpollFails \in BOOLEAN

VARIABLES
  pc,       \* per fiber: where it is, see PCs
  call,     \* per fiber: its current or last call
  queued,   \* per fiber: how often it is in the scheduler's queue
  events,   \* per descriptor and event: the fiber in the EventContext, or None
  timers,   \* armed timers
  expired,  \* timers whose callback is in the scheduler's queue
  firing    \* timers whose callback has set cancelled and not cancelled yet

ioVars == <<pc, call, queued, events, timers, expired, firing>>
vars == <<fdVars, ioVars>>

\* "app": running between calls; "sys": at the system call; "armed": before
\* addEvent; "yield": before YieldToHold; "held": switched out; "woken":
\* after YieldToHold; "blocked": inside a system call that blocks the thread.
PCs == {"start", "app", "sys", "armed", "yield", "held", "woken", "blocked", "done"}
Running == {"app", "sys", "armed", "yield", "woken", "blocked"}

\* A call: its number, what it does to which descriptor, whether its time is
\* limited, timer_info::cancelled, the retry, and how it ended.  ownExpired
\* records that a timer of this call has expired.
Results == {"none", "ok", "error", "ETIMEDOUT"}
Call == [id : 0 .. MaxCalls, op : AllOps, fd : Fds \cup {None}, limited : BOOLEAN,
         cancelled : BOOLEAN, ownExpired : BOOLEAN, result : Results]

EventOf(op) == IF op \in {"read", "accept"} THEN "READ" ELSE "WRITE"

\* A timer of a call: what its callback captures.
Timer(f) == [fiber |-> f, id |-> call[f].id, op |-> call[f].op, fd |-> call[f].fd]

NoCall == [id |-> 0, op |-> "sleep", fd |-> None, limited |-> FALSE,
           cancelled |-> FALSE, ownExpired |-> FALSE, result |-> "none"]

Init ==
  /\ FdInit
  /\ pc = [f \in Fibers |-> "start"]
  /\ call = [f \in Fibers |-> NoCall]
  /\ queued = [f \in Fibers |-> 1]
  /\ events = [fd \in Fds |-> [e \in Events |-> None]]
  /\ timers = {} /\ expired = {} /\ firing = {}

TimerType == [fiber : Fibers, id : 0 .. MaxCalls, op : AllOps, fd : Fds \cup {None}]

TypeOK ==
  /\ FdTypeOK
  /\ pc \in [Fibers -> PCs]
  /\ call \in [Fibers -> Call]
  /\ queued \in [Fibers -> 0 .. 1]
  /\ events \in [Fds -> [Events -> Fibers \cup {None}]]
  /\ timers \subseteq TimerType /\ expired \subseteq TimerType
  /\ firing \subseteq TimerType

-----------------------------------------------------------------------------
(***************************************************************************)
(* Threads, the scheduler, and the kernel.                                 *)
(***************************************************************************)
\* Some thread runs neither a fiber nor a callback.
Free == Cardinality({f \in Fibers : pc[f] \in Running}) + Cardinality(firing)
          < Workers

Goto(f, p) == pc' = [pc EXCEPT ![f] = p]

\* The calls that are under way on a descriptor.
Using(fd) == {f \in Fibers : call[f].fd = fd /\ pc[f] \notin {"start", "app", "done"}}

\* A worker takes a fiber from the queue, once it has switched out.  (With two
\* threads the code may enter it before: that race is in Scheduler, where it is a
\* violation, and its outcome is no state of this module.)
Resume(f) ==
  /\ Free
  /\ queued[f] > 0 /\ pc[f] \in {"start", "held"}
  /\ queued' = [queued EXCEPT ![f] = @ - 1]
  /\ Goto(f, IF pc[f] = "start" THEN "app" ELSE "woken")
  /\ UNCHANGED <<fdVars, call, events, timers, expired, firing>>

\* Data or room arrives for a call, which may not have made its system call
\* yet; a connect that is in progress ends.
Readiness(fd, e) ==
  /\ \E f \in Using(fd) : EventOf(call[f].op) = e
  /\ IsOpen(fd) /\ kernel[fd].conn \in {"none", "up"} /\ e \notin kernel[fd].ready
  /\ kernel' = [kernel EXCEPT ![fd].ready = @ \cup {e}]
  /\ UNCHANGED <<m_datas, opened, ioVars>>

ConnectEnds(fd, how) ==
  /\ IsOpen(fd) /\ kernel[fd].conn = "progress"
  /\ kernel' = [kernel EXCEPT ![fd].conn = how, ![fd].ready = @ \cup {"WRITE"}]
  /\ UNCHANGED <<m_datas, opened, ioVars>>

\* What the descriptor was ready for has been taken.
Taken(fd, e) == [kernel EXCEPT ![fd].ready = @ \ {e}]

\* Taking a fiber out of its EventContext and scheduling it.
Schedule(fd, e) ==
  LET f == events[fd][e] IN
    /\ queued' = IF f = None THEN queued ELSE [queued EXCEPT ![f] = @ + 1]
    /\ events' = [events EXCEPT ![fd][e] = None]

\* IOManager::idle finds the event ready.
TriggerEvent(fd, e) ==
  /\ Free
  /\ IsOpen(fd) /\ e \in kernel[fd].ready /\ events[fd][e] # None
  /\ Schedule(fd, e)
  /\ UNCHANGED <<fdVars, pc, call, timers, expired, firing>>

\* IOManager::idle finds a timer expired and schedules its callback.
Expire(t) ==
  /\ Free
  /\ t \in timers
  /\ timers' = timers \ {t}
  /\ expired' = expired \cup {t}
  /\ call' = IF call[t.fiber].id = t.id
             THEN [call EXCEPT ![t.fiber].ownExpired = TRUE] ELSE call
  /\ UNCHANGED <<fdVars, pc, queued, events, firing>>

-----------------------------------------------------------------------------
(***************************************************************************)
(* The callbacks of the timers.                                            *)
(***************************************************************************)
\* winfo.lock() fails once the call that made the timer_info has returned.
InfoAlive(t) == call[t.fiber].id = t.id /\ pc[t.fiber] \notin {"app", "done"}

\* The callback of do_io and of connect_with_timeout up to its assignment to
\* cancelled; it does nothing for a call that has ended or is cancelled.
CallbackBegin(t) ==
  /\ Free
  /\ t \in expired /\ t.op # "sleep"
  /\ expired' = expired \ {t}
  /\ IF InfoAlive(t) /\ ~call[t.fiber].cancelled
     THEN /\ call' = [call EXCEPT ![t.fiber].cancelled = TRUE]
          /\ firing' = firing \cup {t}
     ELSE UNCHANGED <<call, firing>>
  /\ UNCHANGED <<fdVars, pc, queued, events, timers>>

\* Its call of cancelEvent, which schedules whoever is registered now.
CallbackForgets(t) ==
  /\ t \in firing
  /\ firing' = firing \ {t}
  /\ UNCHANGED <<fdVars, pc, call, queued, events, timers, expired>>
CallbackCancel(t) ==
  /\ t \in firing
  /\ firing' = firing \ {t}
  /\ Schedule(t.fd, EventOf(t.op))
  /\ UNCHANGED <<fdVars, pc, call, timers, expired>>

\* The callback of a sleep schedules the fiber.
CallbackSleep(t) ==
  /\ Free
  /\ t \in expired /\ t.op = "sleep"
  /\ expired' = expired \ {t}
  /\ queued' = [queued EXCEPT ![t.fiber] = @ + 1]
  /\ UNCHANGED <<fdVars, pc, call, events, timers, firing>>

-----------------------------------------------------------------------------
(***************************************************************************)
(* The calls.                                                              *)
(***************************************************************************)
\* A new call with a timer_info of its own.
NewCallKeepsInfo(f, op, fd, limited) ==
  [call[f] EXCEPT !.id = @ + 1, !.op = op, !.fd = fd, !.limited = limited,
                  !.ownExpired = FALSE, !.result = "none"]
NewCall(f, op, fd, limited) ==
  [NoCall EXCEPT !.id = call[f].id + 1, !.op = op, !.fd = fd, !.limited = limited]

MayCall(f, op) ==
  pc[f] = "app" /\ call[f].id < MaxCalls /\ op \in Ops[f][call[f].id + 1]

\* An operation that is over at once.
Immediate(f) ==
  /\ call' = [call EXCEPT ![f] = NewCall(f, "sleep", None, FALSE)]
  /\ UNCHANGED <<pc, queued, timers, expired, firing>>

\* read, write and accept, up to the label retry.  A descriptor that the user
\* made non-blocking is passed to the system call, whatever it returns; a socket
\* that accept returns gets its FdCtx there too.  A program uses a descriptor for
\* one call per direction at a time.
BeginIo(f, op, fd) ==
  /\ MayCall(f, op) /\ op \in {"read", "write", "accept"}
  /\ IsOpen(fd) /\ \A g \in Using(fd) : EventOf(call[g].op) # EventOf(op)
  /\ IF m_datas[fd].userNonblock
     THEN /\ Immediate(f)
          /\ \/ /\ kernel' = Taken(fd, EventOf(op))
                /\ UNCHANGED <<m_datas, opened>>
             \/ /\ op = "accept" /\ "READ" \in kernel[fd].ready
                /\ \E new \in Fds : GetCreating(new, "up", Taken(fd, "READ"))
          /\ UNCHANGED events
     ELSE /\ call' = [call EXCEPT ![f] =
                        NewCall(f, op, fd, m_datas[fd].timeout[EventOf(op)])]
          /\ Goto(f, "sys")
          /\ UNCHANGED <<fdVars, queued, events, timers, expired, firing>>

BeginConnect(f, fd, limited) ==
  /\ MayCall(f, "connect")
  /\ IsOpen(fd) /\ ~m_datas[fd].userNonblock /\ Using(fd) = {}
  /\ call' = [call EXCEPT ![f] = NewCall(f, "connect", fd, limited)]
  /\ Goto(f, "sys")
  /\ UNCHANGED <<fdVars, queued, events, timers, expired, firing>>

\* The call returns to the program.
Return(f, c, result) ==
  /\ call' = [call EXCEPT ![f] = [c EXCEPT !.result = result, !.fd = None,
                                           !.limited = FALSE]]
  /\ Goto(f, "app")

\* EAGAIN or EINPROGRESS: a limited call adds its condition timer.
AddConditionTimer(f) ==
  /\ timers' = IF call[f].limited THEN timers \cup {Timer(f)} ELSE timers
  /\ Goto(f, "armed")
  /\ UNCHANGED call

\* The system call of do_io.  accept gives the new socket its FdCtx; it may
\* also find the connection gone or no number free.
SysIo(f) ==
  LET fd == call[f].fd
      e == EventOf(call[f].op)
  IN /\ pc[f] = "sys" /\ call[f].op # "connect"
     /\ \/ /\ e \in kernel[fd].ready
           /\ \/ /\ call[f].op = "accept"
                 /\ Return(f, call[f], "ok")
                 /\ \E new \in Fds : GetCreating(new, "up", Taken(fd, e))
              \/ /\ Return(f, call[f], IF call[f].op = "accept" THEN "error" ELSE "ok")
                 /\ kernel' = Taken(fd, e)
                 /\ UNCHANGED <<m_datas, opened>>
           /\ UNCHANGED timers
        \/ /\ e \notin kernel[fd].ready /\ kernel[fd].nonblock
           /\ AddConditionTimer(f)
           /\ UNCHANGED fdVars
        \/ /\ e \notin kernel[fd].ready /\ ~kernel[fd].nonblock
           /\ Goto(f, "blocked")
           /\ UNCHANGED <<fdVars, call, timers>>
     /\ UNCHANGED <<queued, events, expired, firing>>

\* The system call of connect_with_timeout.
SysConnect(f) ==
  LET fd == call[f].fd IN
     /\ pc[f] = "sys" /\ call[f].op = "connect"
     /\ \/ /\ kernel[fd].conn # "none"
           /\ Return(f, call[f], "error")
           /\ UNCHANGED <<fdVars, timers>>
        \/ /\ kernel[fd].conn = "none"
           /\ kernel' = [kernel EXCEPT ![fd].conn = "progress", ![fd].ready = {}]
           /\ IF kernel[fd].nonblock THEN AddConditionTimer(f)
              ELSE Goto(f, "blocked") /\ UNCHANGED <<call, timers>>
           /\ UNCHANGED <<m_datas, opened>>
     /\ UNCHANGED <<queued, events, expired, firing>>

\* A blocking system call ends.
Unblock(f) ==
  LET fd == call[f].fd
      e == EventOf(call[f].op)
  IN /\ pc[f] = "blocked" /\ e \in kernel[fd].ready
     /\ Return(f, call[f],
               IF kernel[fd].conn = "refused" THEN "error" ELSE "ok")
     /\ kernel' = Taken(fd, e)
     /\ UNCHANGED <<m_datas, opened, queued, events, timers, expired, firing>>

\* ... or reaches the limit that setsockopt has set in the kernel: EAGAIN, or for
\* connect EINPROGRESS, as if the socket were non-blocking.
BlockedTooLong(f) ==
  /\ pc[f] = "blocked"
  /\ EventOf(call[f].op) \in kernel[call[f].fd].limits \ kernel[call[f].fd].ready
  /\ AddConditionTimer(f)
  /\ UNCHANGED <<fdVars, queued, events, expired, firing>>

\* The end of connect_with_timeout: whatever woke it, SO_ERROR decides, and
\* SO_ERROR is 0 while the connection is still being made.
ConnectResult(f, armed) ==
  /\ Return(f, call[f], IF kernel[call[f].fd].conn = "refused" THEN "error" ELSE "ok")
  /\ timers' = armed

\* addEvent, with the current fiber as what to schedule.
AddEvent(f) ==
  /\ pc[f] = "armed"
  /\ events' = [events EXCEPT ![call[f].fd][EventOf(call[f].op)] = f]
  /\ Goto(f, "yield")
  /\ UNCHANGED <<fdVars, call, queued, timers, expired, firing>>

AddEventFails(f) ==
  /\ EpollFails
  /\ pc[f] = "armed"
  /\ IF call[f].op = "connect" THEN ConnectResult(f, timers \ {Timer(f)})
     ELSE Return(f, call[f], "error") /\ timers' = timers \ {Timer(f)}
  /\ UNCHANGED <<fdVars, queued, events, expired, firing>>

YieldToHold(f) ==
  /\ pc[f] = "yield"
  /\ Goto(f, "held")
  /\ UNCHANGED <<fdVars, call, queued, events, timers, expired, firing>>

\* After YieldToHold: the timer is cancelled, which does nothing to one that
\* has expired; then ETIMEDOUT, another attempt, or the result of connect.
CancelTimer(f) == timers \ {Timer(f)}

Woken(f) ==
  /\ pc[f] = "woken"
  /\ \/ /\ call[f].op = "sleep"
        /\ Return(f, call[f], "ok")
        /\ UNCHANGED timers
     \/ /\ call[f].op # "sleep" /\ call[f].cancelled
        /\ Return(f, call[f], "ETIMEDOUT")
        /\ timers' = CancelTimer(f)
     \/ /\ call[f].op = "connect" /\ ~call[f].cancelled
        /\ ConnectResult(f, CancelTimer(f))
     \/ /\ call[f].op \notin {"sleep", "connect"} /\ ~call[f].cancelled
        /\ Goto(f, "sys")
        /\ timers' = CancelTimer(f)
        /\ UNCHANGED call
  /\ UNCHANGED <<fdVars, queued, events, expired, firing>>

\* sleep, usleep and nanosleep: a timer that schedules the fiber, and a yield.
BeginSleep(f) ==
  /\ MayCall(f, "sleep")
  /\ call' = [call EXCEPT ![f] = NewCall(f, "sleep", None, TRUE)]
  /\ timers' = timers \cup {[fiber |-> f, id |-> call[f].id + 1,
                             op |-> "sleep", fd |-> None]}
  /\ Goto(f, "yield")
  /\ UNCHANGED <<fdVars, queued, events, expired, firing>>

\* The calls that change the FdCtx.  A program closes a descriptor only when
\* no call is using it.
Control(f, fd) ==
  \/ /\ MayCall(f, "socket")
     /\ GetCreating(fd, "none", kernel)
     /\ Immediate(f) /\ UNCHANGED events
  \/ /\ MayCall(f, "close") /\ IsOpen(fd) /\ Using(fd) = {}
     /\ FdClose(fd)
     /\ Immediate(f) /\ UNCHANGED events
  \/ /\ MayCall(f, "setfl") /\ IsOpen(fd)
     /\ \E v \in BOOLEAN : SetFl(fd, v)
     /\ Immediate(f) /\ UNCHANGED events
  \/ /\ MayCall(f, "fionbio") /\ IsOpen(fd)
     /\ \E v \in BOOLEAN : SetFionbio(fd, v)
     /\ Immediate(f) /\ UNCHANGED events
  \/ /\ MayCall(f, "settimeout") /\ IsOpen(fd)
     /\ \E e \in Events, v \in BOOLEAN : SetTimeout(fd, e, v)
     /\ Immediate(f) /\ UNCHANGED events

\* Socket::cancelAll: every fiber registered for the descriptor is scheduled.
CancelAll(f, fd) ==
  /\ MayCall(f, "cancelall") /\ IsOpen(fd)
  /\ call' = [call EXCEPT ![f] = NewCall(f, "sleep", None, FALSE)]
  /\ queued' = [g \in Fibers |->
                  queued[g] + Cardinality({e \in Events : events[fd][e] = g})]
  /\ events' = [events EXCEPT ![fd] = [e \in Events |-> None]]
  /\ UNCHANGED <<fdVars, pc, timers, expired, firing>>

Finish(f) ==
  /\ pc[f] = "app"
  /\ Goto(f, "done")
  /\ UNCHANGED <<fdVars, call, queued, events, timers, expired, firing>>

-----------------------------------------------------------------------------
FiberStep(f) ==
  \/ Resume(f) \/ SysIo(f) \/ SysConnect(f) \/ Unblock(f) \/ BlockedTooLong(f)
  \/ AddEvent(f) \/ AddEventFails(f) \/ YieldToHold(f) \/ Woken(f)

CallbackStep(t) ==
  \/ Expire(t) \/ CallbackBegin(t) \/ CallbackCancel(t) \/ CallbackSleep(t)

Request(f) ==
  \/ BeginSleep(f)
  \/ Finish(f)
  \/ \E fd \in Fds :
       \/ \E op \in {"read", "write", "accept"} : BeginIo(f, op, fd)
       \/ \E limited \in BOOLEAN : BeginConnect(f, fd, limited)
       \/ Control(f, fd)
       \/ CancelAll(f, fd)

KernelStep ==
  \E fd \in Fds :
    \/ \E e \in Events : Readiness(fd, e)
    \/ \E how \in {"up", "refused"} : ConnectEnds(fd, how)

Next ==
  \/ \E f \in Fibers : FiberStep(f) \/ Request(f)
  \/ \E t \in timers \cup expired \cup firing : CallbackStep(t)
  \/ \E fd \in Fds, e \in Events : TriggerEvent(fd, e)
  \/ KernelStep

\* The threads keep running: fibers that can proceed do, a program ends
\* sometime, timers expire and their callbacks run.  Nothing is assumed of
\* the peer.
Fairness ==
  /\ \A f \in Fibers : WF_vars(FiberStep(f)) /\ WF_vars(Finish(f))
  /\ \A f \in Fibers :
       WF_vars(\E t \in timers \cup expired \cup firing : t.fiber = f /\ CallbackStep(t))
  /\ WF_vars(\E fd \in Fds, e \in Events : TriggerEvent(fd, e))

Spec == Init /\ [][Next]_vars /\ Fairness

-----------------------------------------------------------------------------
(***************************************************************************)
(* Properties.                                                             *)
(***************************************************************************)
\* A call returns ETIMEDOUT only if a timer of this very call has expired,
\* not for a timer of an earlier call of the same fiber or descriptor: each
\* call has a timer_info of its own, held weakly by its timers (hook.cpp:114).
OwnTimeout ==
  \A f \in Fibers : call[f].result = "ETIMEDOUT" => call[f].ownExpired

\* A hooked call blocks its thread only on a socket the program itself made
\* blocking, or on a number that was open before: there get(fd, true) finds
\* the old FdCtx and leaves the new socket blocking (fd_manager.cpp:94).
BlocksOnlyIf ==
  [][\A f \in Fibers :
       pc[f] # "blocked" /\ pc'[f] = "blocked" =>
         opened[call[f].fd] > 1 \/ kernel[call[f].fd].askedBlocking]_vars

\* A limited call of f has begun or tries again; it has ended; and its timer's
\* callback has already cancelled when addEvent is still to come.
Begun(f) == call[f].limited /\ (pc[f] = "sys" \/ (pc[f] = "yield" /\ call[f].op = "sleep"))
Ended(f) == pc[f] \in {"app", "done"}
Missed(f) == pc[f] = "armed" /\ call[f].cancelled /\ Timer(f) \notin firing

\* Every sleep ends, and every read, write, accept and connect with a time limit
\* returns, whatever the peer does and the other threads do meanwhile, unless
\* threads are blocked for good in system calls.  There is one way to miss a
\* limit: the timer's callback has run on another thread between the arming of
\* the timer and addEvent (hook.cpp:128-147), and its cancelEvent found nobody.
LimitedReturns ==
  (<>[](\A f \in Fibers : pc[f] # "blocked")) =>
    \A f \in Fibers : Begun(f) ~> (Ended(f) \/ Missed(f))
=============================================================================
