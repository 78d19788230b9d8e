------------------------------ MODULE IOManager ------------------------------
(***************************************************************************)
(* The event side of iomanager.{h,cpp}: the table of FdContexts, addEvent, *)
(* delEvent, cancelEvent, cancelAll, and the part of IOManager::idle that  *)
(* turns what epoll_wait reports into scheduled callbacks and fibers.      *)
(*                                                                         *)
(* A client is a fiber (or a callback registered by one) that asks for one *)
(* event of one descriptor at a time.  A worker is a thread in the idle    *)
(* loop.  A context is named by its descriptor and by which allocation of  *)
(* contextResize created it, because the table can be shrunk and grown.    *)
(* The kernel's epoll instance is modelled from its documented, edge       *)
(* triggered behaviour.  Timers and the tickle pipe are in TimerManager.   *)
(*                                                                         *)
(* Definitions that come in pairs, one of them unused, show what a bug in  *)
(* the code would look like, as in Scheduler.                              *)
(***************************************************************************)
EXTENDS Integers, FiniteSets

CONSTANTS
  Clients,   \* requests for an event; each has at most one outstanding
  Workers,   \* threads in IOManager::idle
  Fds,       \* descriptors
  Kinds,     \* the events, of "READ" and "WRITE"
  Uses,      \* per client: the descriptors and events it may ask for
  InitSize,  \* the size of m_FdContexts made by the constructor
  Errors,    \* descriptors that may report EPOLLERR or EPOLLHUP
  MayDrop,   \* delEvent, cancelEvent and cancelAll are used
  MaxGen,    \* bound: contexts allocated for one descriptor
  None       \* null

ASSUME IOManagerAssumption ==
  /\ Fds \subseteq Nat
  /\ InitSize \in Nat /\ InitSize >= 2  \* the constructor makes 32
  /\ Kinds \subseteq {"READ", "WRITE"} /\ Uses \in [Clients -> SUBSET (Fds \X Kinds)]
  /\ Errors \subseteq Fds
  /\ MayDrop \in BOOLEAN
  /\ MaxGen \in Nat
  /\ IsFiniteSet(Fds) /\ IsFiniteSet(Clients) /\ IsFiniteSet(Workers)

VARIABLES
  size,      \* m_FdContexts.size()
  gen,       \* per descriptor: the allocation of the context in the table
  events,    \* per context: registered events
  waiter,    \* per context and event: the client in its EventContext
  m_pendingEventCount,
  kernel,    \* per descriptor: what epoll_ctl has registered, or None
  ready,     \* per descriptor: what it is ready for
  err,       \* descriptors in an error state
  edges,     \* descriptors on the epoll ready list
  batch,     \* per worker: results of epoll_wait not yet handled
  pc,        \* per client: "idle", "resize", "register", "wait" or "dropped"
  req,       \* per client: the descriptor and event it asks for
  fd_ctx,    \* per client: the context its addEvent took from the table
  aborted,   \* an assertion of the code has failed
  overtaken, \* history: the workers that have a result to handle of a context of
             \* which an event has ended since epoll_wait
  shrunk     \* history: contextResize has made the table smaller

ctxVars == <<size, gen, events, waiter, m_pendingEventCount>>
epollVars == <<kernel, edges>>
envVars == <<ready, err>>
clientVars == <<pc, req, fd_ctx>>
vars == <<ctxVars, epollVars, envVars, batch, clientVars, aborted, overtaken, shrunk>>

Contexts == Fds \X (0 .. MaxGen)
ContextOf(fd) == <<fd, gen[fd]>>

Masks == SUBSET Kinds
Registration == [mask : Masks, ptr : Contexts]
Result == [ptr : Contexts, events : Masks, err : BOOLEAN]

\* null is none of the values it stands in for.
ASSUME NullAssumption ==
  None \notin Clients \cup (Fds \X Kinds) \cup Contexts \cup Registration

\* The constructor makes InitSize contexts; nothing is registered.
Init ==
  /\ size = InitSize
  /\ gen = [fd \in Fds |-> 0]
  /\ events = [x \in Contexts |-> {}]
  /\ waiter = [x \in Contexts |-> [k \in Kinds |-> None]]
  /\ m_pendingEventCount = 0
  /\ kernel = [fd \in Fds |-> None]
  /\ ready = [fd \in Fds |-> {}]
  /\ err = {}
  /\ edges = {}
  /\ batch = [w \in Workers |-> {}]
  /\ pc = [c \in Clients |-> "idle"]
  /\ req = [c \in Clients |-> None]
  /\ fd_ctx = [c \in Clients |-> None]
  /\ aborted = FALSE /\ overtaken = {} /\ shrunk = FALSE

-----------------------------------------------------------------------------
(***************************************************************************)
(* The kernel.                                                             *)
(***************************************************************************)
\* epoll_ctl with op = MOD when something stays registered or was, ADD when
\* nothing was, DEL when nothing stays.  ADD of a known and MOD or DEL of an
\* unknown descriptor fail.
CtlFails(fd, op) == (op = "ADD") # (kernel[fd] = None)

Ctl(fd, op, mask, x) ==
  /\ kernel' = [kernel EXCEPT ![fd] = IF op = "DEL" THEN None
                                      ELSE [mask |-> mask, ptr |-> x]]
  /\ edges' = IF op # "DEL" /\ (mask \cap ready[fd] # {} \/ fd \in err)
              THEN edges \cup {fd} ELSE edges \ {fd}

\* A descriptor becomes ready, or not ready, for an event ...
Readiness(fd, k) ==
  /\ ready' = [ready EXCEPT ![fd] = IF k \in @ THEN @ \ {k} ELSE @ \cup {k}]
  /\ edges' = IF k \notin ready[fd] /\ kernel[fd] # None
              THEN edges \cup {fd} ELSE edges
  /\ UNCHANGED <<ctxVars, kernel, err, batch, clientVars, aborted, overtaken, shrunk>>

\* ... or fails.
Fail(fd) ==
  /\ fd \in Errors \ err
  /\ err' = err \cup {fd}
  /\ edges' = IF kernel[fd] # None THEN edges \cup {fd} ELSE edges
  /\ UNCHANGED <<ctxVars, kernel, ready, batch, clientVars, aborted, overtaken, shrunk>>

-----------------------------------------------------------------------------
(***************************************************************************)
(* The table of contexts.                                                  *)
(***************************************************************************)
Present(fd) == fd < size

\* fd * 1.5, truncated.
ResizeExact(fd) == fd
ResizeTo(fd) == (fd * 3) \div 2

\* vector::resize drops the pointers past the new end; contextResize then makes
\* a context for every empty slot.
ContextResize(n) ==
  /\ size' = n
  /\ gen' = [fd \in Fds |-> IF fd < n /\ fd >= size THEN gen[fd] + 1 ELSE gen[fd]]
  /\ shrunk' = (shrunk \/ n < size)

-----------------------------------------------------------------------------
(***************************************************************************)
(* The operations.                                                         *)
(***************************************************************************)
\* Clients run on the workers' own threads: somebody must be neither handling
\* results nor inside addEvent to start something else.
ThreadFree ==
  Cardinality({w \in Workers : batch[w] # {}})
    + Cardinality({c \in Clients : pc[c] \in {"resize", "register"}})
  < Cardinality(Workers)

\* addEvent up to the first unlock: under the read lock it takes the context
\* from the table, or finds that the table is too small.  One client at a time
\* asks for an event of a descriptor, as the assertion in addEvent demands of
\* its callers.
AddEvent(c, fd, k) ==
  /\ ThreadFree
  /\ pc[c] = "idle"
  /\ \A d \in Clients : req[d] # <<fd, k>>
  /\ req' = [req EXCEPT ![c] = <<fd, k>>]
  /\ pc' = [pc EXCEPT ![c] = IF Present(fd) THEN "register" ELSE "resize"]
  /\ fd_ctx' = [fd_ctx EXCEPT ![c] = IF Present(fd) THEN ContextOf(fd) ELSE None]
  /\ UNCHANGED <<ctxVars, epollVars, envVars, batch, aborted, overtaken, shrunk>>

\* The size is not looked at again under the write lock.
AddEventResize(c) ==
  /\ pc[c] = "resize"
  /\ \A fd \in Fds : gen[fd] < MaxGen
  /\ ContextResize(ResizeTo(req[c][1]))
  /\ pc' = [pc EXCEPT ![c] = "register"]
  /\ fd_ctx' = [fd_ctx EXCEPT ![c] = <<req[c][1], gen'[req[c][1]]>>]
  /\ UNCHANGED <<events, waiter, m_pendingEventCount, epollVars, envVars, batch,
                 req, aborted, overtaken>>

\* The operation that replaces a registration by what is left of it.
OpLeftDelete(left) == "DEL"
OpLeft(left) == IF left = {} THEN "DEL" ELSE "MOD"

PendingNotCounted == m_pendingEventCount
PendingAfterAdd == m_pendingEventCount + 1

\* The rest of addEvent, under the mutex of the context taken before.  A failed epoll_ctl makes it
\* return -1 and registers nothing.
AddEventRegister(c) ==
  LET fd == req[c][1]
      k  == req[c][2]
      x  == fd_ctx[c]
      op == IF events[x] = {} THEN "ADD" ELSE "MOD"
  IN
  /\ pc[c] = "register"
  /\ IF CtlFails(fd, op)
     THEN /\ pc' = [pc EXCEPT ![c] = "idle"]
          /\ req' = [req EXCEPT ![c] = None]
          /\ fd_ctx' = [fd_ctx EXCEPT ![c] = None]
          /\ UNCHANGED <<events, waiter, m_pendingEventCount, epollVars>>
     ELSE /\ Ctl(fd, op, events[x] \cup {k}, x)
          /\ m_pendingEventCount' = PendingAfterAdd
          /\ events' = [events EXCEPT ![x] = @ \cup {k}]
          /\ waiter' = [waiter EXCEPT ![x][k] = c]
          /\ pc' = [pc EXCEPT ![c] = "wait"]
          /\ UNCHANGED <<req, fd_ctx>>
  /\ UNCHANGED <<size, gen, envVars, batch, aborted, overtaken, shrunk>>

\* The clients in the EventContexts of context x for the events ks, which
\* triggerEvent schedules.
HeldForgotten(x, ks) == {}
Held(x, ks) == {waiter[x][k] : k \in ks}

\* An event of context x ends while these workers have a result of it to handle.
Overtake(x) == overtaken \cup ({w \in Workers : \E r \in batch[w] : r.ptr = x} \X {x})

\* The events ks of context x are over, with a decrement of m_pendingEventCount
\* for each: triggerEvent schedules the clients, resetContext only drops them.
Release(x, ks, outcome) ==
  /\ events' = [events EXCEPT ![x] = @ \ ks]
  /\ waiter' = [waiter EXCEPT ![x] = [k \in Kinds |-> IF k \in ks THEN None ELSE @[k]]]
  /\ m_pendingEventCount' = m_pendingEventCount - Cardinality(ks)
  /\ pc' = [c \in Clients |-> IF c \in Held(x, ks) THEN outcome ELSE pc[c]]
  /\ req' = [c \in Clients |-> IF c \in Held(x, ks) THEN None ELSE req[c]]
  /\ fd_ctx' = [c \in Clients |-> IF c \in Held(x, ks) THEN None ELSE fd_ctx[c]]

\* What delEvent and cancelEvent have in common.  When a guard fails they return
\* false and change nothing.
Unregister(fd, k, outcome) ==
  LET x == ContextOf(fd)
      left == events[x] \ {k}
  IN
  /\ MayDrop /\ ThreadFree /\ Present(fd) /\ k \in events[x]
  /\ ~CtlFails(fd, OpLeft(left))
  /\ Ctl(fd, OpLeft(left), left, x)
  /\ Release(x, {k}, outcome)
  /\ overtaken' = Overtake(x)
  /\ UNCHANGED <<size, gen, envVars, batch, aborted, shrunk>>

DelEvent(fd, k) == Unregister(fd, k, "dropped")
CancelEvent(fd, k) == Unregister(fd, k, "idle")

CancelAll(fd) ==
  LET x == ContextOf(fd) IN
  /\ MayDrop /\ ThreadFree /\ Present(fd) /\ events[x] # {}
  /\ ~CtlFails(fd, "DEL")
  /\ Ctl(fd, "DEL", {}, x)
  /\ Release(x, events[x], "idle")
  /\ overtaken' = Overtake(x)
  /\ UNCHANGED <<size, gen, envVars, batch, aborted, shrunk>>

-----------------------------------------------------------------------------
(***************************************************************************)
(* IOManager::idle.                                                        *)
(***************************************************************************)
\* epoll_wait hands over the ready list; being edge triggered it empties it.
EpollWait(w) ==
  LET results == {[ptr |-> kernel[fd].ptr, events |-> kernel[fd].mask \cap ready[fd],
                   err |-> fd \in err] : fd \in {g \in edges : kernel[g] # None}}
  IN
  /\ ThreadFree /\ batch[w] = {} /\ edges # {}
  /\ batch' = [batch EXCEPT ![w] = {r \in results : r.events # {} \/ r.err}]
  /\ edges' = {}
  /\ UNCHANGED <<ctxVars, kernel, envVars, clientVars, aborted, overtaken, shrunk>>

\* EPOLLERR and EPOLLHUP count as EPOLLIN and EPOLLOUT, whatever is registered.
RealEventsAlways(r) == {"READ", "WRITE"}
RealEvents(r) == IF r.err THEN {"READ", "WRITE"} ELSE r.events

Left(r) == events[r.ptr] \ RealEvents(r)

\* A result none of whose events is registered any more, or whose epoll_ctl
\* fails, is skipped.
Skips(r) ==
  \/ events[r.ptr] \cap RealEvents(r) = {}
  \/ CtlFails(r.ptr[1], OpLeft(Left(r)))

HandleSkip(w, r) ==
  /\ r \in batch[w] /\ Skips(r)
  /\ batch' = [batch EXCEPT ![w] = @ \ {r}]
  /\ overtaken' = overtaken \ {<<w, r.ptr>>}
  /\ UNCHANGED <<ctxVars, epollVars, envVars, clientVars, aborted, shrunk>>

\* Otherwise what is left is registered again and the real events are triggered,
\* READ first.  triggerEvent asserts that the event is registered.
Handle(w, r) ==
  /\ r \in batch[w] /\ ~Skips(r)
  /\ RealEvents(r) \subseteq events[r.ptr]
  /\ Ctl(r.ptr[1], OpLeft(Left(r)), Left(r), r.ptr)
  /\ Release(r.ptr, RealEvents(r), "idle")
  /\ overtaken' = Overtake(r.ptr) \ {<<w, r.ptr>>}
  /\ batch' = [batch EXCEPT ![w] = @ \ {r}]
  /\ UNCHANGED <<size, gen, envVars, aborted, shrunk>>

HandleAbort(w, r) ==
  /\ r \in batch[w] /\ ~Skips(r)
  /\ ~(RealEvents(r) \subseteq events[r.ptr])
  /\ aborted' = TRUE
  /\ UNCHANGED <<ctxVars, epollVars, envVars, batch, clientVars, overtaken, shrunk>>

-----------------------------------------------------------------------------
Kernel == (\E fd \in Fds : Fail(fd)) \/ (\E c \in Clients : \E u \in Uses[c] : Readiness(u[1], u[2]))

Client(c) ==
  \/ AddEventResize(c) \/ AddEventRegister(c)
  \/ \E u \in Uses[c] : AddEvent(c, u[1], u[2])

Drop ==
  \E fd \in Fds :
    CancelAll(fd) \/ \E k \in Kinds : DelEvent(fd, k) \/ CancelEvent(fd, k)

IdleLoop(w) ==
  EpollWait(w) \/ \E r \in batch[w] : HandleSkip(w, r) \/ Handle(w, r) \/ HandleAbort(w, r)

Next ==
  /\ ~aborted
  /\ Kernel \/ Drop \/ (\E c \in Clients : Client(c)) \/ (\E w \in Workers : IdleLoop(w))

Spec == Init /\ [][Next]_vars

\* A worker keeps coming back to epoll_wait (IOManager::idle never waits more
\* than MAX_TIMEOUT) and a client that has called addEvent gets to its end.
FairSpec ==
  /\ Spec
  /\ \A w \in Workers : WF_vars(~aborted /\ IdleLoop(w))
  /\ \A c \in Clients : WF_vars(~aborted /\ (AddEventResize(c) \/ AddEventRegister(c)))

-----------------------------------------------------------------------------
(***************************************************************************)
(* Properties.                                                             *)
(***************************************************************************)
\* Every variable keeps its type; m_pendingEventCount is a size_t that must not
\* wrap around below zero.
TypeOK ==
  /\ size \in Nat /\ gen \in [Fds -> 0 .. MaxGen]
  /\ events \in [Contexts -> Masks]
  /\ waiter \in [Contexts -> [Kinds -> Clients \cup {None}]]
  /\ m_pendingEventCount \in Nat
  /\ kernel \in [Fds -> Registration \cup {None}]
  /\ ready \in [Fds -> Masks] /\ err \subseteq Fds /\ edges \subseteq Fds
  /\ batch \in [Workers -> SUBSET Result]
  /\ pc \in [Clients -> {"idle", "resize", "register", "wait", "dropped"}]
  /\ req \in [Clients -> (Fds \X Kinds) \cup {None}]
  /\ fd_ctx \in [Clients -> Contexts \cup {None}]
  /\ aborted \in BOOLEAN /\ overtaken \subseteq Workers \X Contexts /\ shrunk \in BOOLEAN

\* A client whose addEvent succeeded is in exactly one EventContext, of the event
\* it asked for, until that event is over; nobody else is in any.  A client in
\* none would never be scheduled, a client in two would be scheduled twice.
WaiterHeldOnce ==
  \A c \in Clients :
    Cardinality({xk \in Contexts \X Kinds : waiter[xk[1]][xk[2]] = c}) =
      IF pc[c] = "wait" THEN 1 ELSE 0

\* m_pendingEventCount, on which stopping() relies, is the number of registered
\* events, although every path (add, del, cancel, cancelAll, idle) updates it on
\* its own.
PendingExact ==
  m_pendingEventCount =
    Cardinality({xk \in Contexts \X Kinds : xk[2] \in events[xk[1]]})

\* What a context believes to be registered is what epoll has registered for it:
\* an event the kernel does not watch would never be reported, and a context
\* with stale events picks the wrong epoll_ctl operation from then on.
KernelAgrees ==
  \A x \in Contexts :
    events[x] # {} => /\ kernel[x[1]] # None
                      /\ kernel[x[1]].ptr = x /\ kernel[x[1]].mask = events[x]

\* The assertion of triggerEvent, "MINGFWQ_ASSERT(events & event)"
\* (iomanager.cpp:34), fails only for an error report, which counts as both
\* events, or for a result that was overtaken: between epoll_wait and the lock of
\* the context another worker, cancelEvent, delEvent or cancelAll ended an event
\* of it.  What epoll reports was registered then, however requests came and
\* went before, and stays so if nobody else interferes.
AbortNeedsRace ==
  aborted => \E w \in Workers : \E r \in batch[w] :
               /\ r.err \/ <<w, r.ptr>> \in overtaken
               /\ ~(RealEvents(r) \subseteq events[r.ptr])

\* A client that waits can be found by cancelEvent, delEvent and cancelAll: its
\* descriptor's context in the table is the one that holds it ("cancelEvent: if
\* the event exists it is forcibly triggered", iomanager.h).  This ends when two
\* addEvents that both found the table too small run contextResize in the wrong
\* order, the larger size first: the second one shrinks the table.
CancelFinds ==
  \A c \in Clients :
    ~shrunk /\ pc[c] = "wait" =>
      LET fd == req[c][1] IN Present(fd) /\ waiter[ContextOf(fd)][req[c][2]] = c

\* A client waiting for an event its descriptor is ready for is served, or the
\* descriptor stops being ready, or the process has aborted: edge triggering
\* loses no wake-up although the registration is replaced with every event that
\* comes or goes.
ReadyFor(c) == pc[c] = "wait" /\ req[c][2] \in ready[req[c][1]]
WaitServed == \A c \in Clients : ReadyFor(c) ~> (~ReadyFor(c) \/ aborted)
=============================================================================
