--------------------------- MODULE IOManagerProofs ---------------------------
(***************************************************************************)
(* What holds of IOManager for any clients, workers and descriptors.       *)
(*                                                                         *)
(* The properties follow from an inductive invariant that ties the three   *)
(* copies of "this event is registered" together: the client that waits,   *)
(* the EventContext that holds it (HeldIsWaiting) and the mask of the      *)
(* context (EventHasWaiter), which KernelAgrees ties to epoll's copy.      *)
(***************************************************************************)
EXTENDS IOManager, FiniteSetTheorems, TLAPS

\* The types of everything but m_pendingEventCount, which is a natural number
\* only because it is exact.
Types ==
  /\ size \in Nat /\ gen \in [Fds -> 0 .. MaxGen]
  /\ events \in [Contexts -> Masks]
  /\ waiter \in [Contexts -> [Kinds -> Clients \cup {None}]]
  /\ kernel \in [Fds -> Registration \cup {None}]
  /\ ready \in [Fds -> Masks] /\ err \subseteq Fds /\ edges \subseteq Fds
  /\ batch \in [Workers -> SUBSET Result]
  /\ pc \in [Clients -> {"idle", "resize", "register", "wait", "dropped"}]
  /\ req \in [Clients -> (Fds \X Kinds) \cup {None}]
  /\ fd_ctx \in [Clients -> Contexts \cup {None}]
Flags == aborted \in BOOLEAN /\ shrunk \in BOOLEAN

\* Which fields of a client are set in which state.
ClientOK ==
  \A c \in Clients :
    /\ req[c] = None <=> pc[c] \in {"idle", "dropped"}
    /\ fd_ctx[c] # None <=> pc[c] \in {"register", "wait"}
    /\ fd_ctx[c] # None => fd_ctx[c][1] = req[c][1]

\* Two clients never ask for the same event of a descriptor.
OneRequest ==
  \A c, d \in Clients : req[c] # None /\ req[c] = req[d] => c = d

\* The EventContexts hold exactly the waiting clients.
HeldIsWaiting ==
  \A x \in Contexts, k \in Kinds, c \in Clients :
    waiter[x][k] = c <=> pc[c] = "wait" /\ fd_ctx[c] = x /\ req[c][2] = k

\* An event is registered exactly when somebody waits for it.
EventHasWaiter ==
  \A x \in Contexts, k \in Kinds : k \in events[x] <=> waiter[x][k] # None

\* While the table never shrank, a context taken from it stays in it.
TableKeeps ==
  /\ ~shrunk => size >= InitSize
  /\ \A c \in Clients : pc[c] = "resize" /\ ~shrunk => req[c][1] >= InitSize
  /\ \A c \in Clients :
       ~shrunk /\ pc[c] \in {"register", "wait"} =>
         Present(req[c][1]) /\ fd_ctx[c] = ContextOf(req[c][1])

\* What epoll has registered is what the context it points to believes.
KernelHolds ==
  \A fd \in Fds :
    kernel[fd] # None => kernel[fd].ptr[1] = fd /\ events[kernel[fd].ptr] = kernel[fd].mask

\* A result that nobody has overtaken reports registered events; a worker has
\* one result of a context at most.
ResultsOK ==
  /\ overtaken \subseteq Workers \X Contexts
  /\ \A w \in Workers : \A r, q \in batch[w] : r.ptr = q.ptr => r = q
  /\ \A w \in Workers : \A r \in batch[w] :
       r.err \/ <<w, r.ptr>> \in overtaken \/ r.events \subseteq events[r.ptr]

\* What relates clients, contexts and the kernel.
Held1 == ClientOK /\ OneRequest /\ HeldIsWaiting /\ EventHasWaiter /\ KernelAgrees

\* What epoll has reported, and what became of it.
Reported == KernelHolds /\ ResultsOK /\ AbortNeedsRace

\* The registered events, as PendingExact counts them.
Registered == {xk \in Contexts \X Kinds : xk[2] \in events[xk[1]]}

\* Events ks of context x are over, the common shape of delEvent, cancelEvent,
\* cancelAll and of what idle does with a result.
Over(x, ks, outcome) ==
  /\ ks \subseteq events[x] /\ ks # {}
  /\ Ctl(x[1], OpLeft(events[x] \ ks), events[x] \ ks, x)
  /\ Release(x, ks, outcome)
  /\ UNCHANGED <<size, gen, ready, err, shrunk>>

-----------------------------------------------------------------------------
\* Types and client fields start right.
LEMMA IOInit == Init => Types /\ Flags /\ Held1 /\ PendingExact /\ Reported /\ TableKeeps
  <1> SUFFICES ASSUME Init PROVE Types /\ Flags /\ Held1 /\ PendingExact /\ Reported /\ TableKeeps
    OBVIOUS
  <1>1. Types
    BY IOManagerAssumption DEF IOManagerAssumption, Init, Types, Contexts, Masks
  <1>2. Flags BY DEF Init, Flags
  <1>3. Held1
    BY IOManagerAssumption, NullAssumption
    DEF IOManagerAssumption, NullAssumption, Init, Held1, ClientOK, OneRequest,
        HeldIsWaiting, EventHasWaiter, KernelAgrees
  <1>4. PendingExact
    <2>1. {xk \in Contexts \X Kinds : xk[2] \in events[xk[1]]} = {}
      BY DEF Init, Contexts
    <2> QED BY <2>1, FS_EmptySet DEF Init, PendingExact
  <1>5. Reported BY DEF Init, Reported, KernelHolds, ResultsOK, AbortNeedsRace
  <1>6. TableKeeps BY IOManagerAssumption DEF IOManagerAssumption, Init, TableKeeps
  <1> QED BY <1>1, <1>2, <1>3, <1>4, <1>5, <1>6

\* A result of epoll_wait names a context, and events that are asked for.
LEMMA ResultTypes ==
  ASSUME Types, NEW w \in Workers, NEW r \in batch[w]
  PROVE  /\ r.ptr \in Contexts /\ r.ptr[1] \in Fds /\ r.events \in Masks
         /\ r.err \in BOOLEAN
  BY DEF Types, Result, Contexts

\* Whatever ends events of a context keeps the types.
LEMMA OverTypes ==
  ASSUME Types, NEW x \in Contexts, NEW ks, NEW outcome \in {"idle", "dropped"},
         Over(x, ks, outcome)
  PROVE  /\ size' \in Nat /\ gen' \in [Fds -> 0 .. MaxGen]
         /\ events' \in [Contexts -> Masks]
         /\ waiter' \in [Contexts -> [Kinds -> Clients \cup {None}]]
         /\ kernel' \in [Fds -> Registration \cup {None}]
         /\ ready' \in [Fds -> Masks] /\ err' \subseteq Fds /\ edges' \subseteq Fds
         /\ pc' \in [Clients -> {"idle", "resize", "register", "wait", "dropped"}]
         /\ req' \in [Clients -> (Fds \X Kinds) \cup {None}]
         /\ fd_ctx' \in [Clients -> Contexts \cup {None}]
  <1>1. x[1] \in Fds BY DEF Contexts
  <1>2. events[x] \ ks \in Masks BY DEF Types, Masks
  <1>3. /\ events' \in [Contexts -> Masks]
        /\ waiter' \in [Contexts -> [Kinds -> Clients \cup {None}]]
    BY <1>2 DEF Over, Release, Types
  <1>4. kernel' \in [Fds -> Registration \cup {None}] /\ edges' \subseteq Fds
    BY <1>1, <1>2 DEF Over, Ctl, Types, Registration
  <1>5. /\ pc' \in [Clients -> {"idle", "resize", "register", "wait", "dropped"}]
        /\ req' \in [Clients -> (Fds \X Kinds) \cup {None}]
        /\ fd_ctx' \in [Clients -> Contexts \cup {None}]
    BY DEF Over, Release, Types
  <1> QED BY <1>3, <1>4, <1>5 DEF Over, Types

\* fd * 1.5 makes room for fd, except for the first two descriptors.
LEMMA ResizeFits ==
  ASSUME NEW fd \in Nat
  PROVE  ResizeTo(fd) \in Nat /\ (fd >= 2 => ResizeTo(fd) > fd)
  <1>1. 2 * ((fd * 3) \div 2) <= fd * 3 /\ fd * 3 < 2 * ((fd * 3) \div 2) + 2
        /\ (fd * 3) \div 2 \in Int
    OBVIOUS
  <1> QED BY <1>1 DEF ResizeTo

\* The actions that end events have the shape Over.
LEMMA DropIsOver ==
  ASSUME Types, NEW fd \in Fds,
         CancelAll(fd) \/ \E k \in Kinds : DelEvent(fd, k) \/ CancelEvent(fd, k)
  PROVE  \E x \in Contexts, outcome \in {"idle", "dropped"} :
           \E ks : /\ Over(x, ks, outcome) /\ overtaken' = Overtake(x)
                   /\ UNCHANGED <<batch, aborted>>
  <1>1. ContextOf(fd) \in Contexts /\ ContextOf(fd)[1] = fd
    BY DEF Types, Contexts, ContextOf
  <1>2. CASE CancelAll(fd)
    <2>1. events[ContextOf(fd)] \ events[ContextOf(fd)] = {} /\ OpLeft({}) = "DEL"
      BY DEF OpLeft
    <2>2. /\ Over(ContextOf(fd), events[ContextOf(fd)], "idle")
          /\ overtaken' = Overtake(ContextOf(fd)) /\ UNCHANGED <<batch, aborted>>
      BY <1>1, <1>2, <2>1 DEF CancelAll, Over, envVars
    <2> QED BY <1>1, <2>2
  <1>3. ASSUME NEW k \in Kinds, NEW outcome \in {"idle", "dropped"},
               Unregister(fd, k, outcome)
        PROVE  /\ Over(ContextOf(fd), {k}, outcome)
               /\ overtaken' = Overtake(ContextOf(fd)) /\ UNCHANGED <<batch, aborted>>
    BY <1>1, <1>3 DEF Unregister, Over, envVars
  <1> QED BY <1>1, <1>2, <1>3 DEF DelEvent, CancelEvent

\* So has what idle does with a result that it does not skip.
LEMMA HandleIsOver ==
  ASSUME Types, NEW w \in Workers, NEW r \in batch[w], Handle(w, r)
  PROVE  Over(r.ptr, RealEvents(r), "idle")
  BY DEF Handle, Skips, Over, Left, envVars

-----------------------------------------------------------------------------
\* Every step keeps the types.
LEMMA IOTypesStep == Types /\ Flags /\ ClientOK /\ [Next]_vars => Types' /\ Flags'
  <1> SUFFICES ASSUME Types, Flags, ClientOK, [Next]_vars PROVE Types' /\ Flags'
    OBVIOUS
  <1>1. ASSUME NEW fd \in Fds, Fail(fd) PROVE Types' /\ Flags'
    BY <1>1 DEF Fail, Types, Flags, ctxVars, clientVars
  <1>2. ASSUME NEW c \in Clients, NEW u \in Uses[c], Readiness(u[1], u[2]) PROVE Types' /\ Flags'
    <2>1. u[1] \in Fds /\ u[2] \in Kinds
      BY IOManagerAssumption DEF IOManagerAssumption
    <2> QED BY <1>2, <2>1 DEF Readiness, Types, Flags, ctxVars, clientVars, Masks
  <1>3. CASE Drop
    <2>1. PICK x \in Contexts, outcome \in {"idle", "dropped"} :
            \E ks : /\ Over(x, ks, outcome) /\ overtaken' = Overtake(x)
                   /\ UNCHANGED <<batch, aborted>>
      BY <1>3, DropIsOver DEF Drop
    <2>2. PICK ks : Over(x, ks, outcome) /\ UNCHANGED <<batch, aborted>> BY <2>1
    <2>3. Types' BY <2>2, OverTypes DEF Types
    <2>4. Flags' BY <2>2 DEF Flags, Over
    <2> QED BY <2>3, <2>4
  <1>4. ASSUME NEW c \in Clients, AddEventResize(c) PROVE Types' /\ Flags'
    <2>1. req[c] # None BY <1>4 DEF AddEventResize, ClientOK
    <2>2. req[c][1] \in Fds BY <2>1 DEF Types
    <2>3. ResizeTo(req[c][1]) \in Nat
      BY <2>2, ResizeFits, IOManagerAssumption DEF IOManagerAssumption
    <2>4. size' \in Nat /\ gen' \in [Fds -> 0 .. MaxGen]
      BY <1>4, <2>3, IOManagerAssumption
      DEF IOManagerAssumption, AddEventResize, ContextResize, Types
    <2>5. fd_ctx' \in [Clients -> Contexts \cup {None}]
      BY <1>4, <2>2, <2>4 DEF AddEventResize, Types, Contexts
    <2>6. Flags' BY <1>4 DEF AddEventResize, ContextResize, Flags
    <2> QED BY <1>4, <2>4, <2>5, <2>6
        DEF AddEventResize, Types, epollVars, envVars
  <1>5. ASSUME NEW c \in Clients, AddEventRegister(c) PROVE Types' /\ Flags'
    <2>1. req[c] # None /\ fd_ctx[c] # None BY <1>5 DEF AddEventRegister, ClientOK
    <2>2. req[c][1] \in Fds /\ req[c][2] \in Kinds /\ fd_ctx[c] \in Contexts
      BY <2>1 DEF Types
    <2>3. events[fd_ctx[c]] \cup {req[c][2]} \in Masks BY <2>2 DEF Types, Masks
    <2>4. CASE pc'[c] = "idle"
      BY <1>5, <2>2, <2>4, ZenonT(60) DEF AddEventRegister, Types, Flags, envVars, epollVars
    <2>5. CASE pc'[c] # "idle"
      <3>1. /\ Ctl(req[c][1], IF events[fd_ctx[c]] = {} THEN "ADD" ELSE "MOD",
                   events[fd_ctx[c]] \cup {req[c][2]}, fd_ctx[c])
            /\ events' = [events EXCEPT ![fd_ctx[c]] = @ \cup {req[c][2]}]
            /\ waiter' = [waiter EXCEPT ![fd_ctx[c]][req[c][2]] = c]
            /\ pc' = [pc EXCEPT ![c] = "wait"]
            /\ UNCHANGED <<size, gen, ready, err, batch, req, fd_ctx, aborted, shrunk>>
        BY <1>5, <2>5 DEF AddEventRegister, Types, envVars
      <3>2. kernel' \in [Fds -> Registration \cup {None}] /\ edges' \subseteq Fds
        BY <2>2, <2>3, <3>1 DEF Ctl, Types, Registration
      <3> QED BY <2>2, <2>3, <3>1, <3>2 DEF Types, Flags
    <2> QED BY <2>4, <2>5
  <1>6. ASSUME NEW c \in Clients, NEW u \in Uses[c], AddEvent(c, u[1], u[2])
        PROVE  Types' /\ Flags'
    <2>1. u[1] \in Fds /\ u[2] \in Kinds
      BY IOManagerAssumption DEF IOManagerAssumption
    <2> QED BY <1>6, <2>1
        DEF AddEvent, Types, Flags, ctxVars, epollVars, envVars, Contexts, ContextOf
  <1>7. ASSUME NEW w \in Workers, EpollWait(w) PROVE Types' /\ Flags'
    <2>1. \A fd \in {g \in edges : kernel[g] # None} : kernel[fd] \in Registration
      BY DEF Types
    <2>2. {[ptr |-> kernel[fd].ptr, events |-> kernel[fd].mask \cap ready[fd],
            err |-> fd \in err] : fd \in {g \in edges : kernel[g] # None}} \subseteq Result
      <3> SUFFICES ASSUME NEW fd \in {g \in edges : kernel[g] # None}
                   PROVE  [ptr |-> kernel[fd].ptr, events |-> kernel[fd].mask \cap ready[fd],
                           err |-> fd \in err] \in Result
        OBVIOUS
      <3> DEFINE e == fd \in err
      <3>1. e \in BOOLEAN OBVIOUS
      <3>2. kernel[fd].ptr \in Contexts /\ kernel[fd].mask \cap ready[fd] \in Masks
        BY <2>1 DEF Registration, Masks
      <3> HIDE DEF e
      <3>3. [ptr |-> kernel[fd].ptr, events |-> kernel[fd].mask \cap ready[fd],
             err |-> e] \in Result
        BY <3>1, <3>2 DEF Result
      <3> QED BY <3>3 DEF e
    <2> QED BY <1>7, <2>2 DEF EpollWait, Types, Flags, ctxVars, envVars, clientVars
  <1>8. ASSUME NEW w \in Workers, NEW r \in batch[w], HandleSkip(w, r)
        PROVE  Types' /\ Flags'
    BY <1>8 DEF HandleSkip, Types, Flags, ctxVars, epollVars, envVars, clientVars
  <1>9. ASSUME NEW w \in Workers, NEW r \in batch[w], Handle(w, r)
        PROVE  Types' /\ Flags'
    <2>1. Over(r.ptr, RealEvents(r), "idle") BY <1>9, HandleIsOver
    <2>2. r.ptr \in Contexts BY ResultTypes
    <2>3. batch' \in [Workers -> SUBSET Result] BY <1>9 DEF Handle, Types
    <2>4. Types' BY <2>1, <2>2, <2>3, OverTypes DEF Types
    <2>5. Flags' BY <1>9 DEF Handle, Flags
    <2> QED BY <2>4, <2>5
  <1>10. ASSUME NEW w \in Workers, NEW r \in batch[w], HandleAbort(w, r)
         PROVE  Types' /\ Flags'
    BY <1>10 DEF HandleAbort, Types, Flags, ctxVars, epollVars, envVars, clientVars
  <1>11. CASE UNCHANGED vars
    BY <1>11 DEF vars, Types, Flags, ctxVars, epollVars, envVars, clientVars
  <1> QED
    BY <1>1, <1>2, <1>3, <1>4, <1>5, <1>6, <1>7, <1>8, <1>9, <1>10, <1>11
    DEF Next, Kernel, Client, IdleLoop

-----------------------------------------------------------------------------
\* The clients that Release lets go are those that wait for the events ks of x.
LEMMA HeldAre ==
  ASSUME Types, HeldIsWaiting, NEW x \in Contexts, NEW ks \in SUBSET events[x],
         NEW c \in Clients
  PROVE  c \in Held(x, ks) <=> pc[c] = "wait" /\ fd_ctx[c] = x /\ req[c][2] \in ks
  <1>1. ks \subseteq Kinds BY DEF Types, Masks
  <1>2. \A k \in ks : waiter[x][k] = c <=> pc[c] = "wait" /\ fd_ctx[c] = x /\ req[c][2] = k
    BY <1>1 DEF HeldIsWaiting
  <1> QED BY <1>2 DEF Held

\* Ending events keeps clients, contexts and kernel in step.
LEMMA OverHeld ==
  ASSUME Types, Held1, NEW x \in Contexts, NEW ks, NEW outcome \in {"idle", "dropped"},
         Over(x, ks, outcome)
  PROVE  Held1'
  <1>1. ks \subseteq events[x] /\ ks \subseteq Kinds BY DEF Over, Types, Masks
  <1>2. \A c \in Clients :
          c \in Held(x, ks) <=> pc[c] = "wait" /\ fd_ctx[c] = x /\ req[c][2] \in ks
    BY <1>1, HeldAre DEF Held1
  <1>3. \A c \in Clients :
          IF c \in Held(x, ks)
          THEN pc'[c] = outcome /\ req'[c] = None /\ fd_ctx'[c] = None
          ELSE pc'[c] = pc[c] /\ req'[c] = req[c] /\ fd_ctx'[c] = fd_ctx[c]
    BY DEF Over, Release
  <1>4. \A y \in Contexts :
          /\ events'[y] = IF y = x THEN events[x] \ ks ELSE events[y]
          /\ \A k \in Kinds :
               waiter'[y][k] = IF y = x /\ k \in ks THEN None ELSE waiter[y][k]
    BY DEF Over, Release, Types
  <1>5. ClientOK'
    BY <1>3 DEF Held1, ClientOK
  <1>6. OneRequest'
    BY <1>3 DEF Held1, OneRequest
  <1>7. HeldIsWaiting'
    <2> SUFFICES ASSUME NEW y \in Contexts, NEW k \in Kinds, NEW c \in Clients
                 PROVE  waiter'[y][k] = c <=> pc'[c] = "wait" /\ fd_ctx'[c] = y /\ req'[c][2] = k
      BY DEF HeldIsWaiting
    <2>1. waiter[y][k] = c <=> pc[c] = "wait" /\ fd_ctx[c] = y /\ req[c][2] = k
      BY DEF Held1, HeldIsWaiting
    <2>2. c # None BY NullAssumption DEF NullAssumption
    <2> QED BY <1>2, <1>3, <1>4, <2>1, <2>2
  <1>8. EventHasWaiter'
    BY <1>4 DEF Held1, EventHasWaiter
  <1>9. KernelAgrees'
    <2> SUFFICES ASSUME NEW y \in Contexts, events'[y] # {}
                 PROVE  /\ kernel'[y[1]] # None
                        /\ kernel'[y[1]].ptr = y /\ kernel'[y[1]].mask = events'[y]
      BY DEF KernelAgrees
    <2>1. x[1] \in Fds /\ y[1] \in Fds BY DEF Contexts
    <2>2. CASE y = x
      <3>1. OpLeft(events[x] \ ks) = "MOD" BY <1>4, <2>2 DEF OpLeft
      <3>2. kernel'[x[1]] = [mask |-> events[x] \ ks, ptr |-> x]
        BY <2>1, <3>1 DEF Over, Ctl, Types
      <3>3. kernel'[x[1]] \in Registration
        BY <3>2 DEF Registration, Types, Masks
      <3>4. kernel'[x[1]] # None BY <3>3, NullAssumption DEF NullAssumption
      <3> QED BY <1>4, <2>2, <3>2, <3>4
    <2>3. CASE y # x
      <3>1. events[y] # {} BY <1>4, <2>3
      <3>2. kernel[y[1]] # None /\ kernel[y[1]].ptr = y /\ kernel[y[1]].mask = events[y]
        BY <3>1 DEF Held1, KernelAgrees
      <3>3. CASE y[1] # x[1]
        BY <1>4, <2>1, <2>3, <3>2, <3>3 DEF Over, Ctl, Types
      <3>4. CASE y[1] = x[1]
        <4>1. events[x] = {} BY <2>3, <3>2, <3>4 DEF Held1, KernelAgrees
        <4> QED BY <4>1 DEF Over
      <3> QED BY <3>3, <3>4
    <2> QED BY <2>2, <2>3
  <1> QED BY <1>5, <1>6, <1>7, <1>8, <1>9 DEF Held1

\* Registering an event keeps clients, contexts and kernel in step: one of
\* several contexts of a descriptor, at most, has events, because epoll_ctl
\* refuses to add a descriptor twice.
LEMMA RegisterHeld ==
  ASSUME Types, Held1, NEW c \in Clients, AddEventRegister(c)
  PROVE  Held1'
  <1> DEFINE fd == req[c][1]
             k  == req[c][2]
             x  == fd_ctx[c]
             op == IF events[x] = {} THEN "ADD" ELSE "MOD"
  <1>1. pc[c] = "register" /\ req[c] # None /\ x # None /\ x[1] = fd
    BY DEF AddEventRegister, Held1, ClientOK
  <1>2. fd \in Fds /\ k \in Kinds /\ x \in Contexts BY <1>1 DEF Types
  <1>3. CASE CtlFails(fd, op)
    <2>1. /\ pc' = [pc EXCEPT ![c] = "idle"] /\ req' = [req EXCEPT ![c] = None]
          /\ fd_ctx' = [fd_ctx EXCEPT ![c] = None]
          /\ UNCHANGED <<events, waiter, kernel>>
      BY <1>3 DEF AddEventRegister, epollVars
    <2>2. ClientOK' /\ OneRequest' BY <2>1 DEF Types, Held1, ClientOK, OneRequest
    <2>3. HeldIsWaiting'
      BY <1>1, <2>1, NullAssumption DEF NullAssumption, Types, Held1, HeldIsWaiting
    <2>4. EventHasWaiter' /\ KernelAgrees'
      BY <2>1 DEF Held1, EventHasWaiter, KernelAgrees
    <2> QED BY <2>2, <2>3, <2>4 DEF Held1
  <1>4. CASE ~CtlFails(fd, op)
    <2>1. /\ kernel' = [kernel EXCEPT ![fd] = [mask |-> events[x] \cup {k}, ptr |-> x]]
          /\ events' = [events EXCEPT ![x] = @ \cup {k}]
          /\ waiter' = [waiter EXCEPT ![x][k] = c]
          /\ pc' = [pc EXCEPT ![c] = "wait"]
          /\ UNCHANGED <<req, fd_ctx>>
      BY <1>4 DEF AddEventRegister, Ctl
    <2>2. ClientOK' /\ OneRequest'
      BY <1>1, <2>1 DEF Types, Held1, ClientOK, OneRequest
    <2>3. waiter[x][k] = None
      <3> SUFFICES ASSUME NEW d \in Clients, waiter[x][k] = d PROVE FALSE
        BY <1>2 DEF Types
      <3>1. pc[d] = "wait" /\ fd_ctx[d] = x /\ req[d][2] = k
        BY <1>2 DEF Held1, HeldIsWaiting
      <3>2. req[d] # None /\ req[d][1] = fd
        BY <1>1, <1>2, <3>1, NullAssumption DEF NullAssumption, Held1, ClientOK
      <3>3. req[d] = req[c] BY <1>1, <3>1, <3>2 DEF Types
      <3>4. d = c BY <1>1, <3>3 DEF Held1, OneRequest
      <3> QED BY <1>1, <3>1, <3>4
    <2>4. HeldIsWaiting'
      <3> SUFFICES ASSUME NEW y \in Contexts, NEW j \in Kinds, NEW d \in Clients
                   PROVE  waiter'[y][j] = d
                            <=> pc'[d] = "wait" /\ fd_ctx'[d] = y /\ req'[d][2] = j
        BY DEF HeldIsWaiting
      <3>1. waiter[y][j] = d <=> pc[d] = "wait" /\ fd_ctx[d] = y /\ req[d][2] = j
        BY DEF Held1, HeldIsWaiting
      <3>2. waiter'[y][j] = IF y = x /\ j = k THEN c ELSE waiter[y][j]
        BY <1>2, <2>1 DEF Types
      <3>3. pc'[d] = IF d = c THEN "wait" ELSE pc[d]
        BY <2>1 DEF Types
      <3>4. d # None BY NullAssumption DEF NullAssumption
      <3> QED BY <1>1, <2>1, <2>3, <3>1, <3>2, <3>3, <3>4
    <2>5. EventHasWaiter'
      <3>1. \A y \in Contexts : events'[y] = IF y = x THEN events[x] \cup {k} ELSE events[y]
        BY <1>2, <2>1 DEF Types
      <3>2. \A y \in Contexts, j \in Kinds :
              waiter'[y][j] = IF y = x /\ j = k THEN c ELSE waiter[y][j]
        BY <1>2, <2>1 DEF Types
      <3>3. c # None BY NullAssumption DEF NullAssumption
      <3> QED BY <3>1, <3>2, <3>3 DEF Held1, EventHasWaiter
    <2>6. KernelAgrees'
      <3> SUFFICES ASSUME NEW y \in Contexts, events'[y] # {}
                   PROVE  /\ kernel'[y[1]] # None
                          /\ kernel'[y[1]].ptr = y /\ kernel'[y[1]].mask = events'[y]
        BY DEF KernelAgrees
      <3>1. y[1] \in Fds BY DEF Contexts
      <3>2. CASE y = x
        <4>1. kernel'[fd] = [mask |-> events[x] \cup {k}, ptr |-> x]
          BY <1>2, <2>1 DEF Types
        <4>2. events'[x] = events[x] \cup {k} BY <1>2, <2>1 DEF Types
        <4>3. kernel'[fd] \in Registration
          BY <1>2, <4>1 DEF Registration, Types, Masks
        <4>4. kernel'[fd] # None BY <4>3, NullAssumption DEF NullAssumption
        <4> QED BY <1>1, <3>2, <4>1, <4>2, <4>4
      <3>3. CASE y # x
        <4>1. events'[y] = events[y] BY <2>1, <3>3 DEF Types
        <4>2. kernel[y[1]] # None /\ kernel[y[1]].ptr = y /\ kernel[y[1]].mask = events[y]
          BY <4>1 DEF Held1, KernelAgrees
        <4>3. y[1] # fd
          <5> SUFFICES ASSUME y[1] = fd PROVE FALSE OBVIOUS
          <5>1. events[x] = {} BY <1>1, <1>2, <3>3, <4>2 DEF Held1, KernelAgrees
          <5> QED BY <1>4, <4>2, <5>1 DEF CtlFails
        <4> QED BY <2>1, <3>1, <4>1, <4>2, <4>3 DEF Types
      <3> QED BY <3>2, <3>3
    <2> QED BY <2>2, <2>4, <2>5, <2>6 DEF Held1
  <1> QED BY <1>3, <1>4

\* Every step keeps clients, contexts and kernel in step.
LEMMA HeldStep == Types /\ Held1 /\ [Next]_vars => Held1'
  <1> SUFFICES ASSUME Types, Held1, [Next]_vars PROVE Held1'
    OBVIOUS
  <1>1. ASSUME UNCHANGED <<events, waiter, kernel, pc, req, fd_ctx>> PROVE Held1'
    BY <1>1 DEF Held1, ClientOK, OneRequest, HeldIsWaiting, EventHasWaiter, KernelAgrees
  <1>2. CASE Kernel
    BY <1>1, <1>2 DEF Kernel, Fail, Readiness, ctxVars, clientVars
  <1>3. CASE Drop
    BY <1>3, DropIsOver, OverHeld DEF Drop
  <1>4. ASSUME NEW c \in Clients, AddEventResize(c) PROVE Held1'
    <2>1. /\ pc[c] = "resize" /\ pc' = [pc EXCEPT ![c] = "register"]
          /\ fd_ctx' = [fd_ctx EXCEPT ![c] = <<req[c][1], gen'[req[c][1]]>>]
          /\ UNCHANGED <<events, waiter, kernel, req>>
      BY <1>4 DEF AddEventResize, epollVars
    <2>2. req[c] # None BY <2>1 DEF Held1, ClientOK
    <2>3. gen'[req[c][1]] \in 0 .. MaxGen /\ req[c][1] \in Fds
      <3>1. req[c][1] \in Fds BY <2>2 DEF Types
      <3>2. gen[req[c][1]] \in 0 .. MaxGen /\ gen[req[c][1]] < MaxGen
        BY <1>4, <3>1 DEF Types, AddEventResize
      <3>3. gen'[req[c][1]] \in {gen[req[c][1]], gen[req[c][1]] + 1}
        BY <1>4, <3>1 DEF AddEventResize, ContextResize
      <3> QED BY <3>1, <3>2, <3>3, IOManagerAssumption DEF IOManagerAssumption
    <2>4. fd_ctx'[c] # None
      BY <2>1, <2>3, NullAssumption DEF NullAssumption, Contexts, Types
    <2>5. ClientOK'
      BY <2>1, <2>2, <2>4 DEF Held1, ClientOK, Types
    <2>6. HeldIsWaiting'
      BY <2>1 DEF Held1, HeldIsWaiting, Types
    <2> QED BY <2>1, <2>5, <2>6
        DEF Held1, OneRequest, EventHasWaiter, KernelAgrees
  <1>5. ASSUME NEW c \in Clients, AddEventRegister(c) PROVE Held1'
    BY <1>5, RegisterHeld
  <1>6. ASSUME NEW c \in Clients, NEW u \in Uses[c], AddEvent(c, u[1], u[2])
        PROVE  Held1'
    <2>1. u[1] \in Fds /\ u[2] \in Kinds /\ <<u[1], u[2]>> \in Fds \X Kinds
      BY IOManagerAssumption DEF IOManagerAssumption
    <2>2. /\ pc[c] = "idle" /\ \A d \in Clients : req[d] # <<u[1], u[2]>>
          /\ req' = [req EXCEPT ![c] = <<u[1], u[2]>>]
          /\ pc' = [pc EXCEPT ![c] = IF Present(u[1]) THEN "register" ELSE "resize"]
          /\ fd_ctx' = [fd_ctx EXCEPT ![c] = IF Present(u[1]) THEN ContextOf(u[1]) ELSE None]
          /\ UNCHANGED <<events, waiter, kernel>>
      BY <1>6 DEF AddEvent, ctxVars, epollVars
    <2>3. <<u[1], u[2]>> # None /\ ContextOf(u[1]) # None
      BY <2>1, NullAssumption DEF NullAssumption, ContextOf, Contexts, Types
    <2>4. ContextOf(u[1])[1] = u[1] BY DEF ContextOf
    <2>5. ClientOK'
      BY <2>2, <2>3, <2>4 DEF Held1, ClientOK, Types
    <2>6. OneRequest'
      BY <2>2 DEF Held1, OneRequest, Types
    <2>7. HeldIsWaiting'
      BY <2>2 DEF Held1, HeldIsWaiting, Types
    <2> QED BY <2>2, <2>5, <2>6, <2>7 DEF Held1, EventHasWaiter, KernelAgrees
  <1>7. ASSUME NEW w \in Workers, EpollWait(w) PROVE Held1'
    BY <1>1, <1>7 DEF EpollWait, ctxVars, clientVars
  <1>8. ASSUME NEW w \in Workers, NEW r \in batch[w], HandleSkip(w, r) \/ HandleAbort(w, r)
        PROVE  Held1'
    BY <1>1, <1>8 DEF HandleSkip, HandleAbort, ctxVars, epollVars, clientVars
  <1>9. ASSUME NEW w \in Workers, NEW r \in batch[w], Handle(w, r)
        PROVE  Held1'
    BY <1>9, HandleIsOver, OverHeld, ResultTypes
  <1>10. CASE UNCHANGED vars
    BY <1>1, <1>10 DEF vars, ctxVars, epollVars, clientVars
  <1> QED
    BY <1>2, <1>3, <1>4, <1>5, <1>6, <1>7, <1>8, <1>9, <1>10
    DEF Next, Client, IdleLoop

-----------------------------------------------------------------------------
\* There are finitely many contexts and events.
LEMMA RegisteredFinite == IsFiniteSet(Contexts \X Kinds) /\ IsFiniteSet(Kinds)
  <1>1. IsFiniteSet(0 .. MaxGen)
    BY FS_Interval, IOManagerAssumption DEF IOManagerAssumption
  <1>2. IsFiniteSet(Contexts)
    BY <1>1, FS_Product, IOManagerAssumption DEF IOManagerAssumption, Contexts
  <1>3. IsFiniteSet({"READ", "WRITE"})
    <2>1. {"READ", "WRITE"} = {"READ"} \cup {"WRITE"} OBVIOUS
    <2>2. IsFiniteSet({"READ"}) BY FS_Singleton
    <2> QED BY <2>1, <2>2, FS_AddElement
  <1>4. IsFiniteSet(Kinds)
    BY <1>3, FS_Subset, IOManagerAssumption DEF IOManagerAssumption
  <1> QED BY <1>2, <1>4, FS_Product

\* The counter follows the set of registered events: every path decrements it by
\* exactly as many events as it takes out, and addEvent never counts an event
\* that was already registered.
LEMMA PendingStep == Types /\ Held1 /\ PendingExact /\ [Next]_vars => PendingExact'
  <1> SUFFICES ASSUME Types, Held1, PendingExact, [Next]_vars PROVE PendingExact'
    OBVIOUS
  <1>1. IsFiniteSet(Registered) /\ m_pendingEventCount = Cardinality(Registered)
    BY RegisteredFinite, FS_Subset DEF Registered, PendingExact
  <1>2. PendingExact' <=> m_pendingEventCount' = Cardinality(Registered')
    BY DEF PendingExact, Registered
  <1>3. ASSUME UNCHANGED <<events, m_pendingEventCount>> PROVE PendingExact'
    BY <1>3 DEF PendingExact
  <1>4. ASSUME NEW x \in Contexts, NEW ks, NEW outcome, Over(x, ks, outcome)
        PROVE  PendingExact'
    <2>1. ks \subseteq Kinds BY <1>4 DEF Over, Types, Masks
    <2>2. IsFiniteSet(ks) BY <2>1, RegisteredFinite, FS_Subset
    <2>3. Cardinality({x} \X ks) = Cardinality(ks)
      <3>1. Cardinality({x} \X ks) = 1 * Cardinality(ks)
        <4>1. IsFiniteSet({x}) /\ Cardinality({x}) = 1 BY FS_Singleton
        <4> QED BY <2>2, <4>1, FS_Product
      <3>2. Cardinality(ks) \in Nat BY <2>2, FS_CardinalityType
      <3> QED BY <3>1, <3>2
    <2>4. Registered' = Registered \ ({x} \X ks)
      BY <1>4 DEF Over, Release, Registered, Types
    <2>5. Registered \cap ({x} \X ks) = {x} \X ks
      BY <1>4, <2>1 DEF Over, Registered
    <2>6. Cardinality(Registered') = Cardinality(Registered) - Cardinality(ks)
      BY <1>1, <2>3, <2>4, <2>5, FS_Difference
    <2> QED BY <1>1, <1>2, <1>4, <2>6 DEF Over, Release
  <1>5. ASSUME NEW c \in Clients, AddEventRegister(c) PROVE PendingExact'
    <2> DEFINE k == req[c][2]
               x == fd_ctx[c]
    <2>1. pc[c] = "register" /\ req[c] # None /\ x # None /\ x[1] = req[c][1]
      BY <1>5 DEF AddEventRegister, Held1, ClientOK
    <2>2. k \in Kinds /\ x \in Contexts BY <2>1 DEF Types
    <2>3. CASE UNCHANGED <<events, m_pendingEventCount>> BY <1>3, <2>3
    <2>4. CASE ~UNCHANGED <<events, m_pendingEventCount>>
      <3>1. /\ m_pendingEventCount' = m_pendingEventCount + 1
            /\ events' = [events EXCEPT ![x] = @ \cup {k}]
            /\ waiter' = [waiter EXCEPT ![x][k] = c]
            /\ UNCHANGED <<req, fd_ctx>>
        BY <1>5, <2>4 DEF AddEventRegister, PendingAfterAdd
      <3>2. k \notin events[x]
        <4> SUFFICES ASSUME k \in events[x] PROVE FALSE OBVIOUS
        <4>1. PICK d \in Clients : waiter[x][k] = d
          BY <2>2 DEF Types, Held1, EventHasWaiter
        <4>2. pc[d] = "wait" /\ fd_ctx[d] = x /\ req[d][2] = k
          BY <2>2, <4>1 DEF Held1, HeldIsWaiting
        <4>3. req[d] # None /\ req[d][1] = req[c][1]
          BY <2>1, <4>2 DEF Held1, ClientOK
        <4>4. req[d] = req[c] BY <2>1, <4>2, <4>3 DEF Types
        <4> QED BY <2>1, <4>2, <4>3, <4>4 DEF Held1, OneRequest
      <3>3. Registered' = Registered \cup {<<x, k>>} /\ <<x, k>> \notin Registered
        BY <2>2, <3>1, <3>2 DEF Registered, Types
      <3>4. Cardinality(Registered') = Cardinality(Registered) + 1
        BY <1>1, <3>3, FS_AddElement
      <3> QED BY <1>1, <1>2, <3>1, <3>4
    <2> QED BY <2>3, <2>4
  <1>6. CASE Kernel BY <1>3, <1>6 DEF Kernel, Fail, Readiness, ctxVars
  <1>7. CASE Drop
    BY <1>4, <1>7, DropIsOver DEF Drop
  <1>8. ASSUME NEW c \in Clients,
               AddEventResize(c) \/ \E u \in Uses[c] : AddEvent(c, u[1], u[2])
        PROVE  PendingExact'
    BY <1>3, <1>8 DEF AddEventResize, AddEvent, ctxVars
  <1>9. ASSUME NEW w \in Workers, EpollWait(w) PROVE PendingExact'
    BY <1>3, <1>9 DEF EpollWait, ctxVars
  <1>10. ASSUME NEW w \in Workers, NEW r \in batch[w], HandleSkip(w, r) \/ HandleAbort(w, r)
         PROVE  PendingExact'
    BY <1>3, <1>10 DEF HandleSkip, HandleAbort, ctxVars
  <1>11. ASSUME NEW w \in Workers, NEW r \in batch[w], Handle(w, r)
         PROVE  PendingExact'
    BY <1>4, <1>11, HandleIsOver, ResultTypes
  <1>12. CASE UNCHANGED vars
    BY <1>3, <1>12 DEF vars, ctxVars
  <1> QED
    BY <1>5, <1>6, <1>7, <1>8, <1>9, <1>10, <1>11, <1>12 DEF Next, Client, IdleLoop

\* Whatever ends or adds events changes the kernel's copy with the context's.
LEMMA KernelHoldsStep == Types /\ Held1 /\ KernelHolds /\ [Next]_vars => KernelHolds'
  <1> SUFFICES ASSUME Types, Held1, KernelHolds, [Next]_vars PROVE KernelHolds'
    OBVIOUS
  <1>1. ASSUME UNCHANGED <<kernel, events>> PROVE KernelHolds'
    BY <1>1 DEF KernelHolds
  <1>2. ASSUME NEW x \in Contexts, NEW mask,
               \/ kernel' = [kernel EXCEPT ![x[1]] = None]
               \/ kernel' = [kernel EXCEPT ![x[1]] = [mask |-> mask, ptr |-> x]],
               events' = [events EXCEPT ![x] = mask]
        PROVE  KernelHolds'
    <2> SUFFICES ASSUME NEW fd \in Fds, kernel'[fd] # None
                 PROVE  kernel'[fd].ptr[1] = fd /\ events'[kernel'[fd].ptr] = kernel'[fd].mask
      BY DEF KernelHolds
    <2>1. kernel \in [Fds -> Registration \cup {None}] /\ events \in [Contexts -> Masks]
      BY DEF Types
    <2>2. CASE fd = x[1]
      <3>1. kernel'[fd] = [mask |-> mask, ptr |-> x] BY <1>2, <2>1, <2>2
      <3> QED BY <1>2, <2>1, <2>2, <3>1
    <2>3. CASE fd # x[1]
      <3>1. kernel'[fd] = kernel[fd] BY <1>2, <2>1, <2>3
      <3>2. kernel[fd].ptr[1] = fd /\ events[kernel[fd].ptr] = kernel[fd].mask
        BY <3>1 DEF KernelHolds
      <3>3. kernel[fd] \in Registration BY <2>1, <3>1
      <3>4. kernel[fd].ptr \in Contexts /\ kernel[fd].ptr # x
        BY <2>3, <3>2, <3>3 DEF Registration
      <3>5. events'[kernel[fd].ptr] = events[kernel[fd].ptr] BY <1>2, <2>1, <3>4
      <3> QED BY <3>1, <3>2, <3>5
    <2> QED BY <2>2, <2>3
  <1>3. ASSUME NEW x \in Contexts, NEW ks, NEW outcome, Over(x, ks, outcome)
        PROVE  KernelHolds'
    <2>1. events' = [events EXCEPT ![x] = events[x] \ ks] BY <1>3 DEF Over, Release, Types
    <2>2. \/ kernel' = [kernel EXCEPT ![x[1]] = None]
          \/ kernel' = [kernel EXCEPT ![x[1]] = [mask |-> events[x] \ ks, ptr |-> x]]
      BY <1>3 DEF Over, Ctl
    <2> QED BY <1>2, <2>1, <2>2
  <1>4. ASSUME NEW c \in Clients, AddEventRegister(c) PROVE KernelHolds'
    <2>1. pc[c] = "register" /\ fd_ctx[c] # None /\ fd_ctx[c][1] = req[c][1]
      BY <1>4 DEF AddEventRegister, Held1, ClientOK
    <2>2. fd_ctx[c] \in Contexts BY <2>1 DEF Types
    <2>3. CASE UNCHANGED <<kernel, events>> BY <1>1, <2>3
    <2>4. CASE ~UNCHANGED <<kernel, events>>
      <3>1. /\ Ctl(req[c][1], IF events[fd_ctx[c]] = {} THEN "ADD" ELSE "MOD",
                   events[fd_ctx[c]] \cup {req[c][2]}, fd_ctx[c])
            /\ events' = [events EXCEPT ![fd_ctx[c]] = events[fd_ctx[c]] \cup {req[c][2]}]
        BY <1>4, <2>4 DEF AddEventRegister, epollVars, Types
      <3>2. kernel' = [kernel EXCEPT ![fd_ctx[c][1]] =
                         [mask |-> events[fd_ctx[c]] \cup {req[c][2]}, ptr |-> fd_ctx[c]]]
        BY <2>1, <3>1 DEF Ctl
      <3> QED BY <1>2, <2>2, <3>1, <3>2
    <2> QED BY <2>3, <2>4
  <1>5. CASE Kernel BY <1>1, <1>5 DEF Kernel, Fail, Readiness, ctxVars
  <1>6. CASE Drop BY <1>3, <1>6, DropIsOver DEF Drop
  <1>7. ASSUME NEW c \in Clients,
               AddEventResize(c) \/ \E u \in Uses[c] : AddEvent(c, u[1], u[2])
        PROVE  KernelHolds'
    BY <1>1, <1>7 DEF AddEventResize, AddEvent, ctxVars, epollVars
  <1>8. ASSUME NEW w \in Workers, EpollWait(w) PROVE KernelHolds'
    BY <1>1, <1>8 DEF EpollWait, ctxVars
  <1>9. ASSUME NEW w \in Workers, NEW r \in batch[w], HandleSkip(w, r) \/ HandleAbort(w, r)
        PROVE  KernelHolds'
    BY <1>1, <1>9 DEF HandleSkip, HandleAbort, ctxVars, epollVars
  <1>10. ASSUME NEW w \in Workers, NEW r \in batch[w], Handle(w, r) PROVE KernelHolds'
    BY <1>3, <1>10, HandleIsOver, ResultTypes
  <1>11. CASE UNCHANGED vars BY <1>1, <1>11 DEF vars, ctxVars, epollVars
  <1> QED
    BY <1>4, <1>5, <1>6, <1>7, <1>8, <1>9, <1>10, <1>11 DEF Next, Client, IdleLoop

\* Who ends an event of a context overtakes the results of it.
LEMMA OverResults ==
  ASSUME Types, ResultsOK, NEW x \in Contexts, NEW ks, NEW outcome, Over(x, ks, outcome)
  PROVE  /\ Overtake(x) \subseteq Workers \X Contexts
         /\ \A w \in Workers : \A r \in batch[w] :
              r.err \/ <<w, r.ptr>> \in Overtake(x) \/ r.events \subseteq events'[r.ptr]
  <1>1. Overtake(x) \subseteq Workers \X Contexts BY DEF Overtake, ResultsOK
  <1>2. ASSUME NEW w \in Workers, NEW r \in batch[w], ~r.err, <<w, r.ptr>> \notin Overtake(x)
        PROVE  r.events \subseteq events'[r.ptr]
    <2>1. r.ptr # x BY <1>2 DEF Overtake
    <2>2. <<w, r.ptr>> \notin overtaken BY <1>2 DEF Overtake
    <2>3. r.events \subseteq events[r.ptr] BY <1>2, <2>2 DEF ResultsOK
    <2>4. r.ptr \in Contexts BY ResultTypes
    <2>5. events'[r.ptr] = events[r.ptr] BY <2>1, <2>4 DEF Over, Release, Types
    <2> QED BY <2>3, <2>5
  <1> QED BY <1>1, <1>2

\* What epoll_wait returns was registered then.
LEMMA ResultsStep == Types /\ Held1 /\ KernelHolds /\ ResultsOK /\ [Next]_vars => ResultsOK'
  <1> SUFFICES ASSUME Types, Held1, KernelHolds, ResultsOK, [Next]_vars PROVE ResultsOK'
    OBVIOUS
  <1>1. ASSUME UNCHANGED <<batch, events, overtaken>> PROVE ResultsOK'
    BY <1>1 DEF ResultsOK
  <1>2. CASE Drop
    <2>1. PICK x \in Contexts, outcome \in {"idle", "dropped"} :
            \E ks : /\ Over(x, ks, outcome) /\ overtaken' = Overtake(x)
                    /\ UNCHANGED <<batch, aborted>>
      BY <1>2, DropIsOver DEF Drop
    <2>2. PICK ks : Over(x, ks, outcome) /\ overtaken' = Overtake(x) /\ UNCHANGED batch
      BY <2>1
    <2>3. /\ Overtake(x) \subseteq Workers \X Contexts
          /\ \A w \in Workers : \A r \in batch[w] :
               r.err \/ <<w, r.ptr>> \in Overtake(x) \/ r.events \subseteq events'[r.ptr]
      BY <2>2, OverResults
    <2>4. \A w \in Workers : \A r, q \in batch[w] : r.ptr = q.ptr => r = q BY DEF ResultsOK
    <2> QED BY <2>2, <2>3, <2>4 DEF ResultsOK
  <1>3. ASSUME NEW w \in Workers, NEW r \in batch[w], Handle(w, r) \/ HandleSkip(w, r)
        PROVE  ResultsOK'
    <2>1. r.ptr \in Contexts BY ResultTypes
    <2>2. \E o : /\ overtaken' = o \ {<<w, r.ptr>>} /\ o \subseteq Workers \X Contexts
                 /\ \A v \in Workers : \A q \in batch[v] :
                      q.err \/ <<v, q.ptr>> \in o \/ q.events \subseteq events'[q.ptr]
      <3>1. CASE Handle(w, r)
        <4>1. overtaken' = Overtake(r.ptr) \ {<<w, r.ptr>>} BY <3>1 DEF Handle
        <4> QED BY <2>1, <3>1, <4>1, HandleIsOver, OverResults
      <3>2. CASE HandleSkip(w, r)
        BY <3>2 DEF HandleSkip, ctxVars, ResultsOK
      <3> QED BY <1>3, <3>1, <3>2
    <2>3. batch' = [batch EXCEPT ![w] = @ \ {r}] BY <1>3 DEF Handle, HandleSkip
    <2>4. PICK o : /\ overtaken' = o \ {<<w, r.ptr>>} /\ o \subseteq Workers \X Contexts
                   /\ \A v \in Workers : \A q \in batch[v] :
                        q.err \/ <<v, q.ptr>> \in o \/ q.events \subseteq events'[q.ptr]
      BY <2>2
    <2>5. \A v \in Workers : batch'[v] \subseteq batch[v] BY <2>3 DEF Types
    <2>6. \A v \in Workers : \A q, p \in batch'[v] : q.ptr = p.ptr => q = p
      BY <2>5 DEF ResultsOK
    <2>7. ASSUME NEW v \in Workers, NEW q \in batch'[v]
          PROVE  <<v, q.ptr>> # <<w, r.ptr>>
      <3>1. CASE v = w
        <4>1. q \in batch[w] /\ q # r BY <2>3, <2>7, <3>1 DEF Types
        <4> QED BY <4>1 DEF ResultsOK
      <3> QED BY <3>1
    <2>8. \A v \in Workers : \A q \in batch'[v] :
            q.err \/ <<v, q.ptr>> \in overtaken' \/ q.events \subseteq events'[q.ptr]
      BY <2>4, <2>5, <2>7
    <2> QED BY <2>4, <2>6, <2>8 DEF ResultsOK
  <1>4. ASSUME NEW w \in Workers, EpollWait(w) PROVE ResultsOK'
    <2>1. /\ UNCHANGED <<events, overtaken>>
          /\ batch' = [batch EXCEPT ![w] = {r \in
               {[ptr |-> kernel[fd].ptr, events |-> kernel[fd].mask \cap ready[fd],
                 err |-> fd \in err] : fd \in {g \in edges : kernel[g] # None}} :
                 r.events # {} \/ r.err}]
      BY <1>4 DEF EpollWait, ctxVars
    <2>2. ASSUME NEW r \in batch'[w]
          PROVE  \E fd \in Fds : /\ kernel[fd] # None
                                 /\ r = [ptr |-> kernel[fd].ptr,
                                         events |-> kernel[fd].mask \cap ready[fd],
                                         err |-> fd \in err]
      BY <2>1, <2>2 DEF Types
    <2>3. ASSUME NEW r \in batch'[w], NEW q \in batch'[w], r.ptr = q.ptr PROVE r = q
      <3>1. PICK f \in Fds : /\ kernel[f] # None
                             /\ r = [ptr |-> kernel[f].ptr,
                                     events |-> kernel[f].mask \cap ready[f], err |-> f \in err]
        BY <2>2
      <3>2. PICK g \in Fds : /\ kernel[g] # None
                             /\ q = [ptr |-> kernel[g].ptr,
                                     events |-> kernel[g].mask \cap ready[g], err |-> g \in err]
        BY <2>2
      <3>3. kernel[f].ptr[1] = f /\ kernel[g].ptr[1] = g BY <3>1, <3>2 DEF KernelHolds
      <3>4. r.ptr = kernel[f].ptr /\ q.ptr = kernel[g].ptr BY <3>1, <3>2
      <3>5. f = g BY <2>3, <3>3, <3>4
      <3> QED BY <3>1, <3>2, <3>5, Zenon
    <2>4. ASSUME NEW r \in batch'[w] PROVE r.events \subseteq events[r.ptr]
      <3>1. PICK f \in Fds : /\ kernel[f] # None
                             /\ r = [ptr |-> kernel[f].ptr,
                                     events |-> kernel[f].mask \cap ready[f], err |-> f \in err]
        BY <2>2, <2>4
      <3>2. events[kernel[f].ptr] = kernel[f].mask BY <3>1 DEF KernelHolds
      <3> QED BY <3>1, <3>2
    <2>5. \A v \in Workers : v # w => batch'[v] = batch[v] BY <2>1 DEF Types
    <2> QED BY <2>1, <2>3, <2>4, <2>5 DEF ResultsOK
  <1>5. ASSUME NEW c \in Clients, AddEventRegister(c) PROVE ResultsOK'
    <2>1. UNCHANGED <<batch, overtaken>> BY <1>5 DEF AddEventRegister
    <2>2. pc[c] = "register" /\ fd_ctx[c] # None
      BY <1>5 DEF AddEventRegister, Held1, ClientOK
    <2>3. fd_ctx[c] \in Contexts BY <2>2 DEF Types
    <2>4. events' = events \/ events' = [events EXCEPT ![fd_ctx[c]] = @ \cup {req[c][2]}]
      BY <1>5 DEF AddEventRegister
    <2>5. \A x \in Contexts : events[x] \subseteq events'[x] BY <2>3, <2>4 DEF Types
    <2>6. \A w \in Workers : \A r \in batch[w] : r.ptr \in Contexts BY ResultTypes
    <2> QED BY <2>1, <2>5, <2>6 DEF ResultsOK
  <1>6. CASE Kernel BY <1>1, <1>6 DEF Kernel, Fail, Readiness, ctxVars
  <1>7. ASSUME NEW c \in Clients,
               AddEventResize(c) \/ \E u \in Uses[c] : AddEvent(c, u[1], u[2])
        PROVE  ResultsOK'
    BY <1>1, <1>7 DEF AddEventResize, AddEvent, ctxVars
  <1>8. ASSUME NEW w \in Workers, NEW r \in batch[w], HandleAbort(w, r) PROVE ResultsOK'
    BY <1>1, <1>8 DEF HandleAbort, ctxVars
  <1>9. CASE UNCHANGED vars BY <1>1, <1>9 DEF vars, ctxVars
  <1> QED
    BY <1>2, <1>3, <1>4, <1>5, <1>6, <1>7, <1>8, <1>9 DEF Next, Client, IdleLoop

\* Only the handling of a result sets aborted, and one that nobody has overtaken
\* reports what is registered.
LEMMA AbortStep == Types /\ ResultsOK /\ AbortNeedsRace /\ [Next]_vars => AbortNeedsRace'
  <1> SUFFICES ASSUME Types, ResultsOK, AbortNeedsRace, [Next]_vars PROVE AbortNeedsRace'
    OBVIOUS
  <1>1. CASE UNCHANGED vars
    BY <1>1 DEF vars, AbortNeedsRace, ctxVars
  <1>2. ASSUME NEW w \in Workers, NEW r \in batch[w], HandleAbort(w, r)
        PROVE  AbortNeedsRace'
    <2>1. ~(RealEvents(r) \subseteq events[r.ptr]) BY <1>2 DEF HandleAbort
    <2>2. r.err \/ <<w, r.ptr>> \in overtaken
      <3> SUFFICES ASSUME ~r.err PROVE <<w, r.ptr>> \in overtaken OBVIOUS
      <3>1. RealEvents(r) = r.events BY DEF RealEvents
      <3> QED BY <2>1, <3>1 DEF ResultsOK
    <2>3. UNCHANGED <<batch, events, overtaken>> BY <1>2 DEF HandleAbort, ctxVars
    <2> QED BY <2>1, <2>2, <2>3 DEF AbortNeedsRace
  <1>3. ASSUME ~aborted, UNCHANGED aborted PROVE AbortNeedsRace'
    BY <1>3 DEF AbortNeedsRace
  <1>4. ASSUME NEW c \in Clients, ~aborted, Client(c) PROVE AbortNeedsRace'
    BY <1>3, <1>4 DEF Client, AddEventResize, AddEventRegister, AddEvent
  <1>5. ASSUME ~aborted, Kernel \/ Drop PROVE AbortNeedsRace'
    BY <1>3, <1>5 DEF Kernel, Fail, Readiness, Drop, CancelAll, DelEvent, CancelEvent,
       Unregister
  <1>6. ASSUME NEW w \in Workers, ~aborted, IdleLoop(w) PROVE AbortNeedsRace'
    BY <1>2, <1>3, <1>6 DEF IdleLoop, EpollWait, HandleSkip, Handle
  <1> QED BY <1>1, <1>4, <1>5, <1>6 DEF Next

\* As long as contextResize only ever made the table larger, the context that an
\* addEvent took from it is still there.
LEMMA TableStep == Types /\ Held1 /\ TableKeeps /\ [Next]_vars => TableKeeps'
  <1> SUFFICES ASSUME Types, Held1, TableKeeps, [Next]_vars PROVE TableKeeps'
    OBVIOUS
  <1> USE IOManagerAssumption DEF IOManagerAssumption
  <1>1. ASSUME UNCHANGED <<size, gen, shrunk>>,
               \A c \in Clients : pc'[c] \in {"idle", "dropped"}
                 \/ (pc'[c] = pc[c] /\ req'[c] = req[c] /\ fd_ctx'[c] = fd_ctx[c])
        PROVE  TableKeeps'
    BY <1>1 DEF TableKeeps, Present, ContextOf
  <1>2. ASSUME NEW x, NEW ks, NEW outcome \in {"idle", "dropped"}, Over(x, ks, outcome)
        PROVE  TableKeeps'
    BY <1>1, <1>2 DEF Over, Release
  <1>3. ASSUME NEW c \in Clients, AddEventResize(c) PROVE TableKeeps'
    <2> DEFINE fd == req[c][1]
               n  == ResizeTo(fd)
    <2>1. pc[c] = "resize" /\ req[c] # None BY <1>3 DEF AddEventResize, Held1, ClientOK
    <2>2. fd \in Fds /\ fd \in Nat BY <2>1 DEF Types
    <2>3. n \in Nat /\ (fd >= 2 => n > fd) BY <2>2, ResizeFits
    <2>4. /\ size' = n
          /\ gen' = [g \in Fds |-> IF g < n /\ g >= size THEN gen[g] + 1 ELSE gen[g]]
          /\ shrunk' = (shrunk \/ n < size)
          /\ pc' = [pc EXCEPT ![c] = "register"]
          /\ fd_ctx' = [fd_ctx EXCEPT ![c] = <<fd, gen'[fd]>>]
          /\ UNCHANGED req
      BY <1>3 DEF AddEventResize, ContextResize
    <2> SUFFICES ASSUME ~shrunk' PROVE TableKeeps'
      BY DEF TableKeeps
    <2>5. ~shrunk /\ n >= size
      <3>1. ~shrunk /\ ~(n < size) BY <2>4, Zenon
      <3> QED BY <2>3, <3>1 DEF Types
    <2>6. size' >= InitSize BY <2>3, <2>4, <2>5 DEF TableKeeps, Types
    <2>7. fd >= InitSize BY <2>1, <2>5 DEF TableKeeps
    <2>8. Present(fd)' /\ fd_ctx'[c] = ContextOf(fd)'
      BY <2>2, <2>3, <2>4, <2>7 DEF Present, ContextOf, Types
    <2>9. ASSUME NEW d \in Clients, d # c, pc'[d] \in {"register", "wait"}
          PROVE  Present(req[d][1])' /\ fd_ctx'[d] = ContextOf(req[d][1])'
      <3>1. pc[d] = pc'[d] /\ fd_ctx'[d] = fd_ctx[d] /\ req[d] # None
        BY <2>4, <2>9 DEF Types, Held1, ClientOK
      <3>2. Present(req[d][1]) /\ fd_ctx[d] = ContextOf(req[d][1])
        BY <2>5, <2>9, <3>1 DEF TableKeeps
      <3>3. req[d][1] \in Fds /\ req[d][1] \in Nat BY <3>1 DEF Types
      <3>4. req'[d] = req[d] BY <2>4
      <3> QED BY <2>3, <2>4, <2>5, <3>1, <3>2, <3>3, <3>4 DEF Present, ContextOf, Types
    <2>10. \A d \in Clients : pc'[d] = "resize" => req'[d][1] >= InitSize
      BY <2>4, <2>5 DEF TableKeeps, Types
    <2> QED BY <2>4, <2>6, <2>8, <2>9, <2>10 DEF TableKeeps, Present, ContextOf
  <1>4. ASSUME NEW c \in Clients, AddEventRegister(c) PROVE TableKeeps'
    <2>1. /\ pc[c] = "register" /\ UNCHANGED <<size, gen, shrunk>>
          /\ \/ pc' = [pc EXCEPT ![c] = "idle"] /\ req' = [req EXCEPT ![c] = None]
                /\ fd_ctx' = [fd_ctx EXCEPT ![c] = None]
             \/ pc' = [pc EXCEPT ![c] = "wait"] /\ UNCHANGED <<req, fd_ctx>>
      BY <1>4 DEF AddEventRegister
    <2> QED BY <2>1 DEF TableKeeps, Types, Present, ContextOf
  <1>5. ASSUME NEW c \in Clients, NEW u \in Uses[c], AddEvent(c, u[1], u[2])
        PROVE  TableKeeps'
    <2>1. u[1] \in Fds /\ u[1] \in Nat
      <3>1. u \in Fds \X Kinds
        BY IOManagerAssumption DEF IOManagerAssumption
      <3>2. Fds \subseteq Nat
        BY IOManagerAssumption DEF IOManagerAssumption
      <3> QED BY <3>1, <3>2
    <2>2. /\ req' = [req EXCEPT ![c] = <<u[1], u[2]>>]
          /\ pc' = [pc EXCEPT ![c] = IF Present(u[1]) THEN "register" ELSE "resize"]
          /\ fd_ctx' = [fd_ctx EXCEPT ![c] = IF Present(u[1]) THEN ContextOf(u[1]) ELSE None]
          /\ UNCHANGED <<size, gen, shrunk>>
      BY <1>5 DEF AddEvent, ctxVars
    <2>3. CASE Present(u[1]) BY <2>2, <2>3 DEF TableKeeps, Types, Present, ContextOf
    <2>4. CASE ~Present(u[1]) BY <2>1, <2>2, <2>4 DEF TableKeeps, Types, Present, ContextOf
    <2> QED BY <2>3, <2>4
  <1>6. CASE Kernel
    BY <1>1, <1>6 DEF Kernel, Fail, Readiness, ctxVars, clientVars
  <1>7. CASE Drop BY <1>2, <1>7, DropIsOver DEF Drop
  <1>8. ASSUME NEW w \in Workers, EpollWait(w) PROVE TableKeeps'
    BY <1>1, <1>8 DEF EpollWait, ctxVars, clientVars
  <1>9. ASSUME NEW w \in Workers, NEW r \in batch[w], HandleSkip(w, r) \/ HandleAbort(w, r)
         PROVE  TableKeeps'
    BY <1>1, <1>9 DEF HandleSkip, HandleAbort, ctxVars, clientVars
  <1>10. ASSUME NEW w \in Workers, NEW r \in batch[w], Handle(w, r)
         PROVE  TableKeeps'
    BY <1>2, <1>10, HandleIsOver
  <1>11. CASE UNCHANGED vars
    BY <1>1, <1>11 DEF vars, ctxVars, clientVars
  <1> QED
    BY <1>3, <1>4, <1>5, <1>6, <1>7, <1>8, <1>9, <1>10, <1>11 DEF Next, Client, IdleLoop

-----------------------------------------------------------------------------
\* All of it together is an inductive invariant.
IInv == Types /\ Flags /\ Held1 /\ PendingExact /\ Reported /\ TableKeeps

\* The inductive invariant holds in every reachable state.
THEOREM IOInvariant == Spec => []IInv
  <1>1. Init => IInv BY IOInit DEF IInv
  <1>2. IInv /\ [Next]_vars => IInv'
    BY IOTypesStep, HeldStep, PendingStep, KernelHoldsStep, ResultsStep, AbortStep, TableStep
    DEF IInv, Held1, Reported
  <1> QED BY <1>1, <1>2, PTL DEF Spec

\* Every variable keeps its type; in particular m_pendingEventCount, a size_t,
\* is never decremented below zero.
THEOREM IOTypeOK == Spec => []TypeOK
  <1>1. IInv => TypeOK
    <2> SUFFICES ASSUME IInv PROVE TypeOK OBVIOUS
    <2>1. m_pendingEventCount \in Nat
      <3>1. IsFiniteSet({xk \in Contexts \X Kinds : xk[2] \in events[xk[1]]})
        BY RegisteredFinite, FS_Subset
      <3> QED BY <3>1, FS_CardinalityType DEF IInv, PendingExact
    <2> QED BY <2>1 DEF IInv, Types, Flags, Reported, ResultsOK, TypeOK
  <1> QED BY <1>1, IOInvariant, PTL

\* A client whose addEvent succeeded is in exactly one EventContext until its
\* event is triggered, cancelled or deleted, and no other client is in any:
\* nobody is forgotten and nobody is scheduled twice.
THEOREM IOWaiterHeldOnce == Spec => []WaiterHeldOnce
  <1>1. IInv => WaiterHeldOnce
    <2> SUFFICES ASSUME IInv, NEW c \in Clients
                 PROVE  Cardinality({xk \in Contexts \X Kinds : waiter[xk[1]][xk[2]] = c}) =
                          IF pc[c] = "wait" THEN 1 ELSE 0
      BY DEF WaiterHeldOnce
    <2> DEFINE S == {xk \in Contexts \X Kinds : waiter[xk[1]][xk[2]] = c}
    <2>1. \A x \in Contexts, k \in Kinds :
            waiter[x][k] = c <=> pc[c] = "wait" /\ fd_ctx[c] = x /\ req[c][2] = k
      BY DEF IInv, Held1, HeldIsWaiting
    <2>2. CASE pc[c] = "wait"
      <3>1. fd_ctx[c] # None /\ req[c] # None BY <2>2 DEF IInv, Held1, ClientOK
      <3>2. fd_ctx[c] \in Contexts /\ req[c][2] \in Kinds BY <3>1 DEF IInv, Types
      <3>3. S = {<<fd_ctx[c], req[c][2]>>} BY <2>1, <2>2, <3>2
      <3> QED BY <2>2, <3>3, FS_Singleton
    <2>3. CASE pc[c] # "wait"
      <3>1. S = {} BY <2>1, <2>3
      <3> QED BY <2>3, <3>1, FS_EmptySet
    <2> QED BY <2>2, <2>3
  <1> QED BY <1>1, IOInvariant, PTL

\* m_pendingEventCount is the number of registered events.
THEOREM IOPendingExact == Spec => []PendingExact
  <1>1. IInv => PendingExact BY DEF IInv
  <1> QED BY <1>1, IOInvariant, PTL

\* epoll has registered, for the context of every event, what the context says.
THEOREM IOKernelAgrees == Spec => []KernelAgrees
  <1>1. IInv => KernelAgrees BY DEF IInv, Held1
  <1> QED BY <1>1, IOInvariant, PTL

\* The assertion of triggerEvent fails only for an error report, or for a result
\* one of whose context's events was ended by somebody else between epoll_wait
\* and the lock of the context.
THEOREM IOAbortNeedsRace == Spec => []AbortNeedsRace
  <1>1. IInv => AbortNeedsRace BY DEF IInv, Reported
  <1> QED BY <1>1, IOInvariant, PTL

\* Until contextResize shrinks the table, a waiting client can be cancelled.
THEOREM IOCancelFinds == Spec => []CancelFinds
  <1>1. IInv => CancelFinds
    <2> SUFFICES ASSUME IInv, NEW c \in Clients, ~shrunk, pc[c] = "wait"
                 PROVE  /\ Present(req[c][1])
                        /\ waiter[ContextOf(req[c][1])][req[c][2]] = c
      BY DEF CancelFinds
    <2>1. fd_ctx[c] # None /\ req[c] # None BY DEF IInv, Held1, ClientOK
    <2>2. fd_ctx[c] \in Contexts /\ req[c][2] \in Kinds BY <2>1 DEF IInv, Types
    <2>3. Present(req[c][1]) /\ fd_ctx[c] = ContextOf(req[c][1]) BY DEF IInv, TableKeeps
    <2>4. waiter[fd_ctx[c]][req[c][2]] = c BY <2>2 DEF IInv, Held1, HeldIsWaiting
    <2> QED BY <2>3, <2>4
  <1> QED BY <1>1, IOInvariant, PTL
=============================================================================
