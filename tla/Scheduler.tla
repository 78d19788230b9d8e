------------------------------ MODULE Scheduler ------------------------------
(***************************************************************************)
(* The fiber scheduler of scheduler.{h,cpp} together with the fibers of    *)
(* fiber.{h,cpp} that it switches into.                                    *)
(*                                                                         *)
(* A runner is a thread executing Scheduler::run: the threads created by   *)
(* start() and, with use_caller, the caller's own thread, which enters run *)
(* from stop().  A runner takes an entry from the shared queue m_fibers,   *)
(* switches into a fiber, and handles the state the fiber comes back with. *)
(* What application code does inside a fiber is left open: it may schedule *)
(* callbacks, yield, wait for a wake-up (the patterns of hook.cpp: give    *)
(* the fiber to a timer or to an epoll event, then YieldToHold), return or *)
(* throw.  A timer's wake-up is itself a callback that schedules the       *)
(* fiber; an event's puts the fiber on the queue directly.                 *)
(*                                                                         *)
(* One step is what run() does between two points where another thread's   *)
(* step can matter: a critical section of m_mutex, a write of m_state, an  *)
(* update of a counter, a context switch.                                  *)
(*                                                                         *)
(* Definitions that come in pairs, one of them unused (LostDecrement and   *)
(* Decrement): the unused one is what the other would be with a bug in  *)
(* the code, kept to show that the properties notice it.                   *)
(***************************************************************************)
EXTENDS Integers, Sequences, FiniteSets, SequencesExt

CONSTANTS
  Threads,     \* threads created by start()
  Root,        \* the thread that constructed the scheduler
  UseCaller,   \* use_caller: Root runs the scheduler too, inside stop()
  Fibers,      \* Fiber objects (storage: a destroyed one may be allocated again)
  UserFibers,  \* the Fiber objects the application creates and schedules
  Cbs,         \* callbacks; the application schedules each at most once
  Pin,         \* the thread argument each of them is scheduled with
  AnyThread,   \* -1, any thread
  None,        \* null
  IO,          \* the scheduler is an IOManager (it overrides stopping and idle)
  MaySwitch,   \* ways a fiber may give up its thread, of "ready", "sleep", "event"
  MaxYields,   \* bound: yields of one fiber
  MaxDup       \* bound: times the application schedules one of its fibers

Runners == Threads \cup (IF UseCaller THEN {Root} ELSE {})

\* The callback std::bind(&IOManager::schedule, iom, f, -1) of a sleep timer.
Wake(f) == <<"wake", f>>
WakeCbs == {Wake(f) : f \in Fibers}
Items == Fibers \cup Cbs \cup WakeCbs

\* A fiber that holds needs somebody to wake it: the timers and events of an
\* IOManager.  A bare Scheduler is used without waits, as in test_scheduler.cpp.
ASSUME SchedulerAssumption ==
  /\ IsFiniteSet(Threads)
  /\ Root \notin Threads
  /\ Runners # {}
  /\ UseCaller \in BOOLEAN /\ IO \in BOOLEAN
  /\ UserFibers \subseteq Fibers
  /\ Fibers \cap Cbs = {}
  /\ (Fibers \cup Cbs) \cap WakeCbs = {}
  /\ None \notin Items
  /\ AnyThread \notin Runners
  /\ Pin \in [UserFibers \cup Cbs -> Runners \cup {AnyThread}]
  /\ MaySwitch \subseteq {"ready", "sleep", "event"}
  /\ MaySwitch \cap {"sleep", "event"} # {} => IO
  /\ MaxYields \in Nat /\ MaxDup \in Nat

VARIABLES
  m_fibers,            \* the queue: entries [item, thread]
  m_activeThreadCount,
  m_idleThreadCount,
  m_stopping,
  m_autoStop,
  m_state,             \* per fiber
  m_cb,                \* per fiber: the body it runs (a user fiber's own body is
                       \* named by the fiber), None once it has returned
  pc,                  \* per runner: where it is in run()
  ft,                  \* per runner: the entry it has taken
  cb_fiber,            \* per runner: its fiber for callbacks
  idleTerm,            \* per runner: its idle fiber has terminated
  timers,              \* fibers held by a timer that has not been taken out
  events,              \* fibers held by an event that has not been triggered
  m_pendingEventCount,
  fired,               \* per runner: the fiber of the timer its idle took out
  main,                \* where the controlling thread is in start() / stop()
  yields,              \* per fiber: yields so far (bounds the model)
  dups,                \* per user fiber: times scheduled (bounds the model)
  starts,              \* history, per callback: times a fiber was entered for it
  ended                \* history: bodies that returned or threw

counters == <<m_activeThreadCount, m_idleThreadCount>>
control  == <<m_stopping, m_autoStop, main>>
fibers   == <<m_state, m_cb, yields>>
locals   == <<ft, cb_fiber, idleTerm>>
wakes    == <<timers, events, m_pendingEventCount, fired>>
history  == <<starts, ended>>
vars == <<m_fibers, counters, control, fibers, pc, locals, wakes, dups, history>>

State == {"INIT", "HOLD", "EXEC", "TERM", "READY", "EXCEPT"}

RunnerPc == {"off", "scan", "got", "none", "user", "armed", "switch", "back",
             "handle", "idle", "check", "wait", "post", "trigger",
             "exit"}

Entry == [item : Items, thread : Runners \cup {AnyThread}]

\* The state after the constructor: not started, nothing queued.
Init ==
  /\ m_fibers = <<>>
  /\ m_activeThreadCount = 0 /\ m_idleThreadCount = 0
  /\ m_stopping = TRUE /\ m_autoStop = FALSE
  /\ m_state = [f \in Fibers |-> "INIT"]
  /\ m_cb = [f \in Fibers |-> IF f \in UserFibers THEN f ELSE None]
  /\ pc = [t \in Runners |-> "off"]
  /\ ft = [t \in Runners |-> None]
  /\ cb_fiber = [t \in Runners |-> None]
  /\ idleTerm = [t \in Runners |-> FALSE]
  /\ timers = {} /\ events = {} /\ m_pendingEventCount = 0
  /\ fired = [t \in Runners |-> None]
  /\ main = "ready"
  /\ yields = [f \in Fibers |-> 0]
  /\ dups = [f \in UserFibers |-> 0]
  /\ starts = [c \in Cbs |-> 0]
  /\ ended = {}

-----------------------------------------------------------------------------
Queued(x) == \E i \in DOMAIN m_fibers : m_fibers[i].item = x

\* The fiber runner t has switched into: run() resets ft before it enters a
\* callback's fiber.
Cur(t) == IF ft[t] = None THEN cb_fiber[t] ELSE ft[t]

\* Runners whose CPU is on a fiber's stack: from swapIn until swapOut is done.
OnStack(t) == pc[t] \in {"user", "armed", "switch"}

\* Runners between taking an entry and the decrement of m_activeThreadCount, and
\* runners between the increment and the decrement of m_idleThreadCount.
BusyPc == {"got", "user", "armed", "switch", "back"}
IdlePc == {"idle", "check", "wait", "post", "trigger"}
Busy(t) == pc[t] \in BusyPc

\* No shared_ptr refers to f and it is not suspended halfway (a suspended fiber
\* holds a reference to itself on its own stack): it is destroyed, or never was.
Free(f) ==
  /\ f \notin UserFibers
  /\ m_state[f] \in {"INIT", "TERM", "EXCEPT"}
  /\ ~Queued(f) /\ ~Queued(Wake(f)) /\ f \notin timers \cup events
  /\ \A t \in Runners : f \notin {ft[t], cb_fiber[t], fired[t]}

\* schedule() / scheduleNoLock(): append under m_mutex.  The tickle that may
\* follow does nothing in Scheduler and only shortens a wait in IOManager.
PushBack(x, thr) == Append(m_fibers, [item |-> x, thread |-> thr])

Submitted(c) == starts[c] > 0 \/ Queued(c) \/ \E t \in Runners : ft[t] = c

Goto(t, from, to) == pc[t] = from /\ pc' = [pc EXCEPT ![t] = to]
-----------------------------------------------------------------------------
(***************************************************************************)
(* The controlling thread: start(), schedule(), stop().                    *)
(***************************************************************************)
\* start() holds m_mutex while it creates the threads, so no runner can look
\* at the queue before all of them exist.
Start ==
  /\ main = "ready" /\ m_stopping
  /\ main' = "started"
  /\ m_stopping' = FALSE
  /\ pc' = [t \in Runners |-> IF t \in Threads THEN "scan" ELSE "off"]
  /\ UNCHANGED <<m_fibers, counters, m_autoStop, fibers, locals, wakes, dups,
                 history>>

ScheduleCb(c) ==
  /\ main \in {"ready", "started"}
  /\ ~Submitted(c)
  /\ m_fibers' = PushBack(c, Pin[c])
  /\ UNCHANGED <<counters, control, fibers, pc, locals, wakes, dups, history>>

ScheduleFiber(f) ==
  /\ main \in {"ready", "started"}
  /\ dups[f] < MaxDup
  /\ m_fibers' = PushBack(f, Pin[f])
  /\ dups' = [dups EXCEPT ![f] = @ + 1]
  /\ UNCHANGED <<counters, control, fibers, pc, locals, wakes, history>>

\* Scheduler::stopping(), evaluated under m_mutex.
BaseStopping ==
  m_autoStop /\ m_stopping /\ m_fibers = <<>> /\ m_activeThreadCount = 0

\* IOManager::stopping() first reads the timers and m_pendingEventCount, without
\* m_mutex, and only then evaluates Scheduler::stopping().
NoWakesRead == FALSE
PendingWakes == IO /\ (timers # {} \/ m_pendingEventCount > 0)

StopAuto ==
  /\ main = "started"
  /\ m_autoStop' = TRUE
  /\ main' = "auto"
  /\ UNCHANGED <<m_fibers, counters, m_stopping, fibers, pc, locals, wakes, dups,
                 history>>

\* m_stopping = true, then, with use_caller, the first half of stopping().
StopFlag ==
  /\ main = "auto"
  /\ m_stopping' = TRUE
  /\ main' = IF ~UseCaller THEN "join"
             ELSE IF PendingWakes THEN "call" ELSE "test"
  /\ UNCHANGED <<m_fibers, counters, m_autoStop, fibers, pc, locals, wakes, dups,
                 history>>

\* if(!stopping()) m_rootFiber->call()
StopTest ==
  /\ main = "test"
  /\ main' = IF BaseStopping THEN "join" ELSE "call"
  /\ UNCHANGED <<m_fibers, counters, m_stopping, m_autoStop, fibers, pc, locals,
                 wakes, dups, history>>

\* Root enters run() in m_rootFiber; CallMainFunc comes back when run() returns.
StopCall ==
  /\ main = "call"
  /\ \/ Goto(Root, "off", "scan") /\ UNCHANGED main
     \/ pc[Root] = "exit" /\ main' = "join" /\ UNCHANGED pc
  /\ UNCHANGED <<m_fibers, counters, m_stopping, m_autoStop, fibers, locals,
                 wakes, dups, history>>

StopJoinDetached ==
  /\ main = "join"
  /\ main' = "done"
  /\ UNCHANGED <<m_fibers, counters, m_stopping, m_autoStop, fibers, pc, locals,
                 wakes, dups, history>>

StopJoin ==
  /\ main = "join"
  /\ \A t \in Threads : pc[t] = "exit"
  /\ main' = "done"
  /\ UNCHANGED <<m_fibers, counters, m_stopping, m_autoStop, fibers, pc, locals,
                 wakes, dups, history>>

-----------------------------------------------------------------------------
(***************************************************************************)
(* A runner t in Scheduler::run.                                           *)
(***************************************************************************)
\* The conditions under which the scan of the queue passes over an entry.
Eligible(t, e) ==
  /\ e.thread \in {AnyThread, t}
  /\ ~(e.item \in Fibers /\ m_state[e.item] = "EXEC")

\* The critical section at the top of the loop, when it finds an entry ...
Take(t) ==
  /\ Goto(t, "scan", "got")
  /\ \E i \in DOMAIN m_fibers :
       /\ Eligible(t, m_fibers[i])
       /\ \A j \in 1 .. i - 1 : ~Eligible(t, m_fibers[j])
       /\ ft' = [ft EXCEPT ![t] = m_fibers[i].item]
       /\ m_fibers' = RemoveAt(m_fibers, i)
  /\ m_activeThreadCount' = m_activeThreadCount + 1
  /\ UNCHANGED <<m_idleThreadCount, control, fibers, cb_fiber, idleTerm, wakes,
                 dups, history>>

\* ... and when it does not.
TakeNothing(t) ==
  /\ Goto(t, "scan", "none")
  /\ \A i \in DOMAIN m_fibers : ~Eligible(t, m_fibers[i])
  /\ UNCHANGED <<m_fibers, counters, control, fibers, locals, wakes, dups,
                 history>>

DeadTermOnly(f) == m_state[f] = "TERM"
Dead(f) == m_state[f] \in {"TERM", "EXCEPT"}

\* --m_activeThreadCount
LostDecrement == m_activeThreadCount
Decrement == m_activeThreadCount - 1

DropDeadStillActive(t) ==
  /\ Goto(t, "got", "scan")
  /\ ft[t] \in Fibers /\ Dead(ft[t])
  /\ ft' = [ft EXCEPT ![t] = None]
  /\ UNCHANGED <<m_fibers, counters, control, fibers, cb_fiber, idleTerm, wakes,
                 dups, history>>

\* The entry's fiber has finished meanwhile: give up being active and go on.
DropDead(t) ==
  /\ Goto(t, "got", "scan")
  /\ ft[t] \in Fibers /\ Dead(ft[t])
  /\ m_activeThreadCount' = Decrement
  /\ ft' = [ft EXCEPT ![t] = None]
  /\ UNCHANGED <<m_fibers, m_idleThreadCount, control, fibers, cb_fiber,
                 idleTerm, wakes, dups, history>>

\* ft.fiber->swapIn()
SwapInFiber(t) ==
  /\ Goto(t, "got", "user")
  /\ ft[t] \in Fibers /\ ~Dead(ft[t])
  /\ m_state' = [m_state EXCEPT ![ft[t]] = "EXEC"]
  /\ UNCHANGED <<m_fibers, counters, control, m_cb, yields, locals, wakes, dups,
                 history>>

\* A callback gets the runner's cb_fiber, reset, or a new Fiber.
SwapInCb(t) ==
  /\ Goto(t, "got", "user")
  /\ ft[t] \in Cbs \cup WakeCbs
  /\ \E f \in Fibers :
       /\ IF cb_fiber[t] # None THEN f = cb_fiber[t] ELSE Free(f)
       /\ m_state' = [m_state EXCEPT ![f] = "EXEC"]
       /\ m_cb' = [m_cb EXCEPT ![f] = ft[t]]
       /\ yields' = [yields EXCEPT ![f] = 0]
       /\ cb_fiber' = [cb_fiber EXCEPT ![t] = f]
  /\ starts' = [c \in Cbs |-> IF c = ft[t] THEN starts[c] + 1 ELSE starts[c]]
  /\ ft' = [ft EXCEPT ![t] = None]
  /\ UNCHANGED <<m_fibers, counters, control, idleTerm, wakes, dups, ended>>

\* The decrement after swapIn returns; the fiber's state is looked at after it.
SwappedOut(t) ==
  /\ Goto(t, "back", "handle")
  /\ m_activeThreadCount' = Decrement
  /\ UNCHANGED <<m_fibers, m_idleThreadCount, control, fibers, locals, wakes,
                 dups, history>>

HandleFiberKeepsFt(t) ==
  LET f == ft[t] IN
  /\ Goto(t, "handle", "scan")
  /\ f # None
  /\ m_fibers' = IF m_state[f] = "READY" THEN PushBack(f, AnyThread) ELSE m_fibers
  /\ m_state' = IF m_state[f] = "READY" \/ Dead(f) THEN m_state
                ELSE [m_state EXCEPT ![f] = "HOLD"]
  /\ UNCHANGED <<counters, control, m_cb, yields, locals, wakes, dups, history>>

\* Lines 206-212: a fiber taken from the queue comes back.
HandleFiber(t) ==
  LET f == ft[t] IN
  /\ Goto(t, "handle", "scan")
  /\ f # None
  /\ m_fibers' = IF m_state[f] = "READY" THEN PushBack(f, AnyThread) ELSE m_fibers
  /\ m_state' = IF m_state[f] = "READY" \/ Dead(f) THEN m_state
                ELSE [m_state EXCEPT ![f] = "HOLD"]
  /\ ft' = [ft EXCEPT ![t] = None]
  /\ UNCHANGED <<counters, control, m_cb, yields, cb_fiber, idleTerm, wakes,
                 dups, history>>

\* The runner keeps its callback fiber only when the fiber has finished.
KeepsReady(f) == Dead(f) \/ m_state[f] = "READY"
Keeps(f) == Dead(f)

\* Lines 225-234: the callback fiber comes back; a finished one is reset and kept.
HandleCb(t) ==
  LET f == cb_fiber[t] IN
  /\ Goto(t, "handle", "scan")
  /\ ft[t] = None
  /\ m_fibers' = IF m_state[f] = "READY" THEN PushBack(f, AnyThread) ELSE m_fibers
  /\ m_state' = IF m_state[f] = "READY" THEN m_state
                ELSE [m_state EXCEPT ![f] = IF Dead(f) THEN "INIT" ELSE "HOLD"]
  /\ m_cb' = IF Dead(f) THEN [m_cb EXCEPT ![f] = None] ELSE m_cb
  /\ cb_fiber' = IF Keeps(f) THEN cb_fiber ELSE [cb_fiber EXCEPT ![t] = None]
  /\ UNCHANGED <<counters, control, yields, ft, idleTerm, wakes, dups, history>>

\* Nothing to do: leave run() if the idle fiber has terminated, else enter it.
GoIdle(t) ==
  /\ \/ /\ Goto(t, "none", "exit") /\ idleTerm[t]
        /\ UNCHANGED m_idleThreadCount
     \/ /\ Goto(t, "none", "idle") /\ ~idleTerm[t]
        /\ m_idleThreadCount' = m_idleThreadCount + 1
  /\ UNCHANGED <<m_fibers, m_activeThreadCount, control, fibers, locals, wakes,
                 dups, history>>

-----------------------------------------------------------------------------
(***************************************************************************)
(* The idle fiber of runner t: Scheduler::idle, or IOManager::idle.        *)
(***************************************************************************)
\* The first half of stopping(): timers and pending events.
IdlePending(t) ==
  /\ IF PendingWakes THEN Goto(t, "idle", "wait") ELSE Goto(t, "idle", "check")
  /\ UNCHANGED <<m_fibers, counters, control, fibers, locals, wakes, dups,
                 history>>

\* The second half, under m_mutex.  The idle fiber terminates when it is TRUE.
IdleStopping(t) ==
  /\ IF BaseStopping
     THEN /\ Goto(t, "check", "scan")
          /\ idleTerm' = [idleTerm EXCEPT ![t] = TRUE]
          /\ m_idleThreadCount' = m_idleThreadCount - 1
     ELSE /\ Goto(t, "check", "wait")
          /\ UNCHANGED <<idleTerm, m_idleThreadCount>>
  /\ UNCHANGED <<m_fibers, m_activeThreadCount, control, fibers, ft, cb_fiber,
                 wakes, dups, history>>

\* epoll_wait comes back with nothing (or Scheduler::idle just yields).
IdleYield(t) ==
  /\ Goto(t, "wait", "scan")
  /\ m_idleThreadCount' = m_idleThreadCount - 1
  /\ UNCHANGED <<m_fibers, m_activeThreadCount, control, fibers, locals, wakes,
                 dups, history>>

\* listExpiredCb takes out the timer that holds fiber f ...
IdleCollect(t, f) ==
  /\ IO
  /\ Goto(t, "wait", "post")
  /\ f \in timers
  /\ timers' = timers \ {f}
  /\ fired' = [fired EXCEPT ![t] = f]
  /\ UNCHANGED <<m_fibers, counters, control, fibers, locals, events,
                 m_pendingEventCount, dups, history>>

\* ... and idle schedules its callback on any thread, then yields.
IdleSchedule(t) ==
  /\ Goto(t, "post", "scan")
  /\ m_fibers' = PushBack(Wake(fired[t]), AnyThread)
  /\ fired' = [fired EXCEPT ![t] = None]
  /\ m_idleThreadCount' = m_idleThreadCount - 1
  /\ UNCHANGED <<m_activeThreadCount, control, fibers, locals, timers, events,
                 m_pendingEventCount, dups, history>>

\* triggerEvent schedules the fiber the event holds ...
IdleTrigger(t, f) ==
  /\ IO
  /\ Goto(t, "wait", "trigger")
  /\ f \in events
  /\ events' = events \ {f}
  /\ m_fibers' = PushBack(f, AnyThread)
  /\ UNCHANGED <<counters, control, fibers, locals, timers, m_pendingEventCount,
                 fired, dups, history>>

\* ... before the event stops being counted as pending; then idle yields.
IdleTriggered(t) ==
  /\ Goto(t, "trigger", "scan")
  /\ m_pendingEventCount' = m_pendingEventCount - 1
  /\ m_idleThreadCount' = m_idleThreadCount - 1
  /\ UNCHANGED <<m_fibers, m_activeThreadCount, control, fibers, locals, timers,
                 events, fired, dups, history>>

-----------------------------------------------------------------------------
(***************************************************************************)
(* The fiber on runner t: application code and the calls it makes.         *)
(***************************************************************************)
\* The body that runs on t is the application's, not a timer's callback.
AppCode(t) == m_cb[Cur(t)] \notin WakeCbs

UserSchedule(t, c) ==
  /\ pc[t] = "user" /\ AppCode(t)
  /\ ~Submitted(c)
  /\ m_fibers' = PushBack(c, Pin[c])
  /\ UNCHANGED <<counters, control, fibers, pc, locals, wakes, dups, history>>

\* Fiber::YieldToReady, up to the context switch.
YieldToReady(t) ==
  /\ Goto(t, "user", "switch") /\ AppCode(t)
  /\ "ready" \in MaySwitch /\ yields[Cur(t)] < MaxYields
  /\ m_state' = [m_state EXCEPT ![Cur(t)] = "READY"]
  /\ yields' = [yields EXCEPT ![Cur(t)] = @ + 1]
  /\ UNCHANGED <<m_fibers, counters, control, m_cb, locals, wakes, dups, history>>

\* A hooked call hands the fiber to a timer (the sleep family) or to an event
\* (the read and write family) ...
UserArm(t) ==
  /\ Goto(t, "user", "armed") /\ AppCode(t)
  /\ yields[Cur(t)] < MaxYields
  /\ yields' = [yields EXCEPT ![Cur(t)] = @ + 1]
  /\ \/ /\ "sleep" \in MaySwitch
        /\ timers' = timers \cup {Cur(t)}
        /\ UNCHANGED <<events, m_pendingEventCount>>
     \/ /\ "event" \in MaySwitch
        /\ events' = events \cup {Cur(t)}
        /\ m_pendingEventCount' = m_pendingEventCount + 1
        /\ UNCHANGED timers
  /\ UNCHANGED <<m_fibers, counters, control, m_state, m_cb, locals, fired, dups,
                 history>>

\* ... and calls Fiber::YieldToHold, here up to the context switch.
YieldToHold(t) ==
  /\ Goto(t, "armed", "switch")
  /\ m_state' = [m_state EXCEPT ![Cur(t)] = "HOLD"]
  /\ UNCHANGED <<m_fibers, counters, control, m_cb, yields, locals, wakes, dups,
                 history>>

\* Fiber::MainFunc after the body: TERM when it returned, EXCEPT when it threw.
MainFuncEnd(t) ==
  /\ Goto(t, "user", "switch") /\ AppCode(t)
  /\ \/ /\ m_state' = [m_state EXCEPT ![Cur(t)] = "TERM"]
        /\ m_cb' = [m_cb EXCEPT ![Cur(t)] = None]
     \/ /\ m_state' = [m_state EXCEPT ![Cur(t)] = "EXCEPT"]
        /\ UNCHANGED m_cb
  /\ ended' = ended \cup {m_cb[Cur(t)]}
  /\ UNCHANGED <<m_fibers, counters, control, yields, locals, wakes, dups, starts>>

\* A timer's callback schedules the fiber it was made for, and returns.
RunWake(t, f) ==
  /\ Goto(t, "user", "switch")
  /\ m_cb[Cur(t)] = Wake(f)
  /\ m_fibers' = PushBack(f, AnyThread)
  /\ m_state' = [m_state EXCEPT ![Cur(t)] = "TERM"]
  /\ m_cb' = [m_cb EXCEPT ![Cur(t)] = None]
  /\ UNCHANGED <<counters, control, yields, locals, wakes, dups, history>>

\* Fiber::swapOut: the context is saved and the runner is back in run().
SwapOut(t) ==
  /\ Goto(t, "switch", "back")
  /\ UNCHANGED <<m_fibers, counters, control, fibers, locals, wakes, dups,
                 history>>

-----------------------------------------------------------------------------
Control == Start \/ StopAuto \/ StopFlag \/ StopTest \/ StopCall \/ StopJoin

Submit == (\E c \in Cbs : ScheduleCb(c)) \/ (\E f \in UserFibers : ScheduleFiber(f))

Loop(t) ==
  \/ Take(t) \/ TakeNothing(t) \/ DropDead(t) \/ SwapInFiber(t) \/ SwapInCb(t)
  \/ SwappedOut(t) \/ HandleFiber(t) \/ HandleCb(t) \/ GoIdle(t)

Idle(t) ==
  \/ IdlePending(t) \/ IdleStopping(t) \/ IdleYield(t) \/ IdleSchedule(t)
  \/ IdleTriggered(t) \/ \E f \in Fibers : IdleCollect(t, f) \/ IdleTrigger(t, f)

User(t) ==
  \/ YieldToReady(t) \/ UserArm(t) \/ YieldToHold(t) \/ MainFuncEnd(t) \/ SwapOut(t)
  \/ (\E c \in Cbs : UserSchedule(t, c)) \/ (\E f \in Fibers : RunWake(t, f))

\* stop() has returned: the process goes on without the scheduler.
Done == main = "done" /\ UNCHANGED vars

Next ==
  \/ Control \/ Submit \/ Done
  \/ \E t \in Runners : Loop(t) \/ Idle(t) \/ User(t)

\* Every thread keeps running, application code keeps getting to its next call
\* or its end, and a timer or event that holds a fiber is reported by one of the
\* epoll_wait calls the idle fibers keep making.
Fairness ==
  /\ WF_vars(Control)
  /\ \A t \in Runners : WF_vars(Loop(t) \/ Idle(t) \/ User(t))
  /\ \A f \in Fibers :
       SF_vars(\E t \in Runners : IdleCollect(t, f) \/ IdleTrigger(t, f))

Spec == Init /\ [][Next]_vars

FairSpec == Spec /\ Fairness

-----------------------------------------------------------------------------
(***************************************************************************)
(* Properties.                                                             *)
(***************************************************************************)
FlagsType ==
  m_stopping \in BOOLEAN /\ m_autoStop \in BOOLEAN /\ idleTerm \in [Runners -> BOOLEAN]

DataType ==
  /\ m_fibers \in Seq(Entry)
  /\ m_activeThreadCount \in Int /\ m_idleThreadCount \in Int
  /\ m_state \in [Fibers -> State]
  /\ m_cb \in [Fibers -> Items \cup {None}]
  /\ pc \in [Runners -> RunnerPc]
  /\ ft \in [Runners -> Items \cup {None}]
  /\ cb_fiber \in [Runners -> Fibers \cup {None}]
  /\ timers \subseteq Fibers /\ events \subseteq Fibers
  /\ m_pendingEventCount \in Int
  /\ fired \in [Runners -> Fibers \cup {None}]
  /\ main \in {"ready", "started", "auto", "test", "call", "join", "done"}
  /\ yields \in [Fibers -> 0 .. MaxYields]
  /\ dups \in [UserFibers -> 0 .. MaxDup]
  /\ starts \in [Cbs -> Nat]
  /\ ended \subseteq Items \cup {None}

RunnerRefs ==
  \A t \in Runners :
    /\ pc[t] = "got" => ft[t] # None
    /\ OnStack(t) \/ pc[t] \in {"back", "handle"} => Cur(t) \in Fibers
    /\ pc[t] = "post" => fired[t] # None
    /\ ~(Busy(t) \/ pc[t] = "handle") => ft[t] = None

\* Every variable keeps its type, and a runner that holds an entry, is on a
\* fiber or is about to look at the one that came back knows which: run() and
\* the idle fiber never use a null ft, cb_fiber or wake-up.
TypeOK == FlagsType /\ DataType /\ RunnerRefs

\* m_activeThreadCount and m_idleThreadCount, which stopping() and tickle()
\* trust, are exactly the number of runners that hold an entry and the number
\* that are inside their idle fiber, whatever way an entry is disposed of.
CountsExact ==
  /\ m_activeThreadCount = Cardinality({t \in Runners : pc[t] \in BusyPc})
  /\ m_idleThreadCount = Cardinality({t \in Runners : pc[t] \in IdlePc})

\* No two runners are on the stack of one fiber: swapIn never enters a fiber
\* whose context another thread has not finished saving in swapOut.
OneRunner ==
  \A t, u \in Runners :
    t # u /\ OnStack(t) /\ OnStack(u) => Cur(t) # Cur(u)

\* A fiber that runs application code is in state EXEC, as addEvent asserts of
\* the fiber it is called from.
ExecWhileRunning ==
  \A t \in Runners : pc[t] = "user" => m_state[Cur(t)] = "EXEC"

\* A fiber that has started and not ended is never forgotten: a runner is on it
\* or still handling it, the queue holds it, or a wake-up does.  A fiber outside
\* all of these could never run again, and its stack would never be freed.
NoLostFiber ==
  \A f \in Fibers :
    m_state[f] \in {"EXEC", "HOLD", "READY"} =>
      \/ f \in timers \cup events \/ Queued(f) \/ Queued(Wake(f))
      \/ \E t \in Runners :
           \/ fired[t] = f \/ ft[t] = Wake(f) \/ Cur(t) = f
           \/ Cur(t) \in Fibers /\ m_cb[Cur(t)] = Wake(f)

\* stop() returns only after every submitted callback was entered exactly once
\* and ran to its end or to a wait: no runner takes the momentary zero of
\* m_activeThreadCount, just before a READY fiber is queued again, for the end
\* of the work.  What may be left in the queue is bound to a thread: that thread
\* can have left run() at such a moment, and a fiber that another runner finishes
\* before it leaves too may then schedule an entry that nobody takes.
AllDone ==
  main = "done" =>
    /\ \A i \in DOMAIN m_fibers : m_fibers[i].thread # AnyThread
    /\ \A c \in Cbs :
         /\ starts[c] <= 1
         /\ starts[c] = 1 => c \in ended \/ \E f \in timers \cup events : m_cb[f] = c
    /\ \A f \in UserFibers :
         dups[f] > 0 => f \in ended \cup timers \cup events \/ Queued(f)

\* stop() returns only after every timer and event that holds a fiber was served
\* ("stopping() ... also depends on the number of pending events", iomanager.h).
NoWaitLeft == main = "done" => timers = {} /\ events = {}

\* A call of stop() eventually returns: every runner finds its way out of run(),
\* although each decides on its own, at its own time, that nothing is left.  The
\* exception is an entry bound to a thread that has left run() already, when
\* m_activeThreadCount was zero for a moment while a READY fiber was about to be
\* queued again and to schedule it: no other runner may take it.
Orphaned == \E i \in DOMAIN m_fibers : \E t \in Runners : m_fibers[i].thread = t /\ pc[t] = "exit"
StopTerminates == main = "auto" ~> (main = "done" \/ Orphaned)
=============================================================================
