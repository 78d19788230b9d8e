---------------------------- MODULE TimerManager ----------------------------
(***************************************************************************)
(* The timers of timer.{h,cpp} and the workers that wait for them: the     *)
(* part of IOManager::idle that computes a timeout, sleeps in epoll_wait   *)
(* and collects what has expired, with the tickle pipe that ends a sleep   *)
(* early when a timer is inserted before all others.                       *)
(*                                                                         *)
(* A timer is named by its address, which also orders timers of equal      *)
(* m_next.  Time is the value of GetCurrentMS.  Each critical section of   *)
(* m_mutex is a step; what a caller does after its unlock is another.      *)
(* epoll_wait's timeout is counted from the reading of the clock in        *)
(* getNextTimer, and no signal interrupts it.                              *)
(* A recurring timer stays; what becomes of a callback once it was handed  *)
(* to the scheduler is the business of Scheduler.                          *)
(*                                                                         *)
(* Definitions that come in pairs, one of them unused, show what a bug in  *)
(* the code would look like, as in Scheduler.                              *)
(***************************************************************************)
EXTENDS Integers, FiniteSets

CONSTANTS
  Timers,      \* addresses of Timer objects
  Recurring,   \* the timers created with recurring = true
  Periods,     \* values of ms
  Workers,     \* threads that run IOManager::idle
  MAX_TIMEOUT, \* the longest sleep in epoll_wait
  MaxTime      \* bound: the clock

ASSUME TimerAssumption ==
  /\ Timers \subseteq Nat
  /\ Recurring \subseteq Timers
  /\ Periods \subseteq Nat
  /\ Workers # {}
  /\ MAX_TIMEOUT \in Nat
  /\ MaxTime \in Nat

VARIABLES
  now,        \* the clock
  fresh,      \* timers constructed but not yet inserted
  created,    \* timers that exist
  m_timers,   \* the set
  m_next,     \* per timer
  m_ms,       \* per timer
  m_cb,       \* timers whose m_cb is not null
  m_tickled,
  announcing, \* timers whose inserter has yet to call onTimerInsertedAtFront
  pipe,       \* the tickle pipe holds a byte
  edge,       \* ... and epoll has not reported it yet
  wpc,        \* per worker: where it is
  deadline,   \* per worker: when its epoll_wait times out
  now_ms,     \* per worker: the time read by listExpiredCb
  handed,     \* history: timers whose callback was handed to the scheduler
  cancelled   \* history: timers whose cancel() returned true

timerVars == <<fresh, created, m_timers, m_next, m_ms, m_cb>>
tickleVars == <<m_tickled, announcing, pipe, edge>>
workerVars == <<wpc, deadline, now_ms>>
history == <<handed, cancelled>>
vars == <<now, timerVars, tickleVars, workerVars, history>>

\* Outside the idle fiber, or where in IOManager::idle.
WorkerPc == {"busy", "idle", "sleep", "collect", "collectTickled", "drain"}

Init ==
  /\ now = 0
  /\ fresh = {} /\ created = {} /\ m_timers = {} /\ m_cb = {}
  /\ m_next = [t \in Timers |-> 0] /\ m_ms = [t \in Timers |-> 0]
  /\ m_tickled = FALSE /\ announcing = {} /\ pipe = FALSE /\ edge = FALSE
  /\ wpc = [w \in Workers |-> "busy"]
  /\ deadline = [w \in Workers |-> 0] /\ now_ms = [w \in Workers |-> 0]
  /\ handed = {} /\ cancelled = {}

-----------------------------------------------------------------------------
\* Timer::Comparator on m_next values given by next.
Before(next, t, u) == next[t] < next[u] \/ (next[t] = next[u] /\ t < u)

AtFrontTicklesNever(t) == FALSE

\* t is *m_timers.begin().
IsFront(t) == t \in m_timers /\ \A u \in m_timers \ {t} : Before(m_next, t, u)

\* Whether the insertion of t, with m_next and m_timers already updated, has to
\* be announced.
AtFront(t) ==
  ~m_tickled /\ \A u \in m_timers' \ {t} : Before(m_next', t, u)

\* TimerManager::addTimer(val, lock): the insertion of t at time next, and its
\* announcement once the lock is released.
Insert(t, next) ==
  /\ m_timers' = m_timers \cup {t}
  /\ m_next' = [m_next EXCEPT ![t] = next]
  /\ m_tickled' = (m_tickled \/ AtFront(t))
  /\ announcing' = IF AtFront(t) THEN announcing \cup {t} ELSE announcing
  /\ UNCHANGED <<pipe, edge>>

HasIdleThreads == \E w \in Workers : wpc[w] # "busy"

-----------------------------------------------------------------------------
(***************************************************************************)
(* What the application calls.                                             *)
(***************************************************************************)
\* addTimer constructs the timer, which reads the clock, before it has the lock.
NewTimer(t, ms) ==
  /\ t \notin created
  /\ created' = created \cup {t}
  /\ fresh' = fresh \cup {t}
  /\ m_ms' = [m_ms EXCEPT ![t] = ms]
  /\ m_next' = [m_next EXCEPT ![t] = now + ms]
  /\ m_cb' = m_cb \cup {t}
  /\ UNCHANGED <<now, m_timers, tickleVars, workerVars, history>>

AddTimer(t) ==
  /\ t \in fresh
  /\ fresh' = fresh \ {t}
  /\ Insert(t, m_next[t])
  /\ UNCHANGED <<now, created, m_ms, m_cb, workerVars, history>>

\* onTimerInsertedAtFront: IOManager::tickle writes a byte if a worker is idle.
OnTimerInsertedAtFront(t) ==
  /\ t \in announcing
  /\ announcing' = announcing \ {t}
  /\ pipe' = (pipe \/ HasIdleThreads)
  /\ edge' = (edge \/ HasIdleThreads)
  /\ UNCHANGED <<now, timerVars, m_tickled, workerVars, history>>

\* schedule() calls tickle() as well.
Tickle ==
  /\ HasIdleThreads
  /\ pipe' = TRUE /\ edge' = TRUE
  /\ UNCHANGED <<now, timerVars, m_tickled, announcing, workerVars, history>>

\* The caller has the pointer once addTimer returned.  cancel() erases what find() returns without comparing it with end().
Cancel(t) ==
  /\ t \in m_cb \ fresh
  /\ m_cb' = m_cb \ {t}
  /\ m_timers' = m_timers \ {t}
  /\ cancelled' = cancelled \cup {t}
  /\ UNCHANGED <<now, fresh, created, m_next, m_ms, tickleVars, workerVars, handed>>

Refresh(t) ==
  /\ t \in m_cb /\ t \in m_timers
  /\ m_next' = [m_next EXCEPT ![t] = now + m_ms[t]]
  /\ UNCHANGED <<now, fresh, created, m_timers, m_ms, m_cb, tickleVars, workerVars,
                 history>>

ResetStart(t, from_now) == IF from_now THEN now ELSE m_next[t] - m_ms[t]

\* An unchanged ms without from_now returns early, but that test comes before the
\* lock: by the time it is held, another reset may have set m_ms to the same ms.
Reset(t, ms, from_now) ==
  /\ t \in m_cb /\ t \in m_timers
  /\ m_ms' = [m_ms EXCEPT ![t] = ms]
  /\ Insert(t, ResetStart(t, from_now) + ms)
  /\ UNCHANGED <<now, fresh, created, m_cb, workerVars, history>>

-----------------------------------------------------------------------------
(***************************************************************************)
(* A worker w in IOManager::idle.                                          *)
(***************************************************************************)
Goto(w, from, to) == wpc[w] = from /\ wpc' = [wpc EXCEPT ![w] = to]

\* run() finds nothing to do and enters the idle fiber.
EnterIdle(w) ==
  /\ Goto(w, "busy", "idle")
  /\ UNCHANGED <<now, timerVars, tickleVars, deadline, now_ms, history>>

Minimum(a, b) == IF a < b THEN a ELSE b

\* The time until which epoll_wait sleeps when t is the first timer.
SleepMax(t) == now + MAX_TIMEOUT
SleepUncapped(t) == IF now >= m_next[t] THEN now ELSE m_next[t]
SleepUntil(t) ==
  Minimum(now + MAX_TIMEOUT, IF now >= m_next[t] THEN now ELSE m_next[t])

\* getNextTimer, which allows the next announcement, and epoll_wait.
GetNextTimer(w) ==
  /\ Goto(w, "idle", "sleep")
  /\ m_tickled' = FALSE
  /\ \/ /\ m_timers = {}
        /\ deadline' = [deadline EXCEPT ![w] = now + MAX_TIMEOUT]
     \/ \E t \in m_timers :
          IsFront(t) /\ deadline' = [deadline EXCEPT ![w] = SleepUntil(t)]
  /\ UNCHANGED <<now, timerVars, announcing, pipe, edge, now_ms, history>>

\* epoll_wait returns with a timeout, or with the edge of the pipe; then
\* listExpiredCb reads the clock before it takes the lock.
WakeTimeout(w) ==
  /\ Goto(w, "sleep", "collect")
  /\ now >= deadline[w]
  /\ deadline' = [deadline EXCEPT ![w] = 0]
  /\ now_ms' = [now_ms EXCEPT ![w] = now]
  /\ UNCHANGED <<now, timerVars, tickleVars, history>>

WakeTickle(w) ==
  /\ Goto(w, "sleep", "collectTickled")
  /\ pipe /\ edge
  /\ edge' = FALSE
  /\ deadline' = [deadline EXCEPT ![w] = 0]
  /\ now_ms' = [now_ms EXCEPT ![w] = now]
  /\ UNCHANGED <<now, timerVars, m_tickled, announcing, pipe, history>>


\* lower_bound(now_ms), moved past the timers of exactly that time.
Expired(w) == {t \in m_timers : m_next[t] <= now_ms[w]}

CbKept(w) == m_cb
CbAfter(w) == m_cb \ (Expired(w) \ Recurring)

\* The rest of listExpiredCb; what it returns is scheduled in one batch, then the
\* pipe is drained if it woke the worker, and the idle fiber yields.  That it
\* returns early when it first sees an empty set is the case of nothing expired.
ListExpiredCb(w) ==
  /\ wpc[w] \in {"collect", "collectTickled"}
  /\ wpc' = [wpc EXCEPT ![w] = IF @ = "collect" THEN "busy" ELSE "drain"]
  /\ m_timers' = m_timers \ (Expired(w) \ Recurring)
  /\ m_next' = [t \in Timers |-> IF t \in Expired(w) \cap Recurring
                                 THEN now_ms[w] + m_ms[t] ELSE m_next[t]]
  /\ m_cb' = CbAfter(w)
  /\ handed' = handed \cup Expired(w)
  /\ now_ms' = [now_ms EXCEPT ![w] = 0]
  /\ UNCHANGED <<now, fresh, created, m_ms, tickleVars, deadline, cancelled>>

Drain(w) ==
  /\ Goto(w, "drain", "busy")
  /\ pipe' = FALSE
  /\ UNCHANGED <<now, timerVars, m_tickled, announcing, edge, deadline, now_ms,
                 history>>

-----------------------------------------------------------------------------
Tick ==
  /\ now < MaxTime
  /\ now' = now + 1
  /\ UNCHANGED <<timerVars, tickleVars, workerVars, history>>

\* The end of the modelled time.
Horizon == now = MaxTime /\ UNCHANGED vars

Caller ==
  \/ Tickle
  \/ \E t \in Timers :
       \/ AddTimer(t) \/ OnTimerInsertedAtFront(t) \/ Cancel(t) \/ Refresh(t)
       \/ \E ms \in Periods :
            NewTimer(t, ms) \/ \E from_now \in BOOLEAN : Reset(t, ms, from_now)

Worker(w) ==
  \/ EnterIdle(w) \/ GetNextTimer(w) \/ WakeTimeout(w) \/ WakeTickle(w)
  \/ ListExpiredCb(w) \/ Drain(w)

Next == Tick \/ Horizon \/ Caller \/ \E w \in Workers : Worker(w)

Spec == Init /\ [][Next]_vars

-----------------------------------------------------------------------------
(***************************************************************************)
(* Properties.                                                             *)
(***************************************************************************)
\* Every variable keeps its type: no unsigned time wraps below zero, and no sleep
\* is longer than MAX_TIMEOUT.
TypeOK ==
  /\ now \in Nat
  /\ fresh \subseteq created /\ created \subseteq Timers
  /\ m_timers \subseteq Timers /\ m_cb \subseteq Timers
  /\ m_next \in [Timers -> Nat] /\ m_ms \in [Timers -> Nat]
  /\ m_tickled \in BOOLEAN /\ announcing \subseteq Timers
  /\ pipe \in BOOLEAN /\ edge \in BOOLEAN
  /\ wpc \in [Workers -> WorkerPc]
  /\ deadline \in [Workers -> 0 .. (now + MAX_TIMEOUT)] /\ now_ms \in [Workers -> Nat]
  /\ handed \subseteq Timers /\ cancelled \subseteq Timers

\* Once inserted, a timer is in m_timers exactly while its m_cb is set: the
\* erase() in cancel(), which does not compare find() with end(), always has
\* something to erase, and no null callback is ever handed to the scheduler.
CbInSet == m_cb = m_timers \cup fresh

\* A one-shot timer is handed to the scheduler or cancelled, never both, and
\* either way it is out of the set for good, whatever was refreshed, reset or
\* collected by another worker in between.  So a fiber that waits is woken by its
\* timer or by who cancelled it, not by both.
CancelExcludesFiring ==
  /\ (handed \ Recurring) \cap cancelled = {}
  /\ ((handed \ Recurring) \cup cancelled) \cap (m_timers \cup fresh) = {}

\* When every worker sleeps, one of them wakes up by the time the first timer is
\* due, or a tickle is on its way: the check of m_tickled never swallows the only
\* announcement that mattered.
OnTime ==
  (\A w \in Workers : wpc[w] = "sleep") =>
    \A t \in m_timers :
      \/ \E w \in Workers : deadline[w] <= m_next[t] \/ deadline[w] <= now
      \/ pipe /\ edge
      \/ announcing # {}
=============================================================================
