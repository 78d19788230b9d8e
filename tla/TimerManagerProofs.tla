------------------------- MODULE TimerManagerProofs -------------------------
(***************************************************************************)
(* What holds of TimerManager for any set of timers, periods and workers.  *)
(*                                                                         *)
(* Three facts strengthen the properties to an inductive invariant: the    *)
(* times of a timer stay within a period of the clock (Clock), a timer     *)
(* that was inserted, handed over or cancelled exists (Life), and while    *)
(* all workers sleep a set m_tickled means that a tickle is under way      *)
(* (TickleUnderWay).                                                       *)
(***************************************************************************)
EXTENDS TimerManager, TLAPS

Clock ==
  /\ \A t \in Timers : m_ms[t] <= m_next[t] /\ m_next[t] <= now + m_ms[t]
  /\ \A w \in Workers : now_ms[w] <= now

Life ==
  /\ fresh \cap m_timers = {}
  /\ m_timers \subseteq created
  /\ handed \subseteq created
  /\ cancelled \subseteq created

AllSleep == \A w \in Workers : wpc[w] = "sleep"

TickleUnderWay ==
  AllSleep /\ m_tickled => announcing # {} \/ (pipe /\ edge)

-----------------------------------------------------------------------------
\* The initial state.
LEMMA TimerInit == Init => TypeOK /\ Clock /\ Life /\ CbInSet /\ CancelExcludesFiring
                           /\ TickleUnderWay /\ OnTime
  <1>1. Init => TypeOK
    <2> SUFFICES ASSUME Init PROVE TypeOK OBVIOUS
    <2>1. /\ m_tickled \in BOOLEAN /\ pipe \in BOOLEAN /\ edge \in BOOLEAN
          /\ wpc \in [Workers -> WorkerPc]
      BY DEF Init, WorkerPc
    <2>2. deadline \in [Workers -> 0 .. (now + MAX_TIMEOUT)]
      BY TimerAssumption DEF TimerAssumption, Init
    <2> QED BY <2>1, <2>2 DEF Init, TypeOK
  <1>1a. Init => Clock
    BY DEF Init, Clock
  <1>2. Init => Life /\ CbInSet /\ CancelExcludesFiring
    BY DEF Init, Life, CbInSet, CancelExcludesFiring
  <1>3. Init => TickleUnderWay /\ OnTime
    BY DEF Init, TickleUnderWay, OnTime
  <1> QED BY <1>1, <1>1a, <1>2, <1>3

\* Types and the relation of the timers' times to the clock: the unsigned
\* subtraction in Timer::reset never goes below zero.
LEMMA TimerTypeStep == TypeOK /\ Clock /\ [Next]_vars => TypeOK' /\ Clock'
  <1> SUFFICES ASSUME TypeOK, Clock, [Next]_vars PROVE TypeOK' /\ Clock'
    OBVIOUS
  <1> USE TimerAssumption DEF TimerAssumption, TypeOK, Clock, timerVars, tickleVars,
          workerVars, history, WorkerPc
  <1>1. CASE Tick BY <1>1 DEF Tick
  <1>2. CASE Tickle BY <1>2 DEF Tickle
  <1>3. ASSUME NEW t \in Timers, AddTimer(t) PROVE TypeOK' /\ Clock'
    BY <1>3 DEF AddTimer, Insert
  <1>4. ASSUME NEW t \in Timers, OnTimerInsertedAtFront(t) PROVE TypeOK' /\ Clock'
    BY <1>4 DEF OnTimerInsertedAtFront, HasIdleThreads
  <1>5. ASSUME NEW t \in Timers, Cancel(t) PROVE TypeOK' /\ Clock'
    BY <1>5 DEF Cancel
  <1>6. ASSUME NEW t \in Timers, Refresh(t) PROVE TypeOK' /\ Clock'
    BY <1>6 DEF Refresh
  <1>7. ASSUME NEW t \in Timers, NEW ms \in Periods, NewTimer(t, ms)
        PROVE TypeOK' /\ Clock'
    BY <1>7 DEF NewTimer
  <1>8. ASSUME NEW t \in Timers, NEW ms \in Periods, NEW from_now \in BOOLEAN,
               Reset(t, ms, from_now)
        PROVE TypeOK' /\ Clock'
    BY <1>8 DEF Reset, ResetStart, Insert
  <1>9. ASSUME NEW w \in Workers, EnterIdle(w) \/ Drain(w) PROVE TypeOK' /\ Clock'
    BY <1>9 DEF EnterIdle, Drain, Goto
  <1>10. ASSUME NEW w \in Workers, GetNextTimer(w) PROVE TypeOK' /\ Clock'
    <2>1. CASE m_timers = {} /\ deadline' = [deadline EXCEPT ![w] = now + MAX_TIMEOUT]
      <3>1. wpc' \in [Workers -> WorkerPc]
        BY <1>10 DEF GetNextTimer, Goto
      <3>2. deadline' \in [Workers -> 0 .. (now' + MAX_TIMEOUT)]
        BY <1>10, <2>1 DEF GetNextTimer
      <3> QED BY <1>10, <3>1, <3>2 DEF GetNextTimer
    <2>2. ASSUME NEW t \in m_timers, deadline' = [deadline EXCEPT ![w] = SleepUntil(t)]
          PROVE  TypeOK' /\ Clock'
      <3>1. SleepUntil(t) \in 0 .. (now + MAX_TIMEOUT)
        BY DEF SleepUntil, Minimum
      <3> QED BY <1>10, <2>2, <3>1 DEF GetNextTimer, Goto
    <2> QED BY <1>10, <2>1, <2>2 DEF GetNextTimer
  <1>11. ASSUME NEW w \in Workers, WakeTimeout(w) PROVE TypeOK' /\ Clock'
    BY <1>11 DEF WakeTimeout, Goto
  <1>12. ASSUME NEW w \in Workers, WakeTickle(w) PROVE TypeOK' /\ Clock'
    <2>1. /\ wpc' \in [Workers -> WorkerPc]
          /\ deadline' \in [Workers -> 0 .. (now' + MAX_TIMEOUT)]
          /\ now_ms' \in [Workers -> Nat]
      BY <1>12 DEF WakeTickle, Goto
    <2>2. Clock' BY <1>12 DEF WakeTickle
    <2> QED BY <1>12, <2>1, <2>2 DEF WakeTickle
  <1>13. ASSUME NEW w \in Workers, ListExpiredCb(w) PROVE TypeOK' /\ Clock'
    <2>1. /\ wpc' \in [Workers -> WorkerPc]
          /\ m_timers' \subseteq Timers /\ m_cb' \subseteq Timers
          /\ handed' \subseteq Timers
      BY <1>13 DEF ListExpiredCb, Expired, CbAfter
    <2>2. m_next' \in [Timers -> Nat] /\ now_ms' \in [Workers -> Nat]
      BY <1>13 DEF ListExpiredCb
    <2>3. Clock'
      BY <1>13 DEF ListExpiredCb
    <2> QED BY <1>13, <2>1, <2>2, <2>3 DEF ListExpiredCb
  <1>14. CASE UNCHANGED vars BY <1>14 DEF vars
  <1> QED
    BY <1>1, <1>2, <1>3, <1>4, <1>5, <1>6, <1>7, <1>8, <1>9, <1>10, <1>11, <1>12,
       <1>13, <1>14 DEF Next, Horizon, Caller, Worker

\* A timer that is inserted, handed over or cancelled was constructed before, its
\* m_cb is set exactly while it is in the set, and it is handed over or cancelled,
\* not both.
LEMMA LifeStep ==
  TypeOK /\ Life /\ CbInSet /\ CancelExcludesFiring /\ [Next]_vars
    => Life' /\ CbInSet' /\ CancelExcludesFiring'
  <1> DEFINE I == Life /\ CbInSet /\ CancelExcludesFiring
  <1> SUFFICES ASSUME TypeOK, I, [Next]_vars PROVE I'
    OBVIOUS
  <1> USE DEF I, Life, CbInSet, CancelExcludesFiring, timerVars, tickleVars,
          workerVars, history
  <1>1. ASSUME NEW t \in Timers, NEW ms \in Periods, NewTimer(t, ms) PROVE I'
    BY <1>1 DEF NewTimer, TypeOK
  <1>2. ASSUME NEW t \in Timers, AddTimer(t) PROVE I'
    BY <1>2 DEF AddTimer, Insert, TypeOK
  <1>3. ASSUME NEW t \in Timers, Cancel(t) PROVE I'
    BY <1>3 DEF Cancel, TypeOK
  <1>4. ASSUME NEW t \in Timers, Refresh(t) \/ OnTimerInsertedAtFront(t) PROVE I'
    BY <1>4 DEF Refresh, OnTimerInsertedAtFront
  <1>5. ASSUME NEW t \in Timers, NEW ms \in Periods, NEW from_now \in BOOLEAN,
               Reset(t, ms, from_now)
        PROVE I'
    BY <1>5 DEF Reset, Insert
  <1>6. CASE Tick \/ Tickle \/ UNCHANGED vars
    BY <1>6 DEF Tick, Tickle, vars
  <1>7. ASSUME NEW w \in Workers,
               EnterIdle(w) \/ GetNextTimer(w) \/ WakeTimeout(w) \/ WakeTickle(w)
                 \/ Drain(w)
        PROVE I'
    BY <1>7 DEF EnterIdle, GetNextTimer, WakeTimeout, WakeTickle, Drain
  <1>8. ASSUME NEW w \in Workers, ListExpiredCb(w) PROVE I'
    <2>1. Expired(w) \subseteq m_timers
      BY DEF Expired
    <2> QED BY <1>8, <2>1 DEF ListExpiredCb, CbAfter
  <1> QED
    BY <1>1, <1>2, <1>3, <1>4, <1>5, <1>6, <1>7, <1>8
    DEF Next, Horizon, Caller, Worker

\* While all workers sleep, a set m_tickled was set after the last of them went to
\* sleep, and its announcement is still to come or is in the pipe.
LEMMA TickleStep ==
  TypeOK /\ TickleUnderWay /\ [Next]_vars => TickleUnderWay'
  <1> SUFFICES ASSUME TypeOK, TickleUnderWay, [Next]_vars, AllSleep', m_tickled'
               PROVE  announcing' # {} \/ (pipe' /\ edge')
    BY DEF TickleUnderWay
  <1> USE DEF timerVars, tickleVars, workerVars, history
  <1>1. CASE Tick \/ UNCHANGED vars
    BY <1>1 DEF Tick, vars, TickleUnderWay, AllSleep
  <1>2. CASE Tickle
    BY <1>2 DEF Tickle
  <1>3. ASSUME NEW t \in Timers, AddTimer(t)
        PROVE  announcing' # {} \/ (pipe' /\ edge')
    BY <1>3 DEF AddTimer, Insert, TickleUnderWay, AllSleep
  <1>4. ASSUME NEW t \in Timers, OnTimerInsertedAtFront(t)
        PROVE  announcing' # {} \/ (pipe' /\ edge')
    <2>1. HasIdleThreads
      BY <1>4, TimerAssumption
      DEF TimerAssumption, OnTimerInsertedAtFront, HasIdleThreads, AllSleep
    <2> QED BY <1>4, <2>1 DEF OnTimerInsertedAtFront
  <1>5. ASSUME NEW t \in Timers,
               Cancel(t) \/ Refresh(t) \/ \E ms \in Periods : NewTimer(t, ms)
        PROVE  announcing' # {} \/ (pipe' /\ edge')
    BY <1>5 DEF Cancel, Refresh, NewTimer, TickleUnderWay, AllSleep
  <1>6. ASSUME NEW t \in Timers, NEW ms \in Periods, NEW from_now \in BOOLEAN,
               Reset(t, ms, from_now)
        PROVE  announcing' # {} \/ (pipe' /\ edge')
    BY <1>6 DEF Reset, Insert, TickleUnderWay, AllSleep
  <1>7. ASSUME NEW w \in Workers, GetNextTimer(w)
        PROVE  announcing' # {} \/ (pipe' /\ edge')
    BY <1>7 DEF GetNextTimer
  <1>8. ASSUME NEW w \in Workers,
               EnterIdle(w) \/ WakeTimeout(w) \/ WakeTickle(w) \/ Drain(w)
                 \/ ListExpiredCb(w)
        PROVE  FALSE
    <2>1. wpc' \in [Workers -> WorkerPc] /\ wpc'[w] # "sleep"
      BY <1>8
      DEF TypeOK, WorkerPc, EnterIdle, WakeTimeout, WakeTickle, Drain, ListExpiredCb, Goto
    <2> QED BY <2>1 DEF AllSleep
  <1> QED
    BY <1>1, <1>2, <1>3, <1>4, <1>5, <1>6, <1>7, <1>8
    DEF Next, Horizon, Caller, Worker

\* What OnTime asks for a timer whose m_next is n.
Covered(n) ==
  \/ \E w \in Workers : deadline[w] <= n \/ deadline[w] <= now
  \/ pipe /\ edge
  \/ announcing # {}

\* An insertion while all workers sleep is announced, or an announcement is under
\* way, or some timer that was covered is before the inserted one.
LEMMA InsertOnTime ==
  ASSUME NEW t \in Timers, NEW next \in Nat, TypeOK, TypeOK', TickleUnderWay, OnTime,
         AllSleep, Insert(t, next), UNCHANGED <<now, deadline>>
  PROVE  \A u \in m_timers' : Covered(m_next[u])'
  <1> USE DEF Insert
  <1>0. /\ m_next \in [Timers -> Nat] /\ m_timers \subseteq Timers
        /\ \A w \in Workers : deadline[w] \in Int
        /\ now \in Nat
    BY TimerAssumption DEF TimerAssumption, TypeOK
  <1>1. \A u \in m_timers : Covered(m_next[u])
    BY DEF OnTime, Covered, AllSleep
  <1>2. CASE m_tickled
    BY <1>2 DEF TickleUnderWay, Covered
  <1>3. CASE ~m_tickled /\ AtFront(t)
    BY <1>3 DEF Covered
  <1>4. CASE ~m_tickled /\ ~AtFront(t)
    <2>1. PICK u \in m_timers \ {t} : ~Before(m_next', t, u)
      BY <1>4 DEF AtFront
    <2>2. m_next[u] <= m_next'[t] /\ m_next'[t] \in Nat
      BY <1>0, <2>1 DEF Before
    <2>3. Covered(m_next[u]) BY <1>1, <2>1
    <2>4. Covered(m_next[t])'
      BY <1>0, <2>1, <2>2, <2>3, <1>4 DEF Covered
    <2>5. ASSUME NEW v \in m_timers \ {t} PROVE Covered(m_next[v])'
      <3>1. m_next'[v] = m_next[v] BY <1>0
      <3>2. Covered(m_next[v]) BY <1>1
      <3> QED BY <1>4, <3>1, <3>2 DEF Covered
    <2> QED BY <2>4, <2>5
  <1> QED BY <1>2, <1>3, <1>4

\* OnTime is kept by every step: a worker that goes to sleep has looked at the
\* first timer, and a later insertion before it is announced.
LEMMA OnTimeStep ==
  TypeOK /\ TypeOK' /\ Clock /\ Life /\ TickleUnderWay /\ OnTime /\ [Next]_vars
    => OnTime'
  <1> SUFFICES ASSUME TypeOK, TypeOK', Clock, Life, TickleUnderWay, OnTime, [Next]_vars,
                      AllSleep'
               PROVE  \A t \in m_timers' : Covered(m_next[t])'
    BY DEF OnTime, Covered, AllSleep
  <1> DEFINE C == \A t \in m_timers' : Covered(m_next[t])'
  <1> USE DEF timerVars, tickleVars, workerVars, history
  <1>0. /\ m_next \in [Timers -> Nat] /\ m_next' \in [Timers -> Nat]
        /\ m_timers \subseteq Timers /\ m_timers' \subseteq Timers
        /\ m_ms \in [Timers -> Nat] /\ now \in Nat /\ now' \in Nat
        /\ \A w \in Workers : deadline[w] \in Int /\ deadline'[w] \in Int
    BY TimerAssumption DEF TimerAssumption, TypeOK
  <1>a. AllSleep => \A u \in m_timers : Covered(m_next[u])
    BY DEF OnTime, Covered, AllSleep
  <1>1. CASE Tick
    BY <1>0, <1>1, <1>a DEF Tick, Covered, AllSleep
  <1>2. CASE Tickle
    BY <1>2 DEF Tickle, Covered
  <1>3. CASE UNCHANGED vars
    BY <1>3, <1>a DEF vars, Covered, AllSleep
  <1>4. ASSUME NEW t \in Timers, AddTimer(t) PROVE C
    <2>1. AllSleep /\ Insert(t, m_next[t]) /\ UNCHANGED <<now, deadline>>
      BY <1>4 DEF AddTimer, AllSleep
    <2>2. m_next[t] \in Nat BY <1>0
    <2> QED BY <2>1, <2>2, InsertOnTime
  <1>5. ASSUME NEW t \in Timers, OnTimerInsertedAtFront(t) PROVE C
    <2>1. HasIdleThreads
      BY <1>5, TimerAssumption
      DEF TimerAssumption, OnTimerInsertedAtFront, HasIdleThreads, AllSleep
    <2> QED BY <1>5, <2>1 DEF OnTimerInsertedAtFront, Covered
  <1>6. ASSUME NEW t \in Timers, Cancel(t) PROVE C
    BY <1>6, <1>a DEF Cancel, Covered, AllSleep
  <1>7. ASSUME NEW t \in Timers, NEW ms \in Periods, NewTimer(t, ms) PROVE C
    <2>1. t \notin m_timers BY <1>7 DEF NewTimer, Life
    <2> QED BY <1>0, <1>7, <1>a, <2>1 DEF NewTimer, Covered, AllSleep
  <1>8. ASSUME NEW t \in Timers, Refresh(t) PROVE C
    <2>1. \A u \in m_timers : m_next[u] <= m_next'[u]
      BY <1>0, <1>8 DEF Refresh, Clock
    <2>2. m_timers' = m_timers /\ AllSleep /\ UNCHANGED <<deadline, now, pipe, edge, announcing>>
      BY <1>8 DEF Refresh, AllSleep
    <2> QED BY <1>0, <1>a, <2>1, <2>2 DEF Covered
  <1>9. ASSUME NEW t \in Timers, NEW ms \in Periods, NEW from_now \in BOOLEAN,
               Reset(t, ms, from_now)
        PROVE  C
    <2>1. /\ AllSleep /\ UNCHANGED <<now, deadline>>
          /\ Insert(t, ResetStart(t, from_now) + ms)
      BY <1>9 DEF Reset, AllSleep
    <2>2. ResetStart(t, from_now) + ms \in Nat
      BY <1>0, TimerAssumption DEF TimerAssumption, ResetStart, Clock
    <2> QED BY <2>1, <2>2, InsertOnTime
  <1>10. ASSUME NEW w \in Workers, GetNextTimer(w) PROVE C
    <2>1. CASE m_timers = {}
      BY <1>10, <2>1 DEF GetNextTimer
    <2>2. ASSUME NEW t \in m_timers, IsFront(t),
                 deadline' = [deadline EXCEPT ![w] = SleepUntil(t)]
          PROVE  C
      <3>1. deadline'[w] = SleepUntil(t)
        BY <2>2 DEF TypeOK
      <3>2. ASSUME NEW u \in m_timers PROVE deadline'[w] <= m_next[u] \/ deadline'[w] <= now
        BY <1>0, <2>2, <3>1, TimerAssumption
        DEF TimerAssumption, SleepUntil, Minimum, IsFront, Before
      <3> QED BY <1>10, <3>2 DEF GetNextTimer, Covered
    <2> QED BY <1>10, <2>1, <2>2 DEF GetNextTimer
  <1>11. ASSUME NEW w \in Workers,
                EnterIdle(w) \/ WakeTimeout(w) \/ WakeTickle(w) \/ Drain(w)
                  \/ ListExpiredCb(w)
         PROVE  FALSE
    <2>1. wpc' \in [Workers -> WorkerPc] /\ wpc'[w] # "sleep"
      BY <1>11
      DEF TypeOK, WorkerPc, EnterIdle, WakeTimeout, WakeTickle, Drain, ListExpiredCb, Goto
    <2> QED BY <2>1 DEF AllSleep
  <1> QED
    BY <1>1, <1>2, <1>3, <1>4, <1>5, <1>6, <1>7, <1>8, <1>9, <1>10, <1>11
    DEF Next, Horizon, Caller, Worker

-----------------------------------------------------------------------------
\* The inductive invariant.
IInv ==
  /\ TypeOK /\ Clock
  /\ Life /\ CbInSet /\ CancelExcludesFiring
  /\ TickleUnderWay /\ OnTime

LEMMA Invariance == Spec => []IInv
  <1>1. Init => IInv
    BY TimerInit DEF IInv
  <1>2. IInv /\ [Next]_vars => IInv'
    BY TimerTypeStep, LifeStep, TickleStep, OnTimeStep DEF IInv
  <1> QED BY <1>1, <1>2, PTL DEF Spec

\* The variables of the timers keep their types: no unsigned time wraps below
\* zero, in particular not m_next - m_ms in Timer::reset, and IOManager::idle
\* never sleeps longer than MAX_TIMEOUT.
THEOREM TimerTypeCorrect == Spec => []TypeOK
  <1>1. IInv => TypeOK BY DEF IInv
  <1> QED BY <1>1, Invariance, PTL

\* Timer::cancel always finds its timer in the set, and listExpiredCb hands over
\* no null callback.
THEOREM CbInSetCorrect == Spec => []CbInSet
  <1>1. IInv => CbInSet BY DEF IInv
  <1> QED BY <1>1, Invariance, PTL

\* A one-shot timer is handed over by listExpiredCb or cancelled, never both.
THEOREM CancelExcludesFiringCorrect == Spec => []CancelExcludesFiring
  <1>1. IInv => CancelExcludesFiring BY DEF IInv
  <1> QED BY <1>1, Invariance, PTL

\* When all workers are in epoll_wait, one of them wakes up in time for every
\* timer, or a tickle is on its way: the m_tickled flag of addTimer loses no
\* announcement that matters, for any number of workers and timers.
THEOREM OnTimeCorrect == Spec => []OnTime
  <1>1. IInv => OnTime BY DEF IInv
  <1> QED BY <1>1, Invariance, PTL
=============================================================================
