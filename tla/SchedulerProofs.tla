-------------------------- MODULE SchedulerProofs --------------------------
(***************************************************************************)
(* Proofs about Scheduler, for any number of threads, fibers, callbacks    *)
(* and yields.  DataType and RunnerRefs are inductive together once it is  *)
(* known that start() finds no runner at work; CountsExact then follows    *)
(* from what a step does to one runner's place in run().                   *)
(*                                                                         *)
(* With several runners and waits the code has a race (a wake-up may come  *)
(* before the fiber has left its stack), so the properties about fibers    *)
(* are proved where they hold: PoolInv and WorkSeen for any number of      *)
(* runners whose fibers only yield, SoloOK for one runner whose fibers may *)
(* wait for timers and events.                                             *)
(***************************************************************************)
EXTENDS Scheduler, TLAPS, FiniteSetTheorems

\* Before start() no runner exists.
NotStarted == main = "ready" => \A t \in Runners : pc[t] = "off"

TypeInv == DataType /\ RunnerRefs /\ NotStarted

\* What an entry may hold; null is none of it.
LEMMA ItemFacts ==
  /\ Fibers \subseteq Items /\ Cbs \subseteq Items
  /\ \A f \in Fibers : Wake(f) \in Items
  /\ UserFibers \subseteq Fibers
  /\ None \notin Items
BY SchedulerAssumption DEF SchedulerAssumption, Items, WakeCbs

\* Taking an element out of the middle of a queue leaves a queue.
LEMMA RemoveAtType ==
  ASSUME NEW S, NEW s \in Seq(S), NEW i \in DOMAIN s
  PROVE  RemoveAt(s, i) \in Seq(S)
BY DEF RemoveAt

\* Its elements, and their places.
LEMMA RemoveAtFacts ==
  ASSUME NEW S, NEW s \in Seq(S), NEW i \in DOMAIN s
  PROVE  /\ Len(s) \in Nat /\ DOMAIN s = 1 .. Len(s)
         /\ DOMAIN RemoveAt(s, i) = 1 .. (Len(s) - 1)
         /\ \A j \in 1 .. (Len(s) - 1) :
              RemoveAt(s, i)[j] = IF j < i THEN s[j] ELSE s[j + 1]
<1> DEFINE a == SubSeq(s, 1, i - 1)
           b == SubSeq(s, i + 1, Len(s))
<1>1. Len(s) \in Nat /\ i \in 1 .. Len(s) /\ DOMAIN s = 1 .. Len(s)
  OBVIOUS
<1>2. /\ a \in Seq(S) /\ Len(a) = i - 1
      /\ \A j \in 1 .. (i - 1) : a[j] = s[j]
  BY <1>1
<1>3. /\ b \in Seq(S) /\ Len(b) = Len(s) - i
      /\ \A j \in 1 .. (Len(s) - i) : b[j] = s[i + j]
  BY <1>1
<1>4. RemoveAt(s, i) = a \o b
  BY DEF RemoveAt
<1> HIDE DEF a, b
<1>5. DOMAIN (a \o b) = 1 .. (Len(s) - 1)
  <2>1. a \in Seq(S) /\ b \in Seq(S)
    BY <1>2, <1>3
  <2>2. a \o b \in Seq(S)
    BY <2>1
  <2>3. Len(a \o b) = Len(a) + Len(b)
    BY <2>1
  <2>4. Len(a) + Len(b) = Len(s) - 1
    BY <1>1, <1>2, <1>3
  <2>5. DOMAIN (a \o b) = 1 .. Len(a \o b)
    BY <2>2
  <2> QED BY <2>3, <2>4, <2>5
<1>6. ASSUME NEW j \in 1 .. (Len(s) - 1)
      PROVE  (a \o b)[j] = IF j < i THEN s[j] ELSE s[j + 1]
  <2>1. CASE j < i
    <3>1. (a \o b)[j] = a[j]
      BY <1>1, <1>2, <1>3, <2>1
    <3> QED BY <1>1, <1>2, <2>1, <3>1
  <2>2. CASE ~(j < i)
    <3>1. (a \o b)[j] = b[j - Len(a)]
      BY <1>1, <1>2, <1>3, <2>2
    <3>2. j - Len(a) \in 1 .. (Len(s) - i) /\ i + (j - Len(a)) = j + 1
      BY <1>1, <1>2, <2>2
    <3> QED BY <1>3, <2>2, <3>1, <3>2
  <2> QED BY <2>1, <2>2
<1> QED BY <1>1, <1>4, <1>5, <1>6

\* What a runner takes from m_fibers is an entry: a fiber or a callback.
LEMMA QueueEntry ==
  ASSUME DataType, NEW i \in DOMAIN m_fibers
  PROVE  /\ m_fibers[i] \in Entry
         /\ m_fibers[i].item \in Items
<1>1. m_fibers[i] \in Entry
  BY DEF DataType
<1> QED BY <1>1 DEF Entry

\* schedule() appends an entry.
LEMMA PushBackType ==
  ASSUME DataType, NEW x \in Items, NEW thr \in Runners \cup {AnyThread}
  PROVE  PushBack(x, thr) \in Seq(Entry)
BY DEF DataType, PushBack, Entry

\* The constructor establishes the type invariant ...
LEMMA TypeInit == Init => TypeInv
<1> SUFFICES ASSUME Init PROVE TypeInv
  OBVIOUS
<1>1. DataType
  BY SchedulerAssumption, ItemFacts DEF SchedulerAssumption, Init, DataType, State, RunnerPc
<1>2. RunnerRefs
  BY DEF Init, RunnerRefs, OnStack, Busy, BusyPc
<1>3. NotStarted
  BY DEF Init, NotStarted
<1> QED BY <1>1, <1>2, <1>3 DEF TypeInv

\* ... and every step of every thread preserves it.
LEMMA TypeStep ==
  ASSUME TypeInv, [Next]_vars
  PROVE  TypeInv'
<1> USE SchedulerAssumption, ItemFacts
    DEF SchedulerAssumption, TypeInv, DataType, RunnerRefs, NotStarted, Goto, Entry,
        RunnerPc, State, OnStack, Busy, BusyPc, Cur, PushBack, counters, control,
        fibers, locals, wakes, history, Decrement, Keeps
<1>1. ASSUME Start PROVE TypeInv'
  BY <1>1 DEF Start
<1>2. ASSUME StopAuto PROVE TypeInv'
  BY <1>2 DEF StopAuto
<1>3. ASSUME StopFlag PROVE TypeInv'
  BY <1>3 DEF StopFlag
<1>4. ASSUME StopTest PROVE TypeInv'
  BY <1>4 DEF StopTest
<1>5. ASSUME StopCall PROVE TypeInv'
  <2>1. CASE Goto(Root, "off", "scan") /\ UNCHANGED main
    BY <1>5, <2>1, ZenonT(60) DEF StopCall
  <2>2. CASE UNCHANGED pc /\ main' = "join"
    BY <1>5, <2>2 DEF StopCall
  <2> QED BY <1>5, <2>1, <2>2 DEF StopCall
<1>6. ASSUME StopJoin PROVE TypeInv'
  BY <1>6 DEF StopJoin
<1>7. ASSUME NEW t \in Runners, Take(t) PROVE TypeInv'
  <2>1. PICK i \in DOMAIN m_fibers :
          /\ ft' = [ft EXCEPT ![t] = m_fibers[i].item]
          /\ m_fibers' = RemoveAt(m_fibers, i)
    BY <1>7 DEF Take
  <2>2. m_fibers' \in Seq(Entry)
    BY <2>1, RemoveAtType
  <2>3. m_fibers[i].item \in Items
    BY QueueEntry
  <2> QED BY <1>7, <2>1, <2>2, <2>3 DEF Take
<1>8. ASSUME NEW t \in Runners, TakeNothing(t) PROVE TypeInv'
  BY <1>8 DEF TakeNothing
<1>9. ASSUME NEW t \in Runners, DropDead(t) PROVE TypeInv'
  BY <1>9 DEF DropDead
<1>10. ASSUME NEW t \in Runners, SwapInFiber(t) PROVE TypeInv'
  BY <1>10 DEF SwapInFiber
<1>11. ASSUME NEW t \in Runners, SwapInCb(t) PROVE TypeInv'
  BY <1>11 DEF SwapInCb
<1>12. ASSUME NEW t \in Runners, SwappedOut(t) PROVE TypeInv'
  BY <1>12 DEF SwappedOut
<1>13. ASSUME NEW t \in Runners, HandleFiber(t) PROVE TypeInv'
  <2>1. ft[t] \in Fibers
    BY <1>13 DEF HandleFiber
  <2>2. m_fibers' \in Seq(Entry)
    BY <1>13, <2>1, PushBackType DEF HandleFiber
  <2>3. m_state' \in [Fibers -> State]
    BY <1>13, <2>1 DEF HandleFiber
  <2> QED BY <1>13, <2>1, <2>2, <2>3 DEF HandleFiber
<1>14. ASSUME NEW t \in Runners, HandleCb(t) PROVE TypeInv'
  <2>1. cb_fiber[t] \in Fibers
    BY <1>14 DEF HandleCb
  <2>2. m_fibers' \in Seq(Entry)
    BY <1>14, <2>1, PushBackType DEF HandleCb
  <2>3. m_state' \in [Fibers -> State]
    BY <1>14, <2>1 DEF HandleCb
  <2>4. /\ m_cb' \in [Fibers -> Items \cup {None}]
        /\ cb_fiber' \in [Runners -> Fibers \cup {None}]
        /\ \A u \in Runners \ {t} : cb_fiber'[u] = cb_fiber[u]
    BY <1>14, <2>1 DEF HandleCb
  <2> QED BY <1>14, <2>1, <2>2, <2>3, <2>4 DEF HandleCb
<1>15. ASSUME NEW t \in Runners, GoIdle(t) PROVE TypeInv'
  <2>1. CASE Goto(t, "none", "exit") /\ UNCHANGED m_idleThreadCount
    BY <1>15, <2>1 DEF GoIdle
  <2>2. CASE Goto(t, "none", "idle") /\ m_idleThreadCount' = m_idleThreadCount + 1
    BY <1>15, <2>2 DEF GoIdle
  <2> QED BY <1>15, <2>1, <2>2 DEF GoIdle
<1>16. ASSUME NEW t \in Runners, IdlePending(t) PROVE TypeInv'
  <2>1. CASE Goto(t, "idle", "wait")
    BY <1>16, <2>1 DEF IdlePending
  <2>2. CASE Goto(t, "idle", "check")
    BY <1>16, <2>2 DEF IdlePending
  <2> QED BY <1>16, <2>1, <2>2 DEF IdlePending
<1>17. ASSUME NEW t \in Runners, IdleStopping(t) PROVE TypeInv'
  <2>1. CASE Goto(t, "check", "scan") /\ m_idleThreadCount' = m_idleThreadCount - 1
    BY <1>17, <2>1 DEF IdleStopping
  <2>2. CASE Goto(t, "check", "wait") /\ UNCHANGED m_idleThreadCount
    BY <1>17, <2>2 DEF IdleStopping
  <2> QED BY <1>17, <2>1, <2>2 DEF IdleStopping
<1>18. ASSUME NEW t \in Runners, IdleYield(t) PROVE TypeInv'
  BY <1>18 DEF IdleYield
<1>19. ASSUME NEW t \in Runners, IdleSchedule(t) PROVE TypeInv'
  BY <1>19 DEF IdleSchedule
<1>20. ASSUME NEW t \in Runners, YieldToReady(t) PROVE TypeInv'
  BY <1>20 DEF YieldToReady
<1>21. ASSUME NEW t \in Runners, UserArm(t) PROVE TypeInv'
  <2>1. Cur(t) \in Fibers
    BY <1>21 DEF UserArm
  <2>2. /\ timers' \subseteq Fibers /\ events' \subseteq Fibers
        /\ m_pendingEventCount' \in Int
    BY <1>21, <2>1 DEF UserArm
  <2> QED BY <1>21, <2>1, <2>2 DEF UserArm
<1>22. ASSUME NEW t \in Runners, YieldToHold(t) PROVE TypeInv'
  BY <1>22 DEF YieldToHold
<1>23. ASSUME NEW t \in Runners, MainFuncEnd(t) PROVE TypeInv'
  <2>1. Cur(t) \in Fibers
    BY <1>23 DEF MainFuncEnd
  <2>2. m_state' \in [Fibers -> State] /\ m_cb' \in [Fibers -> Items \cup {None}]
    BY <1>23, <2>1 DEF MainFuncEnd
  <2>3. ended' \subseteq Items \cup {None}
    BY <1>23, <2>1 DEF MainFuncEnd
  <2> QED BY <1>23, <2>2, <2>3 DEF MainFuncEnd
<1>24. ASSUME NEW t \in Runners, SwapOut(t) PROVE TypeInv'
  BY <1>24 DEF SwapOut
<1>25. ASSUME NEW c \in Cbs, ScheduleCb(c) PROVE TypeInv'
  BY <1>25 DEF ScheduleCb
<1>26. ASSUME NEW f \in UserFibers, ScheduleFiber(f) PROVE TypeInv'
  BY <1>26 DEF ScheduleFiber
<1>27. ASSUME NEW t \in Runners, NEW f \in Fibers, IdleCollect(t, f) PROVE TypeInv'
  BY <1>27 DEF IdleCollect
<1>28. ASSUME NEW t \in Runners, NEW c \in Cbs, UserSchedule(t, c) PROVE TypeInv'
  BY <1>28 DEF UserSchedule
<1>29. ASSUME NEW t \in Runners, NEW f \in Fibers, IdleTrigger(t, f) PROVE TypeInv'
  BY <1>29 DEF IdleTrigger
<1>30. ASSUME NEW t \in Runners, IdleTriggered(t) PROVE TypeInv'
  BY <1>30 DEF IdleTriggered
<1>31. ASSUME NEW t \in Runners, NEW f \in Fibers, RunWake(t, f) PROVE TypeInv'
  BY <1>31 DEF RunWake
<1>32. CASE UNCHANGED vars
  BY <1>32 DEF vars
<1> QED
  BY <1>1, <1>2, <1>3, <1>4, <1>5, <1>6, <1>7, <1>8, <1>9, <1>10, <1>11, <1>12,
     <1>13, <1>14, <1>15, <1>16, <1>17, <1>18, <1>19, <1>20, <1>21, <1>22, <1>23,
     <1>24, <1>25, <1>26, <1>27, <1>28, <1>29, <1>30, <1>31, <1>32
  DEF Next, Control, Submit, Loop, Idle,
     User, Done

-----------------------------------------------------------------------------
\* The scheduler has finitely many runners.
LEMMA RunnersFinite == IsFiniteSet(Runners)
<1>1. IsFiniteSet(Threads)
  BY SchedulerAssumption DEF SchedulerAssumption
<1>2. IsFiniteSet(IF UseCaller THEN {Root} ELSE {})
  BY FS_EmptySet, FS_Singleton
<1> QED BY <1>1, <1>2, FS_Union DEF Runners

\* The number of runners whose place in run() is in P, when one runner moves.
LEMMA CountStep ==
  ASSUME DataType, NEW t \in Runners, NEW a, NEW b, Goto(t, a, b), NEW P
  PROVE  Cardinality({u \in Runners : pc'[u] \in P})
           = Cardinality({u \in Runners : pc[u] \in P})
               + (IF b \in P THEN 1 ELSE 0) - (IF a \in P THEN 1 ELSE 0)
<1> DEFINE S == {u \in Runners : pc[u] \in P}
           T == {u \in Runners : pc'[u] \in P}
<1>1. IsFiniteSet(S) /\ Cardinality(S) \in Nat
  BY RunnersFinite, FS_Subset, FS_CardinalityType
<1>2. pc[t] = a /\ pc' = [pc EXCEPT ![t] = b] /\ DOMAIN pc = Runners
  BY DEF Goto, DataType
<1>3. CASE (a \in P) <=> (b \in P)
  <2>1. T = S
    BY <1>2, <1>3
  <2> HIDE DEF S, T
  <2>2. /\ Cardinality(T) = Cardinality(S) + 1 - 1
        /\ Cardinality(T) = Cardinality(S) + 0 - 0
    BY <1>1, <2>1
  <2>3. CASE a \in P
    BY <1>3, <2>2, <2>3 DEF S, T
  <2>4. CASE a \notin P
    BY <1>3, <2>2, <2>4 DEF S, T
  <2> QED BY <2>3, <2>4
<1>4. CASE a \notin P /\ b \in P
  <2>1. T = S \cup {t} /\ t \notin S
    BY <1>2, <1>4
  <2>2. Cardinality(T) = Cardinality(S) + 1
    BY <1>1, <2>1, FS_AddElement
  <2> HIDE DEF S, T
  <2>3. Cardinality(T) = Cardinality(S) + 1 - 0
    BY <1>1, <2>2
  <2> QED BY <1>4, <2>3 DEF S, T
<1>5. CASE a \in P /\ b \notin P
  <2>1. T = S \ {t} /\ t \in S
    BY <1>2, <1>5
  <2>2. Cardinality(T) = Cardinality(S) - 1
    BY <1>1, <2>1, FS_RemoveElement
  <2> HIDE DEF S, T
  <2>3. Cardinality(T) = Cardinality(S) + 0 - 1
    BY <1>1, <2>2
  <2> QED BY <1>5, <2>3 DEF S, T
<1> QED BY <1>3, <1>4, <1>5

\* What a step that takes a runner from a to b must do to the counters.
Counted(a, b) ==
  /\ m_activeThreadCount' = m_activeThreadCount
       + (IF b \in BusyPc THEN 1 ELSE 0) - (IF a \in BusyPc THEN 1 ELSE 0)
  /\ m_idleThreadCount' = m_idleThreadCount
       + (IF b \in IdlePc THEN 1 ELSE 0) - (IF a \in IdlePc THEN 1 ELSE 0)

\* A step that moves one runner and counts accordingly keeps the counters exact.
LEMMA GotoCounts ==
  ASSUME DataType, CountsExact, NEW t \in Runners, NEW a, NEW b,
         Goto(t, a, b), Counted(a, b)
  PROVE  CountsExact'
<1>1. Cardinality({u \in Runners : pc'[u] \in BusyPc})
        = Cardinality({u \in Runners : pc[u] \in BusyPc})
            + (IF b \in BusyPc THEN 1 ELSE 0) - (IF a \in BusyPc THEN 1 ELSE 0)
  BY CountStep
<1>2. Cardinality({u \in Runners : pc'[u] \in IdlePc})
        = Cardinality({u \in Runners : pc[u] \in IdlePc})
            + (IF b \in IdlePc THEN 1 ELSE 0) - (IF a \in IdlePc THEN 1 ELSE 0)
  BY CountStep
<1> QED BY <1>1, <1>2, Zenon DEF CountsExact, Counted, BusyPc, IdlePc

\* Every step counts accordingly.
LEMMA CountsStep ==
  ASSUME DataType, NotStarted, CountsExact, [Next]_vars
  PROVE  CountsExact'
<1>1. ASSUME UNCHANGED <<counters, pc>> PROVE CountsExact'
  BY <1>1 DEF counters, CountsExact, BusyPc, IdlePc
<1>2. ASSUME NEW t \in Runners, Take(t) PROVE CountsExact'
  <2>1. Goto(t, "scan", "got") /\ Counted("scan", "got")
    BY <1>2 DEF Take, Counted, DataType, counters, BusyPc, IdlePc
  <2> QED BY <2>1, GotoCounts
<1>3. ASSUME NEW t \in Runners, TakeNothing(t) PROVE CountsExact'
  <2>1. Goto(t, "scan", "none") /\ Counted("scan", "none")
    BY <1>3 DEF TakeNothing, Counted, DataType, counters, BusyPc, IdlePc
  <2> QED BY <2>1, GotoCounts
<1>4. ASSUME NEW t \in Runners, DropDead(t) PROVE CountsExact'
  <2>1. Goto(t, "got", "scan") /\ Counted("got", "scan")
    BY <1>4 DEF DropDead, Decrement, Counted, DataType, counters, BusyPc, IdlePc
  <2> QED BY <2>1, GotoCounts
<1>5. ASSUME NEW t \in Runners, SwapInFiber(t) PROVE CountsExact'
  <2>1. Goto(t, "got", "user") /\ Counted("got", "user")
    BY <1>5 DEF SwapInFiber, Counted, DataType, counters, BusyPc, IdlePc
  <2> QED BY <2>1, GotoCounts
<1>6. ASSUME NEW t \in Runners, SwapInCb(t) PROVE CountsExact'
  <2>1. Goto(t, "got", "user") /\ Counted("got", "user")
    BY <1>6 DEF SwapInCb, Counted, DataType, counters, BusyPc, IdlePc
  <2> QED BY <2>1, GotoCounts
<1>7. ASSUME NEW t \in Runners, SwappedOut(t) PROVE CountsExact'
  <2>1. Goto(t, "back", "handle") /\ Counted("back", "handle")
    BY <1>7 DEF SwappedOut, Decrement, Counted, DataType, counters, BusyPc, IdlePc
  <2> QED BY <2>1, GotoCounts
<1>8. ASSUME NEW t \in Runners, HandleFiber(t) PROVE CountsExact'
  <2>1. Goto(t, "handle", "scan") /\ Counted("handle", "scan")
    BY <1>8 DEF HandleFiber, Counted, DataType, counters, BusyPc, IdlePc
  <2> QED BY <2>1, GotoCounts
<1>9. ASSUME NEW t \in Runners, HandleCb(t) PROVE CountsExact'
  <2>1. Goto(t, "handle", "scan") /\ Counted("handle", "scan")
    BY <1>9 DEF HandleCb, Counted, DataType, counters, BusyPc, IdlePc
  <2> QED BY <2>1, GotoCounts
<1>10. ASSUME NEW t \in Runners, IdleYield(t) PROVE CountsExact'
  <2>1. Goto(t, "wait", "scan") /\ Counted("wait", "scan")
    BY <1>10 DEF IdleYield, Counted, DataType, counters, BusyPc, IdlePc
  <2> QED BY <2>1, GotoCounts
<1>11. ASSUME NEW t \in Runners, IdleSchedule(t) PROVE CountsExact'
  <2>1. Goto(t, "post", "scan") /\ Counted("post", "scan")
    BY <1>11 DEF IdleSchedule, Counted, DataType, counters, BusyPc, IdlePc
  <2> QED BY <2>1, GotoCounts
<1>12. ASSUME NEW t \in Runners, YieldToReady(t) PROVE CountsExact'
  <2>1. Goto(t, "user", "switch") /\ Counted("user", "switch")
    BY <1>12 DEF YieldToReady, Counted, DataType, counters, BusyPc, IdlePc
  <2> QED BY <2>1, GotoCounts
<1>13. ASSUME NEW t \in Runners, UserArm(t) PROVE CountsExact'
  <2>1. Goto(t, "user", "armed") /\ Counted("user", "armed")
    BY <1>13 DEF UserArm, Counted, DataType, counters, BusyPc, IdlePc
  <2> QED BY <2>1, GotoCounts
<1>14. ASSUME NEW t \in Runners, YieldToHold(t) PROVE CountsExact'
  <2>1. Goto(t, "armed", "switch") /\ Counted("armed", "switch")
    BY <1>14 DEF YieldToHold, Counted, DataType, counters, BusyPc, IdlePc
  <2> QED BY <2>1, GotoCounts
<1>15. ASSUME NEW t \in Runners, MainFuncEnd(t) PROVE CountsExact'
  <2>1. Goto(t, "user", "switch") /\ Counted("user", "switch")
    BY <1>15 DEF MainFuncEnd, Counted, DataType, counters, BusyPc, IdlePc
  <2> QED BY <2>1, GotoCounts
<1>16. ASSUME NEW t \in Runners, SwapOut(t) PROVE CountsExact'
  <2>1. Goto(t, "switch", "back") /\ Counted("switch", "back")
    BY <1>16 DEF SwapOut, Counted, DataType, counters, BusyPc, IdlePc
  <2> QED BY <2>1, GotoCounts
<1>17. ASSUME NEW t \in Runners, GoIdle(t) PROVE CountsExact'
  <2>1. \/ Goto(t, "none", "exit") /\ Counted("none", "exit")
        \/ Goto(t, "none", "idle") /\ Counted("none", "idle")
    BY <1>17 DEF GoIdle, Goto, Counted, DataType, counters, BusyPc, IdlePc
  <2> QED BY <2>1, GotoCounts
<1>18. ASSUME NEW t \in Runners, IdlePending(t) PROVE CountsExact'
  <2>1. \/ Goto(t, "idle", "wait") /\ Counted("idle", "wait")
        \/ Goto(t, "idle", "check") /\ Counted("idle", "check")
    BY <1>18 DEF IdlePending, Goto, Counted, DataType, counters, BusyPc, IdlePc
  <2> QED BY <2>1, GotoCounts
<1>19. ASSUME NEW t \in Runners, IdleStopping(t) PROVE CountsExact'
  <2>1. \/ Goto(t, "check", "scan") /\ Counted("check", "scan")
        \/ Goto(t, "check", "wait") /\ Counted("check", "wait")
    BY <1>19 DEF IdleStopping, Goto, Counted, DataType, counters, BusyPc, IdlePc
  <2> QED BY <2>1, GotoCounts
<1>20. ASSUME NEW t \in Runners, NEW f \in Fibers, IdleCollect(t, f) PROVE CountsExact'
  <2>1. Goto(t, "wait", "post") /\ Counted("wait", "post")
    BY <1>20 DEF IdleCollect, Counted, DataType, counters, BusyPc, IdlePc
  <2> QED BY <2>1, GotoCounts
<1>21. ASSUME Start PROVE CountsExact'
  <2>1. \A t \in Runners : pc[t] = "off" /\ pc'[t] \in {"off", "scan"}
    BY <1>21 DEF Start, NotStarted
  <2>2. /\ {t \in Runners : pc[t] \in BusyPc} = {t \in Runners : pc'[t] \in BusyPc}
        /\ {t \in Runners : pc[t] \in IdlePc} = {t \in Runners : pc'[t] \in IdlePc}
    BY <2>1 DEF BusyPc, IdlePc
  <2> QED BY <1>21, <2>2 DEF Start, CountsExact, counters, BusyPc, IdlePc
<1>22. ASSUME StopCall PROVE CountsExact'
  <2>1. CASE Goto(Root, "off", "scan") /\ Root \in Runners
    <3>1. Counted("off", "scan")
      BY <1>22 DEF StopCall, Counted, DataType, counters, BusyPc, IdlePc
    <3> QED BY <2>1, <3>1, GotoCounts
  <2>2. CASE Goto(Root, "off", "scan") /\ Root \notin Runners
    <3>1. pc' = pc
      BY <2>2 DEF Goto, DataType
    <3> QED BY <1>22, <3>1, <1>1 DEF StopCall
  <2>3. CASE UNCHANGED pc
    BY <1>22, <2>3, <1>1 DEF StopCall
  <2> QED BY <1>22, <2>1, <2>2, <2>3 DEF StopCall
<1>23. ASSUME StopAuto \/ StopFlag \/ StopTest \/ StopJoin \/ Submit PROVE CountsExact'
  <2>1. UNCHANGED <<counters, pc>>
    BY <1>23 DEF StopAuto, StopFlag, StopTest, StopJoin, Submit, ScheduleCb,
       ScheduleFiber
  <2> QED BY <2>1, <1>1
<1>24. ASSUME NEW t \in Runners, NEW c \in Cbs, UserSchedule(t, c) PROVE CountsExact'
  BY <1>24, <1>1 DEF UserSchedule
<1>25. ASSUME NEW t \in Runners, NEW f \in Fibers, IdleTrigger(t, f) PROVE CountsExact'
  <2>1. Goto(t, "wait", "trigger") /\ Counted("wait", "trigger")
    BY <1>25 DEF IdleTrigger, Counted, DataType, counters, BusyPc, IdlePc
  <2> QED BY <2>1, GotoCounts
<1>26. ASSUME NEW t \in Runners, IdleTriggered(t) PROVE CountsExact'
  <2>1. Goto(t, "trigger", "scan") /\ Counted("trigger", "scan")
    BY <1>26 DEF IdleTriggered, Counted, DataType, counters, BusyPc, IdlePc
  <2> QED BY <2>1, GotoCounts
<1>27. ASSUME NEW t \in Runners, NEW f \in Fibers, RunWake(t, f) PROVE CountsExact'
  <2>1. Goto(t, "user", "switch") /\ Counted("user", "switch")
    BY <1>27 DEF RunWake, Counted, DataType, counters, BusyPc, IdlePc
  <2> QED BY <2>1, GotoCounts
<1>28. CASE UNCHANGED vars
  BY <1>28, <1>1 DEF vars
<1> QED
  BY <1>2, <1>3, <1>4, <1>5, <1>6, <1>7, <1>8, <1>9, <1>10, <1>11, <1>12,
     <1>13, <1>14, <1>15, <1>16, <1>17, <1>18, <1>19, <1>20, <1>21, <1>22, <1>23,
     <1>24, <1>25, <1>26, <1>27, <1>28
  DEF Next, Control, Loop, Idle, User, Done

-----------------------------------------------------------------------------
\* The three flags stay Booleans.
LEMMA FlagsStep ==
  ASSUME FlagsType, [Next]_vars
  PROVE  FlagsType'
<1>1. ASSUME UNCHANGED <<m_stopping, m_autoStop, idleTerm>> PROVE FlagsType'
  BY <1>1 DEF FlagsType
<1>2. ASSUME Start \/ StopAuto \/ StopFlag PROVE FlagsType'
  BY <1>2 DEF FlagsType, Start, StopAuto, StopFlag, locals
<1>3. ASSUME StopTest \/ StopCall \/ StopJoin \/ Submit PROVE FlagsType'
  <2>1. UNCHANGED <<m_stopping, m_autoStop, idleTerm>>
    BY <1>3 DEF StopTest, StopCall, StopJoin, Submit, ScheduleCb, ScheduleFiber,
                control, locals
  <2> QED BY <2>1, <1>1
<1>4. ASSUME NEW t \in Runners, IdleStopping(t) PROVE FlagsType'
  <2>1. m_stopping' = m_stopping /\ m_autoStop' = m_autoStop
    BY <1>4 DEF IdleStopping, control
  <2>2. idleTerm' = [idleTerm EXCEPT ![t] = TRUE] \/ idleTerm' = idleTerm
    BY <1>4 DEF IdleStopping
  <2> QED BY <2>1, <2>2 DEF FlagsType
<1>5. ASSUME NEW t \in Runners, Loop(t) \/ User(t) PROVE FlagsType'
  <2>1. UNCHANGED <<m_stopping, m_autoStop, idleTerm>>
    BY <1>5 DEF Loop, Take, TakeNothing, DropDead, SwapInFiber, SwapInCb, SwappedOut,
                HandleFiber, HandleCb, GoIdle, User, UserSchedule, YieldToReady,
                UserArm, YieldToHold, MainFuncEnd, RunWake, SwapOut, control, locals
  <2> QED BY <2>1, <1>1
<1>6. ASSUME NEW t \in Runners,
             \/ IdlePending(t) \/ IdleYield(t) \/ IdleSchedule(t) \/ IdleTriggered(t)
             \/ \E f \in Fibers : IdleCollect(t, f) \/ IdleTrigger(t, f)
      PROVE  FlagsType'
  <2>1. UNCHANGED <<m_stopping, m_autoStop, idleTerm>>
    BY <1>6 DEF IdlePending, IdleYield, IdleSchedule, IdleTriggered, IdleCollect,
                IdleTrigger, control, locals
  <2> QED BY <2>1, <1>1
<1>7. CASE UNCHANGED vars
  BY <1>7, <1>1 DEF vars, control, locals
<1> QED
  BY <1>2, <1>3, <1>4, <1>5, <1>6, <1>7 DEF Next, Control, Idle, Done

-----------------------------------------------------------------------------
\* run() and the idle fiber keep every variable well typed and never use a null
\* fiber, callback or wake-up, however many threads interleave.
THEOREM TypeCorrect == Spec => []TypeOK
<1>1. Init => FlagsType /\ TypeInv
  BY TypeInit DEF Init, FlagsType
<1>2. FlagsType /\ TypeInv /\ [Next]_vars => (FlagsType /\ TypeInv)'
  BY FlagsStep, TypeStep
<1>3. FlagsType /\ TypeInv => TypeOK
  BY DEF TypeInv, TypeOK
<1> QED BY <1>1, <1>2, <1>3, PTL DEF Spec

\* m_activeThreadCount and m_idleThreadCount always equal the number of runners
\* that hold an entry and that are in their idle fiber, so stopping() is never
\* misled by a lost or doubled update, for any number of threads.
THEOREM CountsCorrect == Spec => []CountsExact
<1>1. Init => TypeInv /\ CountsExact
  <2> SUFFICES ASSUME Init PROVE CountsExact
    BY TypeInit
  <2>1. /\ {t \in Runners : pc[t] \in BusyPc} = {}
        /\ {t \in Runners : pc[t] \in IdlePc} = {}
    BY DEF Init, BusyPc, IdlePc
  <2> QED BY <2>1, FS_EmptySet DEF Init, CountsExact
<1>2. TypeInv /\ CountsExact /\ [Next]_vars => (TypeInv /\ CountsExact)'
  BY TypeStep, CountsStep DEF TypeInv
<1> QED BY <1>1, <1>2, PTL DEF Spec

-----------------------------------------------------------------------------
(***************************************************************************)
(* A scheduler whose fibers only yield (nothing waits for a timer or an    *)
(* event) and whose application schedules each of its fibers once.  There  *)
(* every fiber and every callback is in one place: in the queue, or with   *)
(* one runner.                                                             *)
(***************************************************************************)
ReadyOnce == MaySwitch \subseteq {"ready"} /\ MaxDup <= 1

OnFiber == {"user", "switch", "back", "handle"}
\* The fiber that runner t has taken, is on, or is about to handle.
Held(t, f) == ft[t] = f \/ (ft[t] = None /\ cb_fiber[t] = f /\ pc[t] \in OnFiber)

\* Nobody waits and no wake-up is on its way.
NoWake ==
  /\ timers = {} /\ events = {}
  /\ \A t \in Runners : fired[t] = None /\ ft[t] \notin WakeCbs /\ pc[t] # "armed"
  /\ \A x \in WakeCbs : ~Queued(x)
  /\ \A f \in Fibers : m_cb[f] \notin WakeCbs

\* The queue holds nothing twice, and a fiber that is not the application's own
\* is queued for any thread.
Distinct ==
  \A i, j \in DOMAIN m_fibers : m_fibers[i].item = m_fibers[j].item => i = j
Unbound ==
  \A i \in DOMAIN m_fibers :
    m_fibers[i].item \in Fibers \ UserFibers => m_fibers[i].thread = AnyThread

\* What a runner has is with it alone.
Apart ==
  /\ \A t \in Runners : ~Queued(ft[t]) /\ ~Queued(cb_fiber[t])
  /\ \A t, u \in Runners :
       t # u => /\ ft[t] = None \/ ft[t] # ft[u]
                /\ cb_fiber[t] = None \/ cb_fiber[t] # cb_fiber[u]
  /\ \A t, u \in Runners : cb_fiber[t] # None => cb_fiber[t] # ft[u]

\* What has not been scheduled, and what has been started, is in none of these.
Fresh ==
  /\ \A f \in UserFibers : dups[f] = 0 => ~Queued(f) /\ \A t \in Runners : ft[t] # f
  /\ \A c \in Cbs :
       /\ starts[c] <= 1
       /\ starts[c] = 1 => ~Queued(c) /\ \A t \in Runners : ft[t] # c
  /\ \A t \in Runners : cb_fiber[t] \notin UserFibers

\* The state of a fiber is what the runner that has it is doing with it.
StateOK ==
  \A t \in Runners :
    /\ pc[t] = "user" => m_state[Cur(t)] = "EXEC"
    /\ pc[t] \in {"switch", "back", "handle"} =>
         m_state[Cur(t)] \in {"READY", "TERM", "EXCEPT"}
    /\ cb_fiber[t] # None /\ ~(ft[t] = None /\ pc[t] \in OnFiber) =>
         m_state[cb_fiber[t]] = "INIT"

\* A fiber that has started and not ended is running, or it is queued or held.
Live ==
  \A f \in Fibers :
    /\ m_state[f] # "HOLD"
    /\ m_state[f] = "EXEC" => \E t \in Runners : pc[t] = "user" /\ Cur(t) = f
    /\ m_state[f] = "READY" => Queued(f) \/ \E t \in Runners : Held(t, f)

\* A callback that was started and has not ended is the body of a live fiber,
\* and a fiber of the application that was scheduled is there until it ends.
Bodies ==
  /\ \A c \in Cbs : starts[c] = 1 /\ c \notin ended =>
       \E f \in Fibers \ UserFibers : m_cb[f] = c /\ m_state[f] \in {"EXEC", "READY"}
  /\ \A f \in UserFibers :
       \/ f \in ended
       \/ /\ m_cb[f] = f /\ ~Dead(f)
          /\ dups[f] > 0 => Queued(f) \/ \E t \in Runners : ft[t] = f

PoolInv == NoWake /\ Distinct /\ Unbound /\ Apart /\ Fresh /\ StateOK /\ Live /\ Bodies

\* How far start() and stop() have come, and which runners may have left run().
Phases ==
  /\ m_autoStop = TRUE => main \notin {"ready", "started"}
  /\ \A t \in Runners : idleTerm[t] = TRUE => main \notin {"ready", "started"}
  /\ \A t \in Runners : pc[t] = "exit" => idleTerm[t] = TRUE
  /\ main # "ready" => \A t \in Threads : pc[t] # "off"
  /\ UseCaller = FALSE => main \notin {"test", "call"}
  /\ UseCaller = TRUE =>
       /\ main \notin {"call", "join", "done"} => pc[Root] = "off"
       /\ main \in {"join", "done"} => pc[Root] \in {"off", "exit"}
  /\ main = "done" => \A t \in Threads : pc[t] = "exit"

\* A runner that will still look at the queue.
Working(t) ==
  /\ pc[t] # "exit"
  /\ ~(pc[t] = "none" /\ idleTerm[t] = TRUE)
  /\ ~(pc[t] = "off" /\ main \in {"join", "done"})

\* As long as the queue holds something for any thread, somebody will look.
WorkSeen ==
  (\E i \in DOMAIN m_fibers : m_fibers[i].thread = AnyThread)
    => \E t \in Runners : Working(t)

(***************************************************************************)
(* A scheduler with one runner, whatever its fibers wait for.              *)
(***************************************************************************)
Solo == \A t, u \in Runners : t = u

Waitless == timers = {} /\ events = {}

\* m_pendingEventCount is at least the number of events, and the event that is
\* being triggered.
EventsCounted ==
  /\ IsFiniteSet(events)
  /\ m_pendingEventCount >= Cardinality(events)
       + (IF \E t \in Runners : pc[t] = "trigger" THEN 1 ELSE 0)

\* The runner is past the first half of stopping(), or has left, or has not
\* begun: nothing waits.
SoloOK ==
  /\ IO = FALSE => Waitless
  /\ \A t \in Runners :
       /\ pc[t] \in {"off", "check"} => Waitless
       /\ idleTerm[t] = TRUE => /\ pc[t] \in {"scan", "none", "exit"}
                                /\ m_fibers = <<>> /\ Waitless

-----------------------------------------------------------------------------
\* What schedule() does to the contents of the queue ...
LEMMA PushQueue ==
  ASSUME DataType, NEW x \in Items, NEW thr \in Runners \cup {AnyThread},
         m_fibers' = PushBack(x, thr)
  PROVE  /\ \A y : Queued(y)' <=> Queued(y) \/ y = x
         /\ Distinct /\ ~Queued(x) => Distinct'
         /\ Unbound /\ (x \in Fibers \ UserFibers => thr = AnyThread) => Unbound'
<1>1. m_fibers \in Seq(Entry)
  BY DEF DataType
<1>2. /\ Len(m_fibers) \in Nat /\ DOMAIN m_fibers = 1 .. Len(m_fibers)
      /\ DOMAIN m_fibers' = 1 .. (Len(m_fibers) + 1)
      /\ \A i \in 1 .. Len(m_fibers) : m_fibers'[i] = m_fibers[i]
      /\ m_fibers'[Len(m_fibers) + 1] = [item |-> x, thread |-> thr]
  BY <1>1 DEF PushBack
<1>3. \A y : Queued(y)' <=> Queued(y) \/ y = x
  BY <1>2 DEF Queued
<1>4. Distinct /\ ~Queued(x) => Distinct'
  BY <1>2 DEF Queued, Distinct
<1>5. Unbound /\ (x \in Fibers \ UserFibers => thr = AnyThread) => Unbound'
  BY <1>2 DEF Unbound
<1> QED BY <1>3, <1>4, <1>5

\* ... and what taking an entry does.
LEMMA TakeQueue ==
  ASSUME DataType, Distinct, NEW i \in DOMAIN m_fibers,
         m_fibers' = RemoveAt(m_fibers, i)
  PROVE  /\ \A y : Queued(y)' <=> Queued(y) /\ y # m_fibers[i].item
         /\ Distinct'
         /\ Unbound => Unbound'
         /\ \A j \in DOMAIN m_fibers' : \E k \in DOMAIN m_fibers : m_fibers'[j] = m_fibers[k]
<1>1. m_fibers \in Seq(Entry)
  BY DEF DataType
<1>2. /\ Len(m_fibers) \in Nat /\ DOMAIN m_fibers = 1 .. Len(m_fibers)
      /\ DOMAIN m_fibers' = 1 .. (Len(m_fibers) - 1)
      /\ \A j \in 1 .. (Len(m_fibers) - 1) :
           m_fibers'[j] = IF j < i THEN m_fibers[j] ELSE m_fibers[j + 1]
  BY <1>1, RemoveAtFacts
<1>3. ASSUME NEW j \in DOMAIN m_fibers'
      PROVE  \E k \in DOMAIN m_fibers \ {i} : m_fibers'[j] = m_fibers[k]
  BY <1>2
<1>4. ASSUME NEW k \in DOMAIN m_fibers \ {i}
      PROVE  \E j \in DOMAIN m_fibers' : m_fibers'[j] = m_fibers[k]
  <2>1. CASE k < i
    BY <1>2, <2>1
  <2>2. CASE k > i
    <3>1. k - 1 \in DOMAIN m_fibers' /\ ~(k - 1 < i) /\ (k - 1) + 1 = k
      BY <1>2, <2>2
    <3> QED BY <1>2, <3>1
  <2> QED BY <1>2, <2>1, <2>2
<1>5. \A y : Queued(y)' <=> Queued(y) /\ y # m_fibers[i].item
  BY <1>3, <1>4 DEF Queued, Distinct
<1>6. Distinct'
  <2> DEFINE K(j) == IF j < i THEN j ELSE j + 1
  <2>1. \A j \in DOMAIN m_fibers' : K(j) \in DOMAIN m_fibers /\ m_fibers'[j] = m_fibers[K(j)]
    BY <1>2
  <2>2. \A j, k \in DOMAIN m_fibers' : K(j) = K(k) => j = k
    BY <1>2
  <2> HIDE DEF K
  <2> QED BY <2>1, <2>2 DEF Distinct
<1>7. Unbound => Unbound'
  BY <1>3 DEF Unbound
<1> QED BY <1>3, <1>5, <1>6, <1>7

\* The queue is as it was.
LEMMA SameQueue ==
  ASSUME UNCHANGED m_fibers
  PROVE  /\ \A y : Queued(y)' <=> Queued(y)
         /\ Distinct => Distinct'
         /\ Unbound => Unbound'
BY DEF Queued, Distinct, Unbound

\* Null is not an entry.
LEMMA NoneQueued ==
  ASSUME DataType
  PROVE  ~Queued(None)
BY QueueEntry, ItemFacts DEF Queued

\* Steps of the controlling thread, of the idle fibers, and of a runner between
\* swapIn and the handling: no fiber or callback goes anywhere.
LEMMA QuietPool ==
  ASSUME DataType, PoolInv,
         UNCHANGED <<m_fibers, m_state, m_cb, ft, cb_fiber, timers, events, fired,
                     dups, starts, ended>>,
         \A t \in Runners :
           /\ pc'[t] # "armed"
           /\ (pc'[t] = "user") <=> (pc[t] = "user")
           /\ (pc'[t] \in {"switch", "back", "handle"})
                <=> (pc[t] \in {"switch", "back", "handle"})
  PROVE  PoolInv'
<1>1. \A t \in Runners : /\ (pc'[t] \in OnFiber) <=> (pc[t] \in OnFiber)
                         /\ Cur(t)' = Cur(t)
  BY DEF OnFiber, Cur
<1>2. NoWake'
  BY SameQueue DEF PoolInv, NoWake
<1>3. Distinct' /\ Unbound'
  BY SameQueue DEF PoolInv
<1>4. Apart'
  BY SameQueue DEF PoolInv, Apart
<1>5. Fresh'
  BY SameQueue DEF PoolInv, Fresh
<1>6. StateOK'
  BY <1>1 DEF PoolInv, StateOK
<1>7. Live'
  BY <1>1, SameQueue DEF PoolInv, Live, Held
<1>8. Bodies'
  BY SameQueue DEF PoolInv, Bodies, Dead
<1> QED BY <1>2, <1>3, <1>4, <1>5, <1>6, <1>7, <1>8 DEF PoolInv

\* A callback or a fiber of the application is scheduled for the first time.
LEMMA SubmitPool ==
  ASSUME TypeInv, ReadyOnce, PoolInv, NEW x \in Cbs \cup UserFibers, ~Queued(x),
         \A t \in Runners : ft[t] # x /\ cb_fiber[t] # x,
         x \in Cbs => starts[x] = 0 /\ UNCHANGED dups,
         x \in UserFibers => dups' = [dups EXCEPT ![x] = @ + 1],
         m_fibers' = PushBack(x, Pin[x]),
         UNCHANGED <<m_state, m_cb, ft, cb_fiber, timers, events, fired, pc, starts,
                     ended>>
  PROVE  PoolInv'
<1>1. /\ x \in Items /\ Pin[x] \in Runners \cup {AnyThread}
      /\ x \notin Fibers \ UserFibers /\ x \notin WakeCbs
  BY SchedulerAssumption, ItemFacts DEF SchedulerAssumption
<1>2. /\ \A y : Queued(y)' <=> Queued(y) \/ y = x
      /\ Distinct' /\ Unbound'
  BY <1>1, PushQueue DEF PoolInv, TypeInv
<1>3. \A t \in Runners : Cur(t)' = Cur(t)
  BY DEF Cur
<1>4. NoWake'
  BY <1>1, <1>2 DEF PoolInv, NoWake
<1>5. Apart'
  BY <1>2 DEF PoolInv, Apart
<1>6. Fresh'
  BY <1>2, SchedulerAssumption DEF PoolInv, Fresh, TypeInv, DataType, SchedulerAssumption
<1>7. StateOK'
  BY <1>3 DEF PoolInv, StateOK
<1>8. Live'
  BY <1>2, <1>3 DEF PoolInv, Live, Held
<1>9. Bodies'
  BY <1>2, SchedulerAssumption DEF PoolInv, Bodies, Dead, TypeInv, DataType,
     SchedulerAssumption
<1> QED BY <1>2, <1>4, <1>5, <1>6, <1>7, <1>8, <1>9 DEF PoolInv

\* A runner takes an entry.
LEMMA TakePool ==
  ASSUME TypeInv, PoolInv, NEW t \in Runners, Take(t)
  PROVE  PoolInv'
<1>1. PICK i \in DOMAIN m_fibers :
        /\ ft' = [ft EXCEPT ![t] = m_fibers[i].item]
        /\ m_fibers' = RemoveAt(m_fibers, i)
  BY DEF Take
<1>0. PICK x : x = m_fibers[i].item
  OBVIOUS
<1>2. /\ \A y : Queued(y)' <=> Queued(y) /\ y # x
      /\ Distinct' /\ Unbound'
  BY <1>0, <1>1, TakeQueue DEF PoolInv, TypeInv
<1>3. x \in Items /\ Queued(x) /\ x # None
  BY <1>0, QueueEntry, ItemFacts DEF Queued, TypeInv
<1>4. /\ pc[t] = "scan" /\ pc' = [pc EXCEPT ![t] = "got"]
      /\ ft[t] = None /\ ft' = [ft EXCEPT ![t] = x]
      /\ UNCHANGED <<m_state, m_cb, cb_fiber, timers, events, fired, dups, starts, ended>>
      /\ pc \in [Runners -> RunnerPc] /\ ft \in [Runners -> Items \cup {None}]
  BY <1>0, <1>1 DEF Take, Goto, TypeInv, RunnerRefs, Busy, BusyPc, DataType, fibers, wakes,
     history
<1>5. NoWake'
  BY <1>2, <1>3, <1>4 DEF PoolInv, NoWake
<1>6. Apart'
  BY <1>2, <1>3, <1>4 DEF PoolInv, Apart
<1>7. Fresh'
  BY <1>2, <1>3, <1>4 DEF PoolInv, Fresh
<1>8. StateOK'
  BY <1>3, <1>4 DEF PoolInv, StateOK, OnFiber, Cur
<1>9. Live'
  <2>1. \A u \in Runners \ {t} : /\ ft'[u] = ft[u] /\ pc'[u] = pc[u] /\ Cur(u)' = Cur(u)
                                 /\ \A f : Held(u, f)' <=> Held(u, f)
    BY <1>4 DEF Cur, Held
  <2>2. \A f \in Fibers : ~Held(t, f)
    BY <1>4, ItemFacts DEF Held, OnFiber
  <2>3. Held(t, x)'
    BY <1>4 DEF Held
  <2> SUFFICES ASSUME NEW f \in Fibers
               PROVE  /\ m_state[f] # "HOLD"
                      /\ m_state[f] = "EXEC" =>
                           \E u \in Runners : pc'[u] = "user" /\ Cur(u)' = f
                      /\ m_state[f] = "READY" =>
                           Queued(f)' \/ \E u \in Runners : Held(u, f)'
    BY <1>4 DEF Live
  <2>4. m_state[f] # "HOLD"
    BY DEF PoolInv, Live
  <2>5. ASSUME m_state[f] = "EXEC"
        PROVE  \E u \in Runners : pc'[u] = "user" /\ Cur(u)' = f
    <3>1. PICK u \in Runners : pc[u] = "user" /\ Cur(u) = f
      BY <2>5 DEF PoolInv, Live
    <3> QED BY <1>4, <2>1, <3>1
  <2>6. ASSUME m_state[f] = "READY"
        PROVE  Queued(f)' \/ \E u \in Runners : Held(u, f)'
    BY <1>2, <2>1, <2>2, <2>3, <2>6 DEF PoolInv, Live
  <2> QED BY <2>4, <2>5, <2>6
<1>10. Bodies'
  <2>1. \A c \in Cbs : starts'[c] = 1 /\ c \notin ended' =>
          \E f \in Fibers \ UserFibers : m_cb'[f] = c /\ m_state'[f] \in {"EXEC", "READY"}
    BY <1>4 DEF PoolInv, Bodies
  <2>2. \A f \in UserFibers : (\E u \in Runners : ft[u] = f) =>
                               \E u \in Runners : ft'[u] = f
    BY <1>4, ItemFacts
  <2>3. \A f \in UserFibers : Queued(f) => Queued(f)' \/ \E u \in Runners : ft'[u] = f
    BY <1>2, <1>4
  <2>4. \A f \in UserFibers :
          \/ f \in ended'
          \/ /\ m_cb'[f] = f /\ ~Dead(f)'
             /\ dups'[f] > 0 => Queued(f)' \/ \E u \in Runners : ft'[u] = f
    BY <1>4, <2>2, <2>3 DEF PoolInv, Bodies, Dead
  <2> QED BY <2>1, <2>4 DEF Bodies
<1> QED BY <1>2, <1>5, <1>6, <1>7, <1>8, <1>9, <1>10 DEF PoolInv

\* A runner that has taken a finished fiber drops it.
LEMMA DropPool ==
  ASSUME TypeInv, PoolInv, NEW t \in Runners, DropDead(t)
  PROVE  PoolInv'
<1>1. /\ pc[t] = "got" /\ pc' = [pc EXCEPT ![t] = "scan"]
      /\ ft[t] \in Fibers /\ Dead(ft[t]) /\ ft' = [ft EXCEPT ![t] = None]
      /\ UNCHANGED <<m_state, m_cb, cb_fiber, timers, events, fired, dups, starts,
                     ended, m_fibers>>
      /\ pc \in [Runners -> RunnerPc] /\ ft \in [Runners -> Items \cup {None}]
      /\ None \notin Items /\ Fibers \subseteq Items
  BY ItemFacts DEF DropDead, Goto, TypeInv, DataType, fibers, wakes, history
<1>2. NoWake'
  BY <1>1, SameQueue, ItemFacts DEF PoolInv, NoWake, Items
<1>3. Apart'
  BY <1>1, SameQueue, NoneQueued DEF PoolInv, Apart, TypeInv
<1>4. Fresh'
  BY <1>1, SameQueue, ItemFacts DEF PoolInv, Fresh
<1>5. StateOK'
  BY <1>1 DEF PoolInv, StateOK, OnFiber, Cur
<1>6. Live'
  BY <1>1, SameQueue DEF PoolInv, Live, Held, OnFiber, Cur, Dead
<1>7. Bodies'
  BY <1>1, SameQueue DEF PoolInv, Bodies, Dead
<1> QED BY <1>1, <1>2, <1>3, <1>4, <1>5, <1>6, <1>7, SameQueue DEF PoolInv

\* A runner enters the fiber that it has taken.
LEMMA SwapInFiberPool ==
  ASSUME TypeInv, PoolInv, NEW t \in Runners, SwapInFiber(t)
  PROVE  PoolInv'
<1>0. PICK f : f = ft[t]
  OBVIOUS
<1>1. /\ pc[t] = "got" /\ pc' = [pc EXCEPT ![t] = "user"]
      /\ f \in Fibers /\ f # None /\ ft[t] = f /\ ~Dead(f)
      /\ m_state' = [m_state EXCEPT ![f] = "EXEC"]
      /\ UNCHANGED <<m_cb, ft, cb_fiber, timers, events, fired, dups, starts, ended,
                     m_fibers>>
      /\ pc \in [Runners -> RunnerPc] /\ m_state \in [Fibers -> State]
  BY <1>0, ItemFacts DEF SwapInFiber, Goto, TypeInv, DataType, fibers, wakes, history, locals
<1>2. /\ \A u \in Runners \ {t} : /\ pc'[u] = pc[u] /\ Cur(u)' = Cur(u)
                                  /\ Cur(u) # f /\ cb_fiber[u] # f
      /\ Cur(t)' = f /\ Cur(t) = f /\ cb_fiber[t] # f
      /\ \A u \in Runners : \A g : Held(u, g) => Held(u, g)'
  BY <1>1 DEF PoolInv, Apart, Cur, Held, OnFiber
<1>3. NoWake'
  BY <1>1, SameQueue DEF PoolInv, NoWake
<1>4. Apart' /\ Fresh'
  BY <1>1, SameQueue DEF PoolInv, Apart, Fresh
<1>5. StateOK'
  <2> SUFFICES ASSUME NEW u \in Runners
               PROVE  /\ pc'[u] = "user" => m_state'[Cur(u)'] = "EXEC"
                      /\ pc'[u] \in {"switch", "back", "handle"} =>
                           m_state'[Cur(u)'] \in {"READY", "TERM", "EXCEPT"}
                      /\ cb_fiber[u] # None /\ ~(ft[u] = None /\ pc'[u] \in OnFiber) =>
                           m_state'[cb_fiber[u]] = "INIT"
    BY <1>1 DEF StateOK
  <2>1. CASE u = t
    BY <1>1, <1>2, <2>1 DEF PoolInv, StateOK, TypeInv, DataType, OnFiber
  <2>2. CASE u # t
    BY <1>1, <1>2, <2>2 DEF PoolInv, StateOK, TypeInv, DataType, RunnerRefs, OnStack
  <2> QED BY <2>1, <2>2
<1>6. Live'
  BY <1>1, <1>2, SameQueue DEF PoolInv, Live
<1>7. Bodies'
  BY <1>1, SameQueue, ItemFacts DEF PoolInv, Bodies, Dead
<1> QED BY <1>1, <1>3, <1>4, <1>5, <1>6, <1>7, SameQueue DEF PoolInv

\* A runner enters a fiber for the callback that it has taken.
LEMMA SwapInCbPool ==
  ASSUME TypeInv, PoolInv, NEW t \in Runners, SwapInCb(t)
  PROVE  PoolInv'
<1>1. PICK f \in Fibers :
       /\ IF cb_fiber[t] # None THEN f = cb_fiber[t] ELSE Free(f)
       /\ m_state' = [m_state EXCEPT ![f] = "EXEC"]
       /\ m_cb' = [m_cb EXCEPT ![f] = ft[t]]
       /\ cb_fiber' = [cb_fiber EXCEPT ![t] = f]
  BY DEF SwapInCb
<1>2. PICK c : c = ft[t]
  OBVIOUS
<1>3. /\ pc[t] = "got" /\ pc' = [pc EXCEPT ![t] = "user"]
      /\ c \in Cbs /\ c # None /\ c \notin Fibers /\ c \notin WakeCbs /\ f # None
      /\ ft' = [ft EXCEPT ![t] = None] /\ ft[t] = c
      /\ m_cb' = [m_cb EXCEPT ![f] = c]
      /\ starts' = [d \in Cbs |-> IF d = c THEN starts[d] + 1 ELSE starts[d]]
      /\ UNCHANGED <<timers, events, fired, dups, ended, m_fibers>>
      /\ pc \in [Runners -> RunnerPc] /\ m_state \in [Fibers -> State]
      /\ ft \in [Runners -> Items \cup {None}] /\ starts \in [Cbs -> Nat]
      /\ cb_fiber \in [Runners -> Fibers \cup {None}] /\ m_cb \in [Fibers -> Items \cup {None}]
  BY <1>1, <1>2, ItemFacts, SchedulerAssumption
  DEF SwapInCb, Goto, TypeInv, DataType, wakes, history, PoolInv, NoWake, SchedulerAssumption
<1>4. /\ ~Queued(f) /\ f \notin UserFibers
      /\ \A u \in Runners : ft[u] # f
      /\ \A u \in Runners \ {t} : cb_fiber[u] # f
      /\ m_state[f] \notin {"EXEC", "READY", "HOLD"}
  BY <1>1, <1>3 DEF Free, PoolInv, Apart, Fresh, StateOK
<1>5. /\ \A u \in Runners \ {t} : /\ pc'[u] = pc[u] /\ Cur(u)' = Cur(u)
                                  /\ ft'[u] = ft[u] /\ cb_fiber'[u] = cb_fiber[u]
                                  /\ Cur(u) # f
                                  /\ \A g : Held(u, g) => Held(u, g)'
      /\ Cur(t)' = f
      /\ \A g \in Fibers : ~Held(t, g)
  BY <1>1, <1>3, <1>4 DEF Cur, Held
<1>6. NoWake'
  BY <1>1, <1>3, SameQueue, ItemFacts DEF PoolInv, NoWake, Items
<1>7. Apart'
  BY <1>1, <1>3, <1>4, SameQueue, NoneQueued DEF PoolInv, Apart, TypeInv
<1>8. Fresh'
  BY <1>1, <1>3, <1>4, SameQueue, ItemFacts DEF PoolInv, Fresh, Apart
<1>9. StateOK'
  <2> SUFFICES ASSUME NEW u \in Runners
               PROVE  /\ pc'[u] = "user" => m_state'[Cur(u)'] = "EXEC"
                      /\ pc'[u] \in {"switch", "back", "handle"} =>
                           m_state'[Cur(u)'] \in {"READY", "TERM", "EXCEPT"}
                      /\ cb_fiber'[u] # None /\ ~(ft'[u] = None /\ pc'[u] \in OnFiber) =>
                           m_state'[cb_fiber'[u]] = "INIT"
    BY DEF StateOK
  <2>1. CASE u = t
    BY <1>1, <1>3, <1>5, <2>1 DEF OnFiber
  <2>2. CASE u # t
    BY <1>1, <1>3, <1>4, <1>5, <2>2 DEF PoolInv, StateOK, TypeInv, DataType, RunnerRefs, OnStack
  <2> QED BY <2>1, <2>2
<1>10. Live'
  BY <1>1, <1>3, <1>4, <1>5, SameQueue DEF PoolInv, Live
<1>11. Bodies'
  <2>1. ASSUME NEW d \in Cbs, starts'[d] = 1, d \notin ended'
        PROVE  \E g \in Fibers \ UserFibers : m_cb'[g] = d /\ m_state'[g] \in {"EXEC", "READY"}
    <3>1. CASE d = c
      BY <1>1, <1>3, <1>4, <3>1
    <3>2. CASE d # c
      BY <1>1, <1>3, <1>4, <2>1, <3>2 DEF PoolInv, Bodies
    <3> QED BY <3>1, <3>2
  <2>2. ASSUME NEW g \in UserFibers
        PROVE  \/ g \in ended'
               \/ /\ m_cb'[g] = g /\ ~Dead(g)'
                  /\ dups'[g] > 0 => Queued(g)' \/ \E u \in Runners : ft'[u] = g
    <3>1. g # f /\ g # c /\ g \in Fibers
      BY <1>3, <1>4, ItemFacts
    <3>2. m_cb'[g] = m_cb[g] /\ m_state'[g] = m_state[g]
      BY <1>1, <1>3, <3>1
    <3>3. (\E u \in Runners : ft[u] = g) => \E u \in Runners : ft'[u] = g
      BY <1>3, <3>1
    <3> QED BY <1>3, <3>2, <3>3, SameQueue DEF PoolInv, Bodies, Dead
  <2> QED BY <2>1, <2>2 DEF Bodies
<1> QED BY <1>3, <1>6, <1>7, <1>8, <1>9, <1>10, <1>11, SameQueue DEF PoolInv

\* The fiber that a runner is on yields or ends: its state changes, nothing moves.
LEMMA LeavePool ==
  ASSUME TypeInv, PoolInv, NEW t \in Runners, Goto(t, "user", "switch"),
         NEW st \in {"READY", "TERM", "EXCEPT"},
         m_state' = [m_state EXCEPT ![Cur(t)] = st],
         \/ st = "READY" /\ UNCHANGED <<m_cb, ended>>
         \/ /\ st # "READY" /\ ended' = ended \cup {m_cb[Cur(t)]}
            /\ m_cb' = m_cb \/ m_cb' = [m_cb EXCEPT ![Cur(t)] = None],
         UNCHANGED <<m_fibers, ft, cb_fiber, timers, events, fired, dups, starts>>
  PROVE  PoolInv'
<1>0. PICK f : f = Cur(t)
  OBVIOUS
<1>1. /\ pc[t] = "user" /\ pc' = [pc EXCEPT ![t] = "switch"]
      /\ f \in Fibers /\ f # None /\ Cur(t) = f
      /\ m_state' = [m_state EXCEPT ![f] = st]
      /\ \/ st = "READY" /\ UNCHANGED <<m_cb, ended>>
         \/ /\ st # "READY" /\ ended' = ended \cup {m_cb[f]}
            /\ m_cb' = m_cb \/ m_cb' = [m_cb EXCEPT ![f] = None]
      /\ pc \in [Runners -> RunnerPc] /\ m_state \in [Fibers -> State]
      /\ m_cb \in [Fibers -> Items \cup {None}]
  BY <1>0, ItemFacts DEF Goto, TypeInv, DataType, RunnerRefs, OnStack
<1>2. /\ \A u \in Runners \ {t} : /\ pc'[u] = pc[u] /\ Cur(u)' = Cur(u)
                                  /\ Cur(u) # f /\ cb_fiber[u] # f
      /\ Cur(t)' = f /\ (ft[t] # None => cb_fiber[t] # f)
      /\ ~Queued(f)
      /\ \A u \in Runners : \A g : Held(u, g) => Held(u, g)'
      /\ Held(t, f)'
  BY <1>1 DEF PoolInv, Apart, Cur, Held, OnFiber
<1>3. NoWake'
  BY <1>1, SameQueue, ItemFacts DEF PoolInv, NoWake, Items
<1>4. Apart' /\ Fresh'
  BY <1>1, SameQueue DEF PoolInv, Apart, Fresh
<1>5. StateOK'
  <2> SUFFICES ASSUME NEW u \in Runners
               PROVE  /\ pc'[u] = "user" => m_state'[Cur(u)'] = "EXEC"
                      /\ pc'[u] \in {"switch", "back", "handle"} =>
                           m_state'[Cur(u)'] \in {"READY", "TERM", "EXCEPT"}
                      /\ cb_fiber[u] # None /\ ~(ft[u] = None /\ pc'[u] \in OnFiber) =>
                           m_state'[cb_fiber[u]] = "INIT"
    BY DEF StateOK
  <2>1. CASE u = t
    BY <1>1, <1>2, <2>1 DEF PoolInv, StateOK, TypeInv, DataType, OnFiber
  <2>2. CASE u # t
    BY <1>1, <1>2, <2>2 DEF PoolInv, StateOK, TypeInv, DataType, RunnerRefs, OnStack
  <2> QED BY <2>1, <2>2
<1>6. Live'
  BY <1>1, <1>2, SameQueue DEF PoolInv, Live
<1>7. Bodies'
  <2>1. ASSUME NEW c \in Cbs, starts'[c] = 1, c \notin ended'
        PROVE  \E g \in Fibers \ UserFibers : m_cb'[g] = c /\ m_state'[g] \in {"EXEC", "READY"}
    <3>1. PICK g \in Fibers \ UserFibers : m_cb[g] = c /\ m_state[g] \in {"EXEC", "READY"}
      BY <1>1, <2>1 DEF PoolInv, Bodies
    <3>2. CASE g = f
      BY <1>1, <2>1, <3>1, <3>2
    <3>3. CASE g # f
      BY <1>1, <3>1, <3>3
    <3> QED BY <3>2, <3>3
  <2>2. ASSUME NEW g \in UserFibers
        PROVE  \/ g \in ended'
               \/ /\ m_cb'[g] = g /\ ~Dead(g)'
                  /\ dups'[g] > 0 => Queued(g)' \/ \E u \in Runners : ft'[u] = g
    <3>1. CASE g \in ended
      BY <1>1, <3>1
    <3>2. CASE g \notin ended /\ g = f
      BY <1>1, <3>2, SameQueue DEF PoolInv, Bodies, Dead
    <3>3. CASE g \notin ended /\ g # f
      BY <1>1, <3>3, SameQueue, ItemFacts DEF PoolInv, Bodies, Dead
    <3> QED BY <3>1, <3>2, <3>3
  <2> QED BY <2>1, <2>2 DEF Bodies
<1> QED BY <1>3, <1>4, <1>5, <1>6, <1>7, SameQueue DEF PoolInv

\* A fiber that was taken from the queue comes back: a READY one is queued again.
LEMMA HandleFiberPool ==
  ASSUME TypeInv, PoolInv, NEW t \in Runners, HandleFiber(t)
  PROVE  PoolInv'
<1>0. PICK f : f = ft[t]
  OBVIOUS
<1>1. /\ pc[t] = "handle" /\ pc' = [pc EXCEPT ![t] = "scan"]
      /\ f \in Fibers /\ f # None /\ Cur(t) = f /\ ft[t] = f
      /\ m_state[f] \in {"READY", "TERM", "EXCEPT"}
      /\ m_fibers' = IF m_state[f] = "READY" THEN PushBack(f, AnyThread) ELSE m_fibers
      /\ UNCHANGED <<m_state, m_cb, cb_fiber, timers, events, fired, dups, starts, ended>>
      /\ ft' = [ft EXCEPT ![t] = None]
      /\ pc \in [Runners -> RunnerPc] /\ ft \in [Runners -> Items \cup {None}]
  <2>1. /\ pc[t] = "handle" /\ f # None /\ Cur(t) = f /\ ft[t] = f
    BY <1>0 DEF HandleFiber, Goto, Cur
  <2>2. f \in Fibers
    BY <2>1 DEF TypeInv, RunnerRefs
  <2>3. m_state[f] \in {"READY", "TERM", "EXCEPT"}
    BY <2>1 DEF PoolInv, StateOK
  <2> QED BY <1>0, <2>1, <2>2, <2>3
    DEF HandleFiber, Goto, TypeInv, DataType, wakes, history, Dead
<1>2. /\ \A y : Queued(y)' <=> Queued(y) \/ (y = f /\ m_state[f] = "READY")
      /\ Distinct' /\ Unbound'
  <2>1. CASE m_state[f] = "READY"
    <3>1. ~Queued(f)
      BY <1>1 DEF PoolInv, Apart
    <3> QED BY <1>1, <2>1, <3>1, PushQueue, ItemFacts DEF PoolInv, TypeInv
  <2>2. CASE m_state[f] # "READY"
    BY <1>1, <2>2, SameQueue DEF PoolInv
  <2> QED BY <2>1, <2>2
<1>3. /\ \A u \in Runners \ {t} : /\ pc'[u] = pc[u] /\ Cur(u)' = Cur(u) /\ ft'[u] = ft[u]
                                  /\ \A g : Held(u, g) => Held(u, g)'
      /\ \A u \in Runners : cb_fiber[u] # f
      /\ \A u \in Runners \ {t} : ft[u] # f
      /\ \A g \in Fibers : Held(t, g) => g = f
  BY <1>1 DEF PoolInv, Apart, Cur, Held, OnFiber
<1>4. NoWake'
  BY <1>1, <1>2, ItemFacts, SchedulerAssumption
  DEF PoolInv, NoWake, Items, SchedulerAssumption
<1>5. Apart'
  BY <1>1, <1>2, <1>3, NoneQueued DEF PoolInv, Apart, TypeInv
<1>6. Fresh'
  BY <1>1, <1>2, <1>3, ItemFacts, SchedulerAssumption
  DEF PoolInv, Fresh, SchedulerAssumption
<1>7. StateOK'
  BY <1>1, <1>3 DEF PoolInv, StateOK, OnFiber
<1>8. Live'
  BY <1>1, <1>2, <1>3 DEF PoolInv, Live
<1>9. Bodies'
  <2>1. ASSUME NEW g \in UserFibers
        PROVE  \/ g \in ended'
               \/ /\ m_cb'[g] = g /\ ~Dead(g)'
                  /\ dups'[g] > 0 => Queued(g)' \/ \E u \in Runners : ft'[u] = g
    <3>1. CASE g # f
      BY <1>1, <1>2, <1>3, <3>1 DEF PoolInv, Bodies, Dead
    <3>2. CASE g = f
      BY <1>1, <1>2, <3>2 DEF PoolInv, Bodies, Dead
    <3> QED BY <3>1, <3>2
  <2> QED BY <1>1, <2>1 DEF PoolInv, Bodies
<1> QED BY <1>2, <1>4, <1>5, <1>6, <1>7, <1>8, <1>9 DEF PoolInv

\* The fiber of a callback comes back: a READY one is queued again and no longer
\* the runner's, a finished one is reset and kept.
LEMMA HandleCbPool ==
  ASSUME TypeInv, PoolInv, NEW t \in Runners, HandleCb(t)
  PROVE  PoolInv'
<1>0. PICK f : f = cb_fiber[t]
  OBVIOUS
<1>1. /\ pc[t] = "handle" /\ pc' = [pc EXCEPT ![t] = "scan"]
      /\ f \in Fibers /\ f # None /\ Cur(t) = f /\ ft[t] = None /\ cb_fiber[t] = f
      /\ m_state[f] \in {"READY", "TERM", "EXCEPT"}
      /\ UNCHANGED <<ft, timers, events, fired, dups, starts, ended>>
      /\ pc \in [Runners -> RunnerPc] /\ ft \in [Runners -> Items \cup {None}]
      /\ cb_fiber \in [Runners -> Fibers \cup {None}] /\ m_cb \in [Fibers -> Items \cup {None}]
      /\ m_state \in [Fibers -> State]
  <2>1. /\ pc[t] = "handle" /\ Cur(t) = f /\ ft[t] = None
    BY <1>0 DEF HandleCb, Goto, Cur
  <2>2. f \in Fibers
    BY <2>1 DEF TypeInv, RunnerRefs
  <2>3. m_state[f] \in {"READY", "TERM", "EXCEPT"}
    BY <2>1 DEF PoolInv, StateOK
  <2> QED BY <1>0, <2>1, <2>2, <2>3, ItemFacts
    DEF HandleCb, Goto, TypeInv, DataType, wakes, history
<1>2. /\ \A u \in Runners \ {t} : /\ pc'[u] = pc[u]
                                  /\ cb_fiber[u] # f /\ Cur(u) # f
      /\ \A u \in Runners : ft[u] # f
      /\ \A g \in Fibers : Held(t, g) => g = f
      /\ ~Queued(f) /\ f \notin UserFibers
  <2>1. /\ \A u \in Runners \ {t} : cb_fiber[u] # f
        /\ \A u \in Runners : ft[u] # f
        /\ ~Queued(f) /\ f \notin UserFibers
    BY <1>1 DEF PoolInv, Apart, Fresh
  <2>2. \A u \in Runners \ {t} : pc'[u] = pc[u] /\ Cur(u) # f
    BY <1>1, <2>1 DEF Cur
  <2>3. \A g \in Fibers : Held(t, g) => g = f
    BY <1>1, ItemFacts DEF Held
  <2> QED BY <2>1, <2>2, <2>3
<1>3. CASE m_state[f] = "READY"
  <2>1. /\ m_fibers' = PushBack(f, AnyThread) /\ UNCHANGED <<m_state, m_cb>>
        /\ cb_fiber' = [cb_fiber EXCEPT ![t] = None]
    BY <1>0, <1>3 DEF HandleCb, Dead, Keeps
  <2>2. /\ \A y : Queued(y)' <=> Queued(y) \/ y = f
        /\ Distinct' /\ Unbound'
    BY <1>1, <1>2, <2>1, PushQueue, ItemFacts DEF PoolInv, TypeInv
  <2>3. \A u \in Runners \ {t} : /\ Cur(u)' = Cur(u) /\ cb_fiber'[u] = cb_fiber[u]
                                 /\ \A g : Held(u, g) => Held(u, g)'
    BY <1>1, <1>2, <2>1 DEF Cur, Held
  <2>4. NoWake'
    BY <1>1, <2>1, <2>2, SchedulerAssumption DEF PoolInv, NoWake, SchedulerAssumption
  <2>5. Apart'
    BY <1>1, <1>2, <2>1, <2>2, NoneQueued DEF PoolInv, Apart, TypeInv
  <2>6. Fresh'
    BY <1>1, <1>2, <2>1, <2>2, ItemFacts, SchedulerAssumption
    DEF PoolInv, Fresh, SchedulerAssumption
  <2>7. StateOK'
    BY <1>1, <1>2, <2>1, <2>3 DEF PoolInv, StateOK, OnFiber
  <2>8. Live'
    BY <1>1, <1>2, <2>1, <2>2, <2>3 DEF PoolInv, Live
  <2>9. Bodies'
    BY <1>1, <2>1, <2>2 DEF PoolInv, Bodies, Dead
  <2> QED BY <2>2, <2>4, <2>5, <2>6, <2>7, <2>8, <2>9 DEF PoolInv
<1>4. CASE m_state[f] # "READY"
  <2>1. /\ UNCHANGED <<m_fibers, cb_fiber>>
        /\ m_state' = [m_state EXCEPT ![f] = "INIT"]
        /\ m_cb' = [m_cb EXCEPT ![f] = None]
    BY <1>0, <1>1, <1>4 DEF HandleCb, Dead, Keeps
  <2>3. \A u \in Runners \ {t} : /\ Cur(u)' = Cur(u)
                                 /\ \A g : Held(u, g) => Held(u, g)'
    BY <1>1, <1>2, <2>1 DEF Cur, Held
  <2>4. NoWake'
    BY <1>1, <2>1, SameQueue, ItemFacts DEF PoolInv, NoWake, Items
  <2>5. Apart' /\ Fresh'
    BY <1>1, <2>1, SameQueue DEF PoolInv, Apart, Fresh
  <2>7. StateOK'
    <3> SUFFICES ASSUME NEW u \in Runners
                 PROVE  /\ pc'[u] = "user" => m_state'[Cur(u)'] = "EXEC"
                        /\ pc'[u] \in {"switch", "back", "handle"} =>
                             m_state'[Cur(u)'] \in {"READY", "TERM", "EXCEPT"}
                        /\ cb_fiber'[u] # None /\ ~(ft'[u] = None /\ pc'[u] \in OnFiber) =>
                             m_state'[cb_fiber'[u]] = "INIT"
      BY DEF StateOK
    <3>1. CASE u = t
      BY <1>1, <2>1, <3>1
    <3>2. CASE u # t
      BY <1>1, <1>2, <2>1, <2>3, <3>2
      DEF PoolInv, StateOK, TypeInv, DataType, RunnerRefs, OnStack
    <3> QED BY <3>1, <3>2
  <2>8. Live'
    BY <1>1, <1>2, <2>1, <2>3, SameQueue DEF PoolInv, Live
  <2>9. Bodies'
    <3>1. ASSUME NEW c \in Cbs, starts'[c] = 1, c \notin ended'
          PROVE  \E g \in Fibers \ UserFibers : m_cb'[g] = c /\ m_state'[g] \in {"EXEC", "READY"}
      <4>1. PICK g \in Fibers \ UserFibers : m_cb[g] = c /\ m_state[g] \in {"EXEC", "READY"}
        BY <1>1, <3>1 DEF PoolInv, Bodies
      <4> QED BY <1>1, <1>4, <2>1, <4>1
    <3>2. ASSUME NEW g \in UserFibers
          PROVE  \/ g \in ended'
                 \/ /\ m_cb'[g] = g /\ ~Dead(g)'
                    /\ dups'[g] > 0 => Queued(g)' \/ \E u \in Runners : ft'[u] = g
      <4>1. g # f /\ g \in Fibers
        BY <1>2, ItemFacts
      <4> QED BY <1>1, <2>1, <4>1, SameQueue DEF PoolInv, Bodies, Dead
    <3> QED BY <3>1, <3>2 DEF Bodies
  <2> QED BY <2>1, <2>4, <2>5, <2>7, <2>8, <2>9, SameQueue DEF PoolInv
<1> QED BY <1>3, <1>4

-----------------------------------------------------------------------------
\* The constructor establishes the invariant ...
LEMMA PoolInit == Init => PoolInv
<1> SUFFICES ASSUME Init PROVE PoolInv
  OBVIOUS
<1>1. \A x : ~Queued(x)
  BY DEF Init, Queued
<1>2. \A t \in Runners : /\ ft[t] = None /\ cb_fiber[t] = None /\ fired[t] = None
                         /\ pc[t] = "off" /\ Cur(t) = None
  BY DEF Init, Cur
<1>3. NoWake
  BY <1>1, <1>2, ItemFacts, SchedulerAssumption DEF Init, NoWake, Items, SchedulerAssumption
<1>4. Distinct /\ Unbound
  BY DEF Init, Distinct, Unbound
<1>5. Apart /\ Fresh
  BY <1>1, <1>2, ItemFacts DEF Init, Apart, Fresh
<1>6. StateOK
  BY <1>2 DEF StateOK
<1>7. Live
  BY DEF Init, Live
<1>8. Bodies
  BY <1>1, ItemFacts DEF Init, Bodies, Dead
<1> QED BY <1>3, <1>4, <1>5, <1>6, <1>7, <1>8 DEF PoolInv

\* ... and every step of every thread preserves it.
LEMMA PoolStep ==
  ASSUME TypeInv, ReadyOnce, PoolInv, [Next]_vars
  PROVE  PoolInv'
<1> DEFINE Still == UNCHANGED <<m_fibers, m_state, m_cb, ft, cb_fiber, timers, events,
                                fired, dups, starts, ended>>
<1>1. DataType /\ pc \in [Runners -> RunnerPc]
  BY DEF TypeInv, DataType
<1>2. ASSUME Still, UNCHANGED pc
      PROVE  PoolInv'
  <2>1. \A t \in Runners : pc'[t] # "armed"
    BY <1>2 DEF PoolInv, NoWake
  <2> QED BY <1>1, <1>2, <2>1, QuietPool
<1>3. ASSUME NEW t \in Runners, NEW a, NEW b, Still, Goto(t, a, b),
             \/ {a, b} \cap {"user", "switch", "back", "handle", "armed"} = {}
             \/ {a, b} \subseteq {"switch", "back", "handle"}
      PROVE  PoolInv'
  <2>1. \A u \in Runners :
           /\ pc'[u] # "armed"
           /\ (pc'[u] = "user") <=> (pc[u] = "user")
           /\ (pc'[u] \in {"switch", "back", "handle"})
                <=> (pc[u] \in {"switch", "back", "handle"})
    <3>1. pc[t] = a /\ pc'[t] = b /\ \A u \in Runners \ {t} : pc'[u] = pc[u]
      BY <1>1, <1>3 DEF Goto
    <3>2. \A u \in Runners : pc[u] # "armed"
      BY DEF PoolInv, NoWake
    <3> QED BY <1>3, <3>1, <3>2
  <2> QED BY <1>1, <1>3, <2>1, QuietPool
<1> HIDE DEF Still
<1>4. ASSUME Start PROVE PoolInv'
  <2>1. \A t \in Runners : pc[t] = "off" /\ pc'[t] \in {"off", "scan"}
    BY <1>4 DEF Start, TypeInv, NotStarted
  <2>2. Still
    BY <1>4 DEF Start, Still, fibers, locals, wakes, history
  <2> QED BY <1>1, <2>1, <2>2, QuietPool DEF Still
<1>5. ASSUME StopAuto \/ StopFlag \/ StopTest \/ StopJoin PROVE PoolInv'
  <2>1. Still /\ UNCHANGED pc
    BY <1>5 DEF StopAuto, StopFlag, StopTest, StopJoin, Still, fibers, locals, wakes, history
  <2> QED BY <2>1, <1>2
<1>6. ASSUME StopCall PROVE PoolInv'
  <2>1. Still /\ (Goto(Root, "off", "scan") \/ UNCHANGED pc)
    BY <1>6 DEF StopCall, Still, fibers, locals, wakes, history
  <2>2. Root \notin Runners /\ Goto(Root, "off", "scan") => UNCHANGED pc
    BY <1>1 DEF Goto
  <2> QED BY <2>1, <2>2, <1>2, <1>3
<1>7. ASSUME NEW c \in Cbs, NEW t \in Runners, ScheduleCb(c) \/ UserSchedule(t, c)
      PROVE  PoolInv'
  <2>1. c \notin Fibers /\ c # None
    BY SchedulerAssumption, ItemFacts DEF SchedulerAssumption
  <2>2. /\ ~Submitted(c) /\ m_fibers' = PushBack(c, Pin[c])
        /\ UNCHANGED <<m_state, m_cb, ft, cb_fiber, timers, events, fired, pc, starts,
                       ended, dups>>
    BY <1>7 DEF ScheduleCb, UserSchedule, fibers, locals, wakes, history
  <2>3. /\ ~Queued(c) /\ starts[c] = 0
        /\ \A u \in Runners : ft[u] # c /\ cb_fiber[u] # c
    BY <2>1, <2>2 DEF Submitted, TypeInv, DataType
  <2>4. c \notin UserFibers
    BY <2>1, ItemFacts
  <2> QED BY <2>2, <2>3, <2>4, SubmitPool
<1>8. ASSUME NEW f \in UserFibers, ScheduleFiber(f) PROVE PoolInv'
  <2>1. dups[f] = 0
    BY <1>8, SchedulerAssumption
    DEF ScheduleFiber, ReadyOnce, TypeInv, DataType, SchedulerAssumption
  <2>2. /\ ~Queued(f)
        /\ \A u \in Runners : ft[u] # f /\ cb_fiber[u] # f
    BY <2>1 DEF PoolInv, Fresh
  <2>3. /\ m_fibers' = PushBack(f, Pin[f]) /\ dups' = [dups EXCEPT ![f] = @ + 1]
        /\ UNCHANGED <<m_state, m_cb, ft, cb_fiber, timers, events, fired, pc, starts,
                       ended>>
    BY <1>8 DEF ScheduleFiber, fibers, locals, wakes, history
  <2>4. f \notin Cbs
    BY SchedulerAssumption DEF SchedulerAssumption
  <2> QED BY <2>2, <2>3, <2>4, SubmitPool
<1>9. ASSUME NEW t \in Runners,
             \/ TakeNothing(t) \/ SwappedOut(t) \/ GoIdle(t) \/ IdlePending(t)
             \/ IdleStopping(t) \/ IdleYield(t) \/ IdleTriggered(t) \/ SwapOut(t)
      PROVE  PoolInv'
  <2>1. Still
    BY <1>9 DEF TakeNothing, SwappedOut, GoIdle, IdlePending, IdleStopping, IdleYield,
       IdleTriggered, SwapOut, Still, fibers, locals, wakes, history
  <2>2. \/ \E a, b \in RunnerPc \ {"user", "switch", "back", "handle", "armed"} : Goto(t, a, b)
        \/ \E a, b \in {"switch", "back", "handle"} : Goto(t, a, b)
    BY <1>9 DEF TakeNothing, SwappedOut, GoIdle, IdlePending, IdleStopping, IdleYield,
       IdleTriggered, SwapOut, Goto, RunnerPc
  <2> QED BY <2>1, <2>2, <1>3
<1>10. ASSUME NEW t \in Runners, YieldToReady(t) PROVE PoolInv'
  BY <1>10, LeavePool DEF YieldToReady, locals, wakes, history
<1>11. ASSUME NEW t \in Runners, MainFuncEnd(t) PROVE PoolInv'
  BY <1>11, LeavePool DEF MainFuncEnd, locals, wakes
<1>12. ASSUME NEW t \in Runners, UserArm(t) \/ YieldToHold(t) \/ IdleSchedule(t)
       PROVE  FALSE
  BY <1>12 DEF UserArm, YieldToHold, IdleSchedule, Goto, ReadyOnce, PoolInv, NoWake,
     TypeInv, RunnerRefs
<1>13. ASSUME NEW t \in Runners, NEW f \in Fibers,
              IdleCollect(t, f) \/ IdleTrigger(t, f) \/ RunWake(t, f)
       PROVE  FALSE
  <2>1. CASE RunWake(t, f)
    <3>1. Cur(t) \in Fibers
      BY <2>1 DEF RunWake, Goto, TypeInv, RunnerRefs, OnStack
    <3>2. m_cb[Cur(t)] \in WakeCbs
      BY <2>1 DEF RunWake, WakeCbs
    <3> QED BY <3>1, <3>2 DEF PoolInv, NoWake
  <2> QED BY <1>13, <2>1 DEF IdleCollect, IdleTrigger, PoolInv, NoWake
<1>14. CASE UNCHANGED vars
  <2>1. Still /\ UNCHANGED pc
    BY <1>14 DEF vars, Still, fibers, locals, wakes, history
  <2> QED BY <2>1, <1>2
<1>15. Runners # {}
  BY SchedulerAssumption DEF SchedulerAssumption
<1>16. CASE Control \/ Submit \/ Done
  BY <1>16, <1>4, <1>5, <1>6, <1>7, <1>8, <1>14, <1>15 DEF Control, Submit, Done
<1>17. ASSUME NEW t \in Runners, Loop(t) PROVE PoolInv'
  BY <1>17, <1>9, TakePool, DropPool, SwapInFiberPool, SwapInCbPool, HandleFiberPool,
     HandleCbPool DEF Loop
<1>18. ASSUME NEW t \in Runners, Idle(t) PROVE PoolInv'
  BY <1>18, <1>9, <1>12, <1>13 DEF Idle
<1>19. ASSUME NEW t \in Runners, User(t) PROVE PoolInv'
  BY <1>19, <1>7, <1>9, <1>10, <1>11, <1>12, <1>13 DEF User
<1> QED BY <1>14, <1>16, <1>17, <1>18, <1>19 DEF Next

-----------------------------------------------------------------------------
\* A step of a runner that is in run(), and stays or leaves for good.
LEMMA RunnerPhases ==
  ASSUME TypeInv, FlagsType, Phases, NEW t \in Runners, NEW a, NEW b, Goto(t, a, b),
         a \notin {"off", "exit"}, b # "off", b = "exit" => idleTerm[t] = TRUE,
         UNCHANGED <<main, m_autoStop>>,
         \/ UNCHANGED idleTerm
         \/ idleTerm' = [idleTerm EXCEPT ![t] = TRUE] /\ m_autoStop = TRUE
  PROVE  Phases'
<1>1. /\ pc[t] = a /\ pc'[t] = b
      /\ \A u \in Runners \ {t} : pc'[u] = pc[u] /\ idleTerm'[u] = idleTerm[u]
      /\ idleTerm'[t] = TRUE => idleTerm[t] = TRUE \/ m_autoStop = TRUE
      /\ idleTerm[t] = TRUE => idleTerm'[t] = TRUE
  BY DEF TypeInv, DataType, FlagsType, Goto
<1>2. UseCaller = TRUE => Root \in Runners
  BY DEF Runners
<1>3. Threads \subseteq Runners
  BY DEF Runners
<1>4. /\ m_autoStop' = TRUE => main' \notin {"ready", "started"}
      /\ \A u \in Runners : idleTerm'[u] = TRUE => main' \notin {"ready", "started"}
      /\ \A u \in Runners : pc'[u] = "exit" => idleTerm'[u] = TRUE
  BY <1>1 DEF Phases
<1>5. main' # "ready" => \A u \in Threads : pc'[u] # "off"
  BY <1>1, <1>3 DEF Phases
<1>6. ASSUME UseCaller = TRUE
      PROVE  /\ main' \notin {"call", "join", "done"} => pc'[Root] = "off"
             /\ main' \in {"join", "done"} => pc'[Root] \in {"off", "exit"}
  BY <1>1, <1>2, <1>6 DEF Phases
<1>7. main' = "done" => \A u \in Threads : pc'[u] = "exit"
  BY <1>1, <1>3 DEF Phases
<1> QED BY <1>4, <1>5, <1>6, <1>7 DEF Phases

\* The phases are as described, whatever the threads do.
LEMMA PhasesStep ==
  ASSUME TypeInv, FlagsType, Phases, [Next]_vars
  PROVE  Phases'
<1>1. /\ pc \in [Runners -> RunnerPc] /\ Threads \subseteq Runners
      /\ UseCaller \in BOOLEAN /\ (UseCaller = TRUE => Root \in Runners)
      /\ Root \notin Threads
  BY SchedulerAssumption DEF TypeInv, DataType, SchedulerAssumption, Runners
<1>2. ASSUME UNCHANGED <<main, m_autoStop, idleTerm, pc>> PROVE Phases'
  BY <1>2 DEF Phases
<1>3. ASSUME Start PROVE Phases'
  <2>1. /\ main = "ready" /\ main' = "started" /\ UNCHANGED <<m_autoStop, idleTerm>>
        /\ pc' = [t \in Runners |-> IF t \in Threads THEN "scan" ELSE "off"]
    BY <1>3 DEF Start, locals
  <2> QED BY <1>1, <2>1 DEF Phases
<1>4. ASSUME StopAuto PROVE Phases'
  <2>1. main = "started" /\ main' = "auto" /\ UNCHANGED <<idleTerm, pc>>
    BY <1>4 DEF StopAuto, locals
  <2> QED BY <2>1 DEF Phases
<1>5. ASSUME StopFlag PROVE Phases'
  <2>1. /\ main = "auto" /\ UNCHANGED <<m_autoStop, idleTerm, pc>>
        /\ UseCaller = FALSE => main' = "join"
        /\ UseCaller = TRUE => main' \in {"call", "test"}
        /\ main' \in {"join", "call", "test"}
    BY <1>1, <1>5 DEF StopFlag, locals
  <2> QED BY <1>1, <2>1 DEF Phases
<1>6. ASSUME StopTest PROVE Phases'
  <2>1. /\ main = "test" /\ UNCHANGED <<m_autoStop, idleTerm, pc>>
        /\ main' \in {"join", "call"}
    BY <1>6 DEF StopTest, locals
  <2> QED BY <1>1, <2>1 DEF Phases
<1>7. ASSUME StopCall PROVE Phases'
  <2>1. /\ main = "call" /\ UNCHANGED <<m_autoStop, idleTerm>>
        /\ \/ pc[Root] = "off" /\ pc' = [pc EXCEPT ![Root] = "scan"] /\ UNCHANGED main
           \/ pc[Root] = "exit" /\ main' = "join" /\ UNCHANGED pc
    BY <1>7 DEF StopCall, Goto, locals
  <2>2. UseCaller = TRUE
    BY <1>1, <2>1 DEF Phases
  <2>3. \A t \in Threads : pc'[t] = pc[t]
    BY <1>1, <2>1
  <2>4. \A t \in Runners : pc'[t] = "exit" => pc[t] = "exit"
    BY <1>1, <2>1
  <2> QED BY <1>1, <2>1, <2>2, <2>3, <2>4 DEF Phases
<1>8. ASSUME StopJoin PROVE Phases'
  <2>1. /\ main = "join" /\ main' = "done" /\ UNCHANGED <<m_autoStop, idleTerm, pc>>
        /\ \A t \in Threads : pc[t] = "exit"
    BY <1>8 DEF StopJoin, locals
  <2> QED BY <2>1 DEF Phases
<1>9. ASSUME Submit PROVE Phases'
  BY <1>9, <1>2 DEF Submit, ScheduleCb, ScheduleFiber, control, locals
<1>10. ASSUME NEW t \in Runners, GoIdle(t) PROVE Phases'
  <2>1. UNCHANGED <<main, m_autoStop, idleTerm>>
    BY <1>10 DEF GoIdle, control, locals
  <2>2. CASE Goto(t, "none", "exit") /\ idleTerm[t]
    <3>1. idleTerm[t] = TRUE
      BY <2>2 DEF FlagsType
    <3> QED BY <2>1, <2>2, <3>1, RunnerPhases
  <2>3. CASE Goto(t, "none", "idle")
    BY <2>1, <2>3, RunnerPhases
  <2> QED BY <1>10, <2>2, <2>3 DEF GoIdle
<1>11. ASSUME NEW t \in Runners, IdleStopping(t) PROVE Phases'
  <2>1. UNCHANGED <<main, m_autoStop>>
    BY <1>11 DEF IdleStopping, control
  <2>2. CASE BaseStopping
    <3>1. m_autoStop = TRUE
      BY <2>2 DEF BaseStopping, FlagsType
    <3>2. Goto(t, "check", "scan") /\ idleTerm' = [idleTerm EXCEPT ![t] = TRUE]
      BY <1>11, <2>2 DEF IdleStopping
    <3> QED BY <2>1, <3>1, <3>2, RunnerPhases
  <2>3. CASE ~BaseStopping
    <3>1. Goto(t, "check", "wait") /\ UNCHANGED idleTerm
      BY <1>11, <2>3 DEF IdleStopping
    <3> QED BY <2>1, <3>1, RunnerPhases
  <2> QED BY <2>2, <2>3
<1>12. ASSUME NEW t \in Runners,
              \/ Take(t) \/ TakeNothing(t) \/ DropDead(t) \/ SwapInFiber(t) \/ SwapInCb(t)
              \/ SwappedOut(t) \/ HandleFiber(t) \/ HandleCb(t)
       PROVE  Phases'
  <2>1. UNCHANGED <<main, m_autoStop, idleTerm>>
    BY <1>12 DEF Take, TakeNothing, DropDead, SwapInFiber, SwapInCb, SwappedOut,
       HandleFiber, HandleCb, control, locals
  <2>2. \E a, b \in RunnerPc \ {"off", "exit"} : Goto(t, a, b)
    BY <1>12 DEF Take, TakeNothing, DropDead, SwapInFiber, SwapInCb, SwappedOut,
       HandleFiber, HandleCb, Goto, RunnerPc
  <2> QED BY <2>1, <2>2, RunnerPhases
<1>13. ASSUME NEW t \in Runners,
              \/ IdlePending(t) \/ IdleYield(t) \/ IdleSchedule(t) \/ IdleTriggered(t)
              \/ \E f \in Fibers : IdleCollect(t, f) \/ IdleTrigger(t, f)
       PROVE  Phases'
  <2>1. UNCHANGED <<main, m_autoStop, idleTerm>>
    BY <1>13 DEF IdlePending, IdleYield, IdleSchedule, IdleTriggered, IdleCollect,
       IdleTrigger, control, locals
  <2>2. \E a, b \in RunnerPc \ {"off", "exit"} : Goto(t, a, b)
    BY <1>13 DEF IdlePending, IdleYield, IdleSchedule, IdleTriggered, IdleCollect,
       IdleTrigger, Goto, RunnerPc
  <2> QED BY <2>1, <2>2, RunnerPhases
<1>14. ASSUME NEW t \in Runners, NEW c \in Cbs, UserSchedule(t, c) PROVE Phases'
  BY <1>14, <1>2 DEF UserSchedule, control, locals
<1>15. ASSUME NEW t \in Runners,
              \/ YieldToReady(t) \/ UserArm(t) \/ YieldToHold(t) \/ MainFuncEnd(t)
              \/ SwapOut(t) \/ \E f \in Fibers : RunWake(t, f)
       PROVE  Phases'
  <2>1. UNCHANGED <<main, m_autoStop, idleTerm>>
    BY <1>15 DEF YieldToReady, UserArm, YieldToHold, MainFuncEnd, SwapOut, RunWake,
       control, locals
  <2>2. \E a, b \in RunnerPc \ {"off", "exit"} : Goto(t, a, b)
    BY <1>15 DEF YieldToReady, UserArm, YieldToHold, MainFuncEnd, SwapOut, RunWake,
       Goto, RunnerPc
  <2> QED BY <2>1, <2>2, RunnerPhases
<1>16. CASE UNCHANGED vars
  BY <1>16, <1>2 DEF vars, control, locals
<1>17. CASE Control \/ Submit \/ Done
  BY <1>17, <1>3, <1>4, <1>5, <1>6, <1>7, <1>8, <1>9, <1>16 DEF Control, Done
<1>18. ASSUME NEW t \in Runners, Loop(t) \/ Idle(t) \/ User(t) PROVE Phases'
  BY <1>18, <1>10, <1>11, <1>12, <1>13, <1>14, <1>15 DEF Loop, Idle, User
<1> QED BY <1>16, <1>17, <1>18 DEF Next

-----------------------------------------------------------------------------
\* A runner leaves for good only when it has seen nothing for any thread.
LEMMA WorkStep ==
  ASSUME TypeInv, FlagsType, PoolInv, Phases, WorkSeen, [Next]_vars
  PROVE  WorkSeen'
<1>1. /\ pc \in [Runners -> RunnerPc] /\ Threads \subseteq Runners
      /\ UseCaller \in BOOLEAN /\ (UseCaller = FALSE => Runners = Threads)
      /\ Runners \subseteq Threads \cup {Root} /\ Runners # {}
  BY SchedulerAssumption DEF TypeInv, DataType, SchedulerAssumption, Runners
<1>2. ASSUME UNCHANGED <<m_fibers, main, idleTerm, pc>> PROVE WorkSeen'
  BY <1>2 DEF WorkSeen, Working
<1>3. ASSUME NEW t \in Runners, NEW b, pc'[t] = b, b \notin {"off", "none", "exit"}
      PROVE  WorkSeen'
  BY <1>3 DEF WorkSeen, Working
<1>4. ASSUME NEW t \in Runners, NEW a, NEW b, Goto(t, a, b), b \notin {"off", "none", "exit"}
      PROVE  WorkSeen'
  BY <1>1, <1>3, <1>4 DEF Goto
<1>5. ASSUME Start PROVE WorkSeen'
  <2>1. /\ main' = "started"
        /\ pc' = [t \in Runners |-> IF t \in Threads THEN "scan" ELSE "off"]
    BY <1>5 DEF Start
  <2>2. \A t \in Runners : Working(t)'
    BY <2>1 DEF Working
  <2> QED BY <1>1, <2>2 DEF WorkSeen
<1>6. ASSUME StopAuto PROVE WorkSeen'
  <2>1. main' = "auto" /\ main = "started" /\ UNCHANGED <<m_fibers, idleTerm, pc>>
    BY <1>6 DEF StopAuto, locals
  <2>2. \A t \in Runners : Working(t) => Working(t)'
    BY <2>1 DEF Working
  <2> QED BY <2>1, <2>2 DEF WorkSeen
<1>7. ASSUME StopFlag PROVE WorkSeen'
  <2>1. /\ main = "auto" /\ UNCHANGED <<m_fibers, idleTerm, pc>>
        /\ UseCaller = TRUE => main' \in {"call", "test"}
    BY <1>1, <1>7 DEF StopFlag, locals
  <2>2. UseCaller = FALSE => \A t \in Runners : pc[t] # "off"
    BY <1>1, <2>1 DEF Phases
  <2>3. \A t \in Runners : Working(t) => Working(t)'
    BY <1>1, <2>1, <2>2 DEF Working
  <2> QED BY <2>1, <2>3 DEF WorkSeen
<1>8. ASSUME StopTest PROVE WorkSeen'
  <2>1. /\ main = "test" /\ UNCHANGED <<m_fibers, idleTerm, pc>>
        /\ main' = "call" \/ m_fibers = <<>>
    BY <1>8 DEF StopTest, BaseStopping, locals
  <2>2. CASE main' = "call"
    <3>1. \A t \in Runners : Working(t) => Working(t)'
      BY <2>1, <2>2 DEF Working
    <3> QED BY <2>1, <3>1 DEF WorkSeen
  <2>3. CASE m_fibers = <<>>
    BY <2>1, <2>3 DEF WorkSeen
  <2> QED BY <2>1, <2>2, <2>3
<1>9. ASSUME StopCall PROVE WorkSeen'
  <2>1. /\ main = "call" /\ UNCHANGED <<m_fibers, idleTerm>>
        /\ \/ Goto(Root, "off", "scan")
           \/ pc[Root] = "exit" /\ main' = "join" /\ UNCHANGED pc
    BY <1>9 DEF StopCall, locals
  <2>2. Root \in Runners
    BY <2>1, SchedulerAssumption DEF Phases, Runners, SchedulerAssumption
  <2>3. CASE Goto(Root, "off", "scan")
    BY <1>4, <2>2, <2>3
  <2>4. CASE pc[Root] = "exit" /\ main' = "join" /\ UNCHANGED pc
    <3>1. \A t \in Runners : Working(t) => Working(t)'
      BY <1>1, <2>1, <2>4 DEF Working, Phases
    <3> QED BY <2>1, <3>1 DEF WorkSeen
  <2> QED BY <2>1, <2>3, <2>4
<1>10. ASSUME StopJoin PROVE WorkSeen'
  <2>1. main = "join" /\ main' = "done" /\ UNCHANGED <<m_fibers, idleTerm, pc>>
    BY <1>10 DEF StopJoin, locals
  <2>2. \A t \in Runners : Working(t) => Working(t)'
    BY <2>1 DEF Working
  <2> QED BY <2>1, <2>2 DEF WorkSeen
<1>11. ASSUME Submit PROVE WorkSeen'
  <2>1. main \in {"ready", "started"} /\ UNCHANGED <<main, idleTerm, pc>>
    BY <1>11 DEF Submit, ScheduleCb, ScheduleFiber, control, locals
  <2>2. \A t \in Runners : idleTerm[t] # TRUE /\ pc[t] # "exit"
    BY <2>1 DEF Phases
  <2>3. \A t \in Runners : Working(t)'
    BY <2>1, <2>2 DEF Working
  <2> QED BY <1>1, <2>3 DEF WorkSeen
<1>12. ASSUME NEW t \in Runners, TakeNothing(t) PROVE WorkSeen'
  <2>1. /\ UNCHANGED m_fibers
        /\ \A i \in DOMAIN m_fibers : ~Eligible(t, m_fibers[i])
    BY <1>12 DEF TakeNothing
  <2>2. ASSUME NEW i \in DOMAIN m_fibers, m_fibers[i].thread = AnyThread
        PROVE  FALSE
    <3>1. PICK x : x = m_fibers[i].item
      OBVIOUS
    <3>2. x \in Fibers /\ m_state[x] = "EXEC" /\ Queued(x)
      BY <2>1, <2>2, <3>1 DEF Eligible, Queued
    <3>3. PICK u \in Runners : Cur(u) = x
      BY <3>2 DEF PoolInv, Live
    <3> QED BY <3>2, <3>3 DEF PoolInv, Apart, Cur
  <2> QED BY <2>1, <2>2 DEF WorkSeen
<1>13. ASSUME NEW t \in Runners, GoIdle(t) PROVE WorkSeen'
  <2>1. UNCHANGED <<m_fibers, main, idleTerm>>
    BY <1>13 DEF GoIdle, control, locals
  <2>2. CASE Goto(t, "none", "exit") /\ idleTerm[t]
    <3>1. idleTerm[t] = TRUE
      BY <2>2 DEF FlagsType
    <3>2. ~Working(t)
      BY <2>2, <3>1 DEF Working, Goto
    <3>3. \A u \in Runners : Working(u) => Working(u)'
      BY <1>1, <2>1, <2>2, <3>2 DEF Working, Goto
    <3> QED BY <2>1, <3>3 DEF WorkSeen
  <2>3. CASE Goto(t, "none", "idle")
    BY <2>3, <1>4
  <2> QED BY <1>13, <2>2, <2>3 DEF GoIdle
<1>14. ASSUME NEW t \in Runners,
              \/ Take(t) \/ DropDead(t) \/ SwapInFiber(t) \/ SwapInCb(t)
              \/ SwappedOut(t) \/ HandleFiber(t) \/ HandleCb(t)
       PROVE  WorkSeen'
  <2>1. \E a \in RunnerPc, b \in RunnerPc \ {"off", "none", "exit"} : Goto(t, a, b)
    BY <1>14 DEF Take, DropDead, SwapInFiber, SwapInCb, SwappedOut,
       HandleFiber, HandleCb, Goto, RunnerPc
  <2> QED BY <2>1, <1>4
<1>15. ASSUME NEW t \in Runners,
              \/ IdlePending(t) \/ IdleStopping(t) \/ IdleYield(t) \/ IdleSchedule(t)
              \/ IdleTriggered(t)
              \/ \E f \in Fibers : IdleCollect(t, f) \/ IdleTrigger(t, f)
       PROVE  WorkSeen'
  <2>1. \E a \in RunnerPc, b \in RunnerPc \ {"off", "none", "exit"} : Goto(t, a, b)
    BY <1>15 DEF IdlePending, IdleStopping, IdleYield, IdleSchedule, IdleTriggered,
       IdleCollect, IdleTrigger, Goto, RunnerPc
  <2> QED BY <2>1, <1>4
<1>16. ASSUME NEW t \in Runners,
              \/ YieldToReady(t) \/ UserArm(t) \/ YieldToHold(t) \/ MainFuncEnd(t)
              \/ SwapOut(t) \/ \E f \in Fibers : RunWake(t, f)
       PROVE  WorkSeen'
  <2>1. \E a \in RunnerPc, b \in RunnerPc \ {"off", "none", "exit"} : Goto(t, a, b)
    BY <1>16 DEF YieldToReady, UserArm, YieldToHold, MainFuncEnd, SwapOut, RunWake,
       Goto, RunnerPc
  <2> QED BY <2>1, <1>4
<1>17. ASSUME NEW t \in Runners, NEW c \in Cbs, UserSchedule(t, c) PROVE WorkSeen'
  <2>1. pc'[t] = "user"
    BY <1>17 DEF UserSchedule
  <2> QED BY <2>1, <1>3
<1>18. CASE UNCHANGED vars
  BY <1>18, <1>2 DEF vars, control, locals
<1>19. CASE Control \/ Submit \/ Done
  BY <1>19, <1>5, <1>6, <1>7, <1>8, <1>9, <1>10, <1>11, <1>18 DEF Control, Done
<1>20. ASSUME NEW t \in Runners, Loop(t) \/ Idle(t) \/ User(t) PROVE WorkSeen'
  BY <1>20, <1>12, <1>13, <1>14, <1>15, <1>16, <1>17 DEF Loop, Idle, User
<1> QED BY <1>18, <1>19, <1>20 DEF Next

\* The whole invariant of a scheduler without waits.
PoolOK == ReadyOnce => PoolInv /\ WorkSeen

\* It holds in every reachable state, with the phases of start() and stop().
THEOREM PoolInvariant == Spec => [](TypeInv /\ FlagsType /\ Phases /\ PoolOK)
<1>1. Init => TypeInv /\ FlagsType /\ Phases /\ PoolOK
  <2> SUFFICES ASSUME Init PROVE Phases /\ PoolOK /\ FlagsType
    BY TypeInit
  <2>1. /\ main = "ready" /\ m_autoStop = FALSE /\ m_fibers = <<>>
        /\ \A t \in Runners : pc[t] = "off" /\ idleTerm[t] = FALSE
        /\ FlagsType
    BY DEF Init, FlagsType
  <2>2. Phases
    BY <2>1 DEF Phases, Runners
  <2>3. WorkSeen
    BY <2>1 DEF WorkSeen
  <2> QED BY <2>1, <2>2, <2>3, PoolInit DEF PoolOK
<1>2. TypeInv /\ FlagsType /\ Phases /\ PoolOK /\ [Next]_vars
        => (TypeInv /\ FlagsType /\ Phases /\ PoolOK)'
  <2> SUFFICES ASSUME TypeInv, FlagsType, Phases, PoolOK, [Next]_vars
               PROVE  (TypeInv /\ FlagsType /\ Phases /\ PoolOK)'
    OBVIOUS
  <2>1. TypeInv' /\ FlagsType' /\ Phases'
    BY TypeStep, FlagsStep, PhasesStep
  <2>2. ASSUME ReadyOnce PROVE (PoolInv /\ WorkSeen)'
    BY <2>2, PoolStep, WorkStep DEF PoolOK
  <2>3. ReadyOnce' <=> ReadyOnce
    BY DEF ReadyOnce
  <2> QED BY <2>1, <2>2, <2>3 DEF PoolOK
<1> QED BY <1>1, <1>2, PTL DEF Spec

\* Without waits, and with each fiber of the application scheduled once, no two
\* threads are ever on the stack of one fiber: a fiber that yields READY is in
\* the queue only after its context was saved.
THEOREM PoolOneRunner == Spec => [](ReadyOnce => OneRunner)
<1>1. TypeInv /\ PoolOK => (ReadyOnce => OneRunner)
  <2> SUFFICES ASSUME TypeInv, PoolInv, NEW t \in Runners, NEW u \in Runners,
                      t # u, OnStack(t), OnStack(u)
               PROVE  Cur(t) # Cur(u)
    BY DEF PoolOK, OneRunner
  <2>1. Cur(t) \in Fibers /\ Cur(u) \in Fibers
    BY DEF TypeInv, RunnerRefs
  <2> QED BY <2>1, ItemFacts DEF PoolInv, Apart, Cur
<1> QED BY <1>1, PoolInvariant, PTL

\* In such a scheduler application code only runs in a fiber whose state is EXEC.
THEOREM PoolExecWhileRunning == Spec => [](ReadyOnce => ExecWhileRunning)
<1>1. PoolOK => (ReadyOnce => ExecWhileRunning)
  BY DEF PoolOK, PoolInv, StateOK, ExecWhileRunning
<1> QED BY <1>1, PoolInvariant, PTL

\* In such a scheduler a fiber that has started and not ended is in the queue or
\* with a runner: run() loses none.
THEOREM PoolNoLostFiber == Spec => [](ReadyOnce => NoLostFiber)
<1>1. TypeInv /\ PoolOK => (ReadyOnce => NoLostFiber)
  <2> SUFFICES ASSUME TypeInv, PoolInv, NEW f \in Fibers,
                      m_state[f] \in {"EXEC", "HOLD", "READY"}
               PROVE  Queued(f) \/ \E t \in Runners : Cur(t) = f
    BY DEF PoolOK, NoLostFiber
  <2>1. Queued(f) \/ \E t \in Runners : Cur(t) = f \/ Held(t, f)
    BY DEF PoolInv, Live
  <2>2. \A t \in Runners : Held(t, f) => Cur(t) = f
    BY ItemFacts DEF Held, Cur
  <2> QED BY <2>1, <2>2
<1> QED BY <1>1, PoolInvariant, PTL

\* When stop() of such a scheduler returns, every callback that was entered was
\* entered once and has ended, every fiber of the application that was taken has
\* ended, and only entries that are bound to a thread may be left.
THEOREM PoolAllDone == Spec => [](ReadyOnce => AllDone)
<1>1. TypeInv /\ Phases /\ PoolOK => (ReadyOnce => AllDone)
  <2> SUFFICES ASSUME TypeInv, Phases, PoolInv, WorkSeen, main = "done"
               PROVE  /\ \A i \in DOMAIN m_fibers : m_fibers[i].thread # AnyThread
                      /\ \A c \in Cbs : starts[c] <= 1 /\ (starts[c] = 1 => c \in ended)
                      /\ \A f \in UserFibers : dups[f] > 0 => f \in ended \/ Queued(f)
    BY DEF PoolOK, AllDone
  <2>1. \A t \in Runners : pc[t] \in {"off", "exit"}
    BY SchedulerAssumption DEF Phases, Runners, SchedulerAssumption
  <2>2. \A t \in Runners : ~Working(t)
    BY <2>1 DEF Working
  <2>3. \A i \in DOMAIN m_fibers : m_fibers[i].thread # AnyThread
    BY <2>2 DEF WorkSeen
  <2>4. \A t \in Runners : ft[t] = None
    BY <2>1 DEF TypeInv, RunnerRefs, Busy, BusyPc
  <2>5. ASSUME NEW c \in Cbs, starts[c] = 1, c \notin ended
        PROVE  FALSE
    <3>1. PICK f \in Fibers \ UserFibers : m_state[f] \in {"EXEC", "READY"}
      BY <2>5 DEF PoolInv, Bodies
    <3>2. Queued(f) \/ \E t \in Runners : pc[t] = "user" \/ Held(t, f)
      BY <3>1 DEF PoolInv, Live
    <3>3. ~Queued(f)
      BY <2>3 DEF PoolInv, Unbound, Queued
    <3>4. \A t \in Runners : ~Held(t, f)
      BY <2>1, <2>4, ItemFacts DEF Held, OnFiber
    <3> QED BY <2>1, <3>2, <3>3, <3>4
  <2>6. \A c \in Cbs : starts[c] <= 1
    BY DEF PoolInv, Fresh
  <2>7. \A f \in UserFibers : dups[f] > 0 => f \in ended \/ Queued(f)
    BY <2>4, ItemFacts DEF PoolInv, Bodies
  <2> QED BY <2>3, <2>5, <2>6, <2>7
<1> QED BY <1>1, PoolInvariant, PTL

-----------------------------------------------------------------------------
(***************************************************************************)
(* One runner: a wait is never left behind.                                *)
(***************************************************************************)
\* One event is between its removal and the decrement of m_pendingEventCount.
Trigger(p) == IF \E t \in Runners : p[t] = "trigger" THEN 1 ELSE 0

\* addEvent and triggerEvent keep m_pendingEventCount at or above what it counts.
LEMMA EventsStep ==
  ASSUME Solo, TypeInv, EventsCounted, [Next]_vars
  PROVE  EventsCounted'
<1>1. /\ pc \in [Runners -> RunnerPc] /\ events \subseteq Fibers
      /\ m_pendingEventCount \in Int /\ IsFiniteSet(events) /\ Cardinality(events) \in Nat
      /\ m_pendingEventCount >= Cardinality(events) + Trigger(pc)
  BY FS_CardinalityType DEF TypeInv, DataType, EventsCounted, Trigger
<1>2. ASSUME UNCHANGED <<events, m_pendingEventCount>>,
             \A t \in Runners : pc'[t] = "trigger" => pc[t] = "trigger"
      PROVE  EventsCounted'
  BY <1>1, <1>2 DEF EventsCounted, Trigger
<1>3. ASSUME NEW t \in Runners, NEW a, NEW b, Goto(t, a, b), b # "trigger",
             UNCHANGED <<events, m_pendingEventCount>>
      PROVE  EventsCounted'
  BY <1>1, <1>2, <1>3 DEF Goto
<1>4. ASSUME Control \/ Submit PROVE EventsCounted'
  <2>1. UNCHANGED <<events, m_pendingEventCount>>
    BY <1>4 DEF Control, Submit, Start, StopAuto, StopFlag, StopTest, StopCall, StopJoin,
       ScheduleCb, ScheduleFiber, wakes
  <2>2. \A t \in Runners : pc'[t] = "trigger" => pc[t] = "trigger"
    BY <1>1, <1>4 DEF Control, Submit, Start, StopAuto, StopFlag, StopTest, StopCall,
       StopJoin, ScheduleCb, ScheduleFiber, Goto
  <2> QED BY <1>2, <2>1, <2>2
<1>5. ASSUME NEW t \in Runners, Loop(t) PROVE EventsCounted'
  <2>1. UNCHANGED <<events, m_pendingEventCount>>
    BY <1>5 DEF Loop, Take, TakeNothing, DropDead, SwapInFiber, SwapInCb, SwappedOut,
       HandleFiber, HandleCb, GoIdle, wakes
  <2>2. \E a \in RunnerPc, b \in RunnerPc \ {"trigger"} : Goto(t, a, b)
    BY <1>5 DEF Loop, Take, TakeNothing, DropDead, SwapInFiber, SwapInCb, SwappedOut,
       HandleFiber, HandleCb, GoIdle, Goto, RunnerPc
  <2> QED BY <1>3, <2>1, <2>2
<1>6. ASSUME NEW t \in Runners,
             \/ IdlePending(t) \/ IdleStopping(t) \/ IdleYield(t) \/ IdleSchedule(t)
             \/ \E f \in Fibers : IdleCollect(t, f)
      PROVE  EventsCounted'
  <2>1. UNCHANGED <<events, m_pendingEventCount>>
    BY <1>6 DEF IdlePending, IdleStopping, IdleYield, IdleSchedule, IdleCollect, wakes
  <2>2. \E a \in RunnerPc, b \in RunnerPc \ {"trigger"} : Goto(t, a, b)
    BY <1>6 DEF IdlePending, IdleStopping, IdleYield, IdleSchedule, IdleCollect, Goto, RunnerPc
  <2> QED BY <1>3, <2>1, <2>2
<1>7. ASSUME NEW t \in Runners,
             \/ YieldToReady(t) \/ YieldToHold(t) \/ MainFuncEnd(t) \/ SwapOut(t)
             \/ \E f \in Fibers : RunWake(t, f)
      PROVE  EventsCounted'
  <2>1. UNCHANGED <<events, m_pendingEventCount>>
    BY <1>7 DEF YieldToReady, YieldToHold, MainFuncEnd, SwapOut, RunWake, wakes
  <2>2. \E a \in RunnerPc, b \in RunnerPc \ {"trigger"} : Goto(t, a, b)
    BY <1>7 DEF YieldToReady, YieldToHold, MainFuncEnd, SwapOut, RunWake, Goto, RunnerPc
  <2> QED BY <1>3, <2>1, <2>2
<1>8. ASSUME NEW t \in Runners, NEW c \in Cbs, UserSchedule(t, c) PROVE EventsCounted'
  BY <1>8, <1>2 DEF UserSchedule, wakes
<1>9. ASSUME NEW t \in Runners, UserArm(t) PROVE EventsCounted'
  <2>1. CASE UNCHANGED <<events, m_pendingEventCount>>
    <3>1. Goto(t, "user", "armed")
      BY <1>9 DEF UserArm
    <3> QED BY <1>3, <2>1, <3>1
  <2>2. CASE /\ events' = events \cup {Cur(t)}
             /\ m_pendingEventCount' = m_pendingEventCount + 1
    <3>1. pc[t] = "user" /\ pc' = [pc EXCEPT ![t] = "armed"]
      BY <1>9 DEF UserArm, Goto
    <3>2. Trigger(pc) = 0 /\ Trigger(pc') = 0
      BY <1>1, <3>1 DEF Solo, Trigger
    <3>3. /\ IsFiniteSet(events') /\ Cardinality(events') \in Nat
          /\ Cardinality(events') <= Cardinality(events) + 1
      <4>1. CASE Cur(t) \in events
        <5>1. events' = events
          BY <2>2, <4>1
        <5> QED BY <1>1, <5>1
      <4>2. CASE Cur(t) \notin events
        <5>1. IsFiniteSet(events') /\ Cardinality(events') = Cardinality(events) + 1
          BY <1>1, <2>2, <4>2, FS_AddElement
        <5> QED BY <1>1, <5>1
      <4> QED BY <4>1, <4>2
    <3>4. m_pendingEventCount' >= Cardinality(events') + Trigger(pc')
      BY <1>1, <2>2, <3>2, <3>3
    <3> QED BY <3>3, <3>4 DEF EventsCounted, Trigger
  <2> QED BY <1>9, <2>1, <2>2 DEF UserArm
<1>10. ASSUME NEW t \in Runners, NEW f \in Fibers, IdleTrigger(t, f) PROVE EventsCounted'
  <2>1. /\ pc[t] = "wait" /\ pc' = [pc EXCEPT ![t] = "trigger"]
        /\ f \in events /\ events' = events \ {f} /\ UNCHANGED m_pendingEventCount
    BY <1>10 DEF IdleTrigger, Goto
  <2>2. Trigger(pc) = 0 /\ Trigger(pc') = 1
    BY <1>1, <2>1 DEF Solo, Trigger
  <2>3. IsFiniteSet(events') /\ Cardinality(events') = Cardinality(events) - 1
    BY <1>1, <2>1, FS_RemoveElement
  <2>4. m_pendingEventCount' >= Cardinality(events') + Trigger(pc')
    BY <1>1, <2>1, <2>2, <2>3
  <2> QED BY <2>3, <2>4 DEF EventsCounted, Trigger
<1>11. ASSUME NEW t \in Runners, IdleTriggered(t) PROVE EventsCounted'
  <2>1. /\ pc[t] = "trigger" /\ pc' = [pc EXCEPT ![t] = "scan"]
        /\ UNCHANGED events /\ m_pendingEventCount' = m_pendingEventCount - 1
    BY <1>11 DEF IdleTriggered, Goto
  <2>2. Trigger(pc) = 1 /\ Trigger(pc') = 0
    BY <1>1, <2>1 DEF Solo, Trigger
  <2>3. m_pendingEventCount' >= Cardinality(events') + Trigger(pc')
    BY <1>1, <2>1, <2>2
  <2> QED BY <1>1, <2>1, <2>3 DEF EventsCounted, Trigger
<1>12. CASE UNCHANGED vars
  BY <1>12, <1>2 DEF vars, wakes
<1>13. ASSUME NEW t \in Runners, Idle(t) \/ User(t) PROVE EventsCounted'
  BY <1>13, <1>6, <1>7, <1>8, <1>9, <1>10, <1>11 DEF Idle, User
<1> QED BY <1>4, <1>5, <1>12, <1>13 DEF Next, Done

\* Nothing comes between the two halves of the runner's stopping().
LEMMA SoloStep ==
  ASSUME Solo, TypeInv, FlagsType, Phases, EventsCounted, SoloOK, [Next]_vars
  PROVE  SoloOK'
<1>1. /\ pc \in [Runners -> RunnerPc] /\ IO \in BOOLEAN
      /\ idleTerm \in [Runners -> BOOLEAN]
  BY SchedulerAssumption DEF TypeInv, DataType, FlagsType, SchedulerAssumption
\* A step that changes nothing SoloOK is about, and one of a runner that has not
\* decided to leave and does not enter the second half of stopping().
<1>2. ASSUME UNCHANGED <<timers, events, idleTerm, pc, m_fibers>> PROVE SoloOK'
  BY <1>2 DEF SoloOK, Waitless
<1>3. ASSUME NEW t \in Runners, NEW a, NEW b, Goto(t, a, b),
             a \notin {"scan", "none", "exit"}, b \notin {"off", "check"},
             UNCHANGED idleTerm, IO = FALSE => UNCHANGED <<timers, events>>
      PROVE  SoloOK'
  <2>1. pc[t] = a /\ pc'[t] = b /\ \A u \in Runners : u = t
    BY <1>1, <1>3 DEF Goto, Solo
  <2>2. idleTerm[t] # TRUE
    BY <1>3, <2>1 DEF SoloOK
  <2> QED BY <1>3, <2>1, <2>2 DEF SoloOK, Waitless
<1>4. ASSUME Start PROVE SoloOK'
  <2>1. /\ UNCHANGED <<timers, events, idleTerm>>
        /\ \A t \in Runners : pc[t] = "off" /\ pc'[t] \in {"off", "scan"}
    BY <1>4 DEF Start, TypeInv, NotStarted, locals, wakes
  <2> QED BY <2>1 DEF SoloOK, Waitless
<1>5. ASSUME StopAuto \/ StopFlag \/ StopTest \/ StopJoin PROVE SoloOK'
  <2>1. UNCHANGED <<timers, events, idleTerm, pc, m_fibers>>
    BY <1>5 DEF StopAuto, StopFlag, StopTest, StopJoin, locals, wakes
  <2> QED BY <2>1, <1>2
<1>6. ASSUME StopCall PROVE SoloOK'
  <2>1. /\ UNCHANGED <<timers, events, idleTerm, m_fibers>>
        /\ Goto(Root, "off", "scan") \/ UNCHANGED pc
    BY <1>6 DEF StopCall, locals, wakes
  <2>2. Root \notin Runners /\ Goto(Root, "off", "scan") => UNCHANGED pc
    BY <1>1 DEF Goto
  <2>3. CASE Root \in Runners /\ Goto(Root, "off", "scan")
    BY <2>1, <2>3, <1>3
  <2> QED BY <2>1, <2>2, <2>3, <1>2
<1>7. ASSUME Submit PROVE SoloOK'
  <2>1. main \in {"ready", "started"} /\ UNCHANGED <<timers, events, idleTerm, pc>>
    BY <1>7 DEF Submit, ScheduleCb, ScheduleFiber, locals, wakes
  <2>2. \A t \in Runners : idleTerm[t] # TRUE
    BY <2>1 DEF Phases
  <2> QED BY <2>1, <2>2 DEF SoloOK, Waitless
<1>8. ASSUME NEW t \in Runners, NEW c \in Cbs, UserSchedule(t, c) PROVE SoloOK'
  <2>1. pc[t] = "user" /\ UNCHANGED <<timers, events, idleTerm, pc>>
    BY <1>8 DEF UserSchedule, locals, wakes
  <2>2. idleTerm[t] # TRUE /\ \A u \in Runners : u = t
    BY <2>1 DEF SoloOK, Solo
  <2> QED BY <2>1, <2>2 DEF SoloOK, Waitless
<1>9. ASSUME NEW t \in Runners, Take(t) PROVE SoloOK'
  <2>1. /\ pc[t] = "scan" /\ pc' = [pc EXCEPT ![t] = "got"]
        /\ UNCHANGED <<timers, events, idleTerm>> /\ m_fibers # <<>>
    BY <1>9 DEF Take, Goto, wakes
  <2>2. idleTerm[t] # TRUE /\ \A u \in Runners : u = t
    BY <2>1 DEF SoloOK, Solo
  <2> QED BY <1>1, <2>1, <2>2 DEF SoloOK, Waitless
<1>10. ASSUME NEW t \in Runners, TakeNothing(t) PROVE SoloOK'
  <2>1. /\ pc[t] = "scan" /\ pc' = [pc EXCEPT ![t] = "none"]
        /\ UNCHANGED <<timers, events, idleTerm, m_fibers>>
    BY <1>10 DEF TakeNothing, Goto, wakes, locals
  <2> QED BY <1>1, <2>1 DEF SoloOK, Waitless
<1>11. ASSUME NEW t \in Runners, GoIdle(t) PROVE SoloOK'
  <2>1. UNCHANGED <<timers, events, idleTerm, m_fibers>>
    BY <1>11 DEF GoIdle, wakes, locals
  <2>2. CASE Goto(t, "none", "exit")
    BY <1>1, <2>1, <2>2 DEF SoloOK, Waitless, Goto
  <2>3. CASE Goto(t, "none", "idle") /\ ~idleTerm[t]
    <3>1. idleTerm[t] # TRUE
      BY <2>3
    <3> QED BY <1>1, <2>1, <2>3, <3>1 DEF SoloOK, Waitless, Goto
  <2> QED BY <1>11, <2>2, <2>3 DEF GoIdle
<1>12. ASSUME NEW t \in Runners, IdlePending(t) PROVE SoloOK'
  <2>1. UNCHANGED <<timers, events, idleTerm, m_fibers>>
    BY <1>12 DEF IdlePending, wakes, locals
  <2>2. CASE Goto(t, "idle", "wait")
    BY <2>1, <2>2, <1>3
  <2>3. CASE ~PendingWakes /\ Goto(t, "idle", "check")
    <3>1. Waitless
      <4>1. CASE IO = FALSE
        BY <4>1 DEF SoloOK
      <4>2. CASE IO = TRUE
        <5>1. timers = {} /\ ~(m_pendingEventCount > 0)
          BY <2>3, <4>2 DEF PendingWakes
        <5>2. IsFiniteSet(events) /\ Cardinality(events) \in Nat
          BY FS_CardinalityType DEF EventsCounted
        <5>3. Cardinality(events) = 0
          BY <5>1, <5>2 DEF EventsCounted, TypeInv, DataType
        <5>4. events = {}
          BY <5>2, <5>3, FS_EmptySet
        <5> QED BY <5>1, <5>4 DEF Waitless
      <4> QED BY <1>1, <4>1, <4>2
    <3>2. pc[t] = "idle" /\ pc'[t] = "check" /\ \A u \in Runners : u = t
      BY <1>1, <2>3 DEF Goto, Solo
    <3>3. idleTerm[t] # TRUE
      BY <3>2 DEF SoloOK
    <3> QED BY <2>1, <3>1, <3>2, <3>3 DEF SoloOK, Waitless
  <2> QED BY <1>12, <2>2, <2>3 DEF IdlePending
<1>13. ASSUME NEW t \in Runners, IdleStopping(t) PROVE SoloOK'
  <2>1. UNCHANGED <<timers, events, m_fibers>>
    BY <1>13 DEF IdleStopping, wakes
  <2>2. CASE BaseStopping
    <3>1. /\ pc[t] = "check" /\ pc' = [pc EXCEPT ![t] = "scan"]
          /\ m_fibers = <<>> /\ \A u \in Runners : u = t
      BY <1>13, <2>2 DEF IdleStopping, BaseStopping, Goto, Solo
    <3>2. Waitless
      BY <3>1 DEF SoloOK
    <3> QED BY <1>1, <2>1, <3>1, <3>2 DEF SoloOK, Waitless
  <2>3. CASE ~BaseStopping
    <3>1. Goto(t, "check", "wait") /\ UNCHANGED idleTerm
      BY <1>13, <2>3 DEF IdleStopping
    <3> QED BY <2>1, <3>1, <1>3
  <2> QED BY <2>2, <2>3
<1>14. ASSUME NEW t \in Runners,
              \/ DropDead(t) \/ SwapInFiber(t) \/ SwapInCb(t) \/ SwappedOut(t)
              \/ HandleFiber(t) \/ HandleCb(t) \/ IdleYield(t) \/ IdleSchedule(t)
              \/ IdleTriggered(t) \/ YieldToReady(t) \/ YieldToHold(t) \/ MainFuncEnd(t)
              \/ SwapOut(t) \/ \E f \in Fibers : RunWake(t, f)
       PROVE  SoloOK'
  <2>1. UNCHANGED <<timers, events, idleTerm>>
    BY <1>14 DEF DropDead, SwapInFiber, SwapInCb, SwappedOut, HandleFiber, HandleCb,
       IdleYield, IdleSchedule, IdleTriggered, YieldToReady, YieldToHold, MainFuncEnd,
       SwapOut, RunWake, wakes, locals
  <2>2. \E a \in RunnerPc \ {"scan", "none", "exit"}, b \in RunnerPc \ {"off", "check"} :
          Goto(t, a, b)
    BY <1>14 DEF DropDead, SwapInFiber, SwapInCb, SwappedOut, HandleFiber, HandleCb,
       IdleYield, IdleSchedule, IdleTriggered, YieldToReady, YieldToHold, MainFuncEnd,
       SwapOut, RunWake, Goto, RunnerPc
  <2> QED BY <2>1, <2>2, <1>3
<1>15. ASSUME NEW t \in Runners, NEW f \in Fibers, IdleCollect(t, f) \/ IdleTrigger(t, f)
       PROVE  SoloOK'
  <2>1. IO # FALSE /\ UNCHANGED idleTerm
    BY <1>1, <1>15 DEF IdleCollect, IdleTrigger, locals
  <2>2. Goto(t, "wait", "post") \/ Goto(t, "wait", "trigger")
    BY <1>15 DEF IdleCollect, IdleTrigger
  <2> QED BY <2>1, <2>2, <1>3
<1>16. ASSUME NEW t \in Runners, UserArm(t) PROVE SoloOK'
  <2>1. "sleep" \in MaySwitch \/ "event" \in MaySwitch
    BY <1>16 DEF UserArm
  <2>2. IO # FALSE
    BY <2>1, SchedulerAssumption DEF SchedulerAssumption
  <2>3. Goto(t, "user", "armed") /\ UNCHANGED idleTerm
    BY <1>16 DEF UserArm, locals
  <2> QED BY <2>2, <2>3, <1>3
<1>17. CASE UNCHANGED vars
  BY <1>17, <1>2 DEF vars, wakes, locals
<1>18. CASE Control \/ Submit \/ Done
  BY <1>18, <1>4, <1>5, <1>6, <1>7, <1>17 DEF Control, Done
<1>19. ASSUME NEW t \in Runners, Loop(t) \/ Idle(t) \/ User(t) PROVE SoloOK'
  BY <1>19, <1>8, <1>9, <1>10, <1>11, <1>12, <1>13, <1>14, <1>15, <1>16
  DEF Loop, Idle, User
<1> QED BY <1>17, <1>18, <1>19 DEF Next

\* stop() of a scheduler with one runner, whatever its fibers wait for and
\* however often they are scheduled, returns only after every timer and every
\* event that holds a fiber has been served: the runner reads both halves of
\* stopping() without anybody coming between.
THEOREM SoloNoWaitLeft == Spec => [](Solo => NoWaitLeft)
<1> DEFINE SoloInv == Solo => EventsCounted /\ SoloOK
           All == TypeInv /\ FlagsType /\ Phases /\ PoolOK
<1>1. Init => SoloInv
  <2> SUFFICES ASSUME Init PROVE EventsCounted /\ SoloOK
    OBVIOUS
  <2>1. /\ events = {} /\ timers = {} /\ m_pendingEventCount = 0
        /\ \A t \in Runners : pc[t] = "off" /\ idleTerm[t] = FALSE
    BY DEF Init
  <2> QED BY <2>1, FS_EmptySet DEF EventsCounted, SoloOK, Waitless
<1>2. All /\ SoloInv /\ [Next]_vars => SoloInv'
  <2> SUFFICES ASSUME All, SoloInv, [Next]_vars, Solo' PROVE (EventsCounted /\ SoloOK)'
    OBVIOUS
  <2>1. Solo
    BY DEF Solo
  <2> QED BY <2>1, EventsStep, SoloStep
<1>3. All /\ SoloInv => (Solo => NoWaitLeft)
  <2> SUFFICES ASSUME All, EventsCounted, SoloOK, main = "done" PROVE Waitless
    BY DEF NoWaitLeft, Waitless
  <2>1. PICK t \in Runners : TRUE
    BY SchedulerAssumption DEF SchedulerAssumption
  <2>2. pc[t] = "off" \/ (pc[t] = "exit" /\ idleTerm[t] = TRUE)
    BY SchedulerAssumption DEF Phases, Runners, SchedulerAssumption
  <2> QED BY <2>2 DEF SoloOK
<1>4. Spec => []All
  BY PoolInvariant
<1> HIDE DEF SoloInv, All
<1> QED BY <1>1, <1>2, <1>3, <1>4, PTL DEF Spec
=============================================================================
