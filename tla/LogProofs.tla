----------------------------- MODULE LogProofs -----------------------------
(***************************************************************************)
(* Listeners end up with the value of their variable, loggers are as their *)
(* configuration says, log files hold the events of their last second, and *)
(* formatters spell their pattern, for any number of loading threads,      *)
(* documents, variables, listeners, definitions, writers, files, patterns. *)
(*                                                                         *)
(* ListenersAgree is about the moments when nobody sets the variable.      *)
(* Between them a listener has been told the new value or is still among   *)
(* those to call; that stays so because no listener can be added or taken  *)
(* away under the read lock, and because of two threads that set the       *)
(* variable at once one sees the other (raced).                            *)
(*                                                                         *)
(* LoggersAsConfigured adds the loggers, which the listener of "logs"      *)
(* changes call by call.  The list of calls is flattened from those for    *)
(* each logger, which stay together; so between two calls every logger has *)
(* had some first part of its own calls (Left, Done).                      *)
(*                                                                         *)
(* What a recursive function has for every argument is shown by induction  *)
(* on the numbers (Induct), with the property as a set of numbers.         *)
(***************************************************************************)
EXTENDS Log, SequenceTheorems, WellFoundedInduction, TLAPS

vars == <<configVars, logVars>>

LoadFields == {"pc", "todo", "new", "calls", "ops"}

\* What is known of the loaders and of the listeners.
LoadShape ==
  /\ DOMAIN load = Loaders
  /\ \A l \in Loaders :
       /\ DOMAIN load[l] = LoadFields
       /\ load[l].calls \subseteq Listeners
       /\ load[l].calls # {} => load[l].pc = "call" /\ Key(l) = Plain
       /\ Setting(l, Plain) => Plain \in DOMAIN val
  /\ cbs \subseteq Listeners /\ DOMAIN told = Listeners
  /\ Plain \notin DOMAIN val => cbs = {}

\* What listener i was told last is v; one that was added later was told nothing.
Knows(i, v) == told[i] # <<>> => told[i][2] = v

\* Only one thread at a time sets the variable ...
OneSetter ==
  \A l, m \in Loaders : Setting(l, Plain) /\ Setting(m, Plain) => l = m
\* ... it has told the new value to those it has called ...
ToldNew ==
  \A l \in Loaders : Setting(l, Plain) =>
    \A i \in cbs : (load[l].pc = "call" /\ i \in load[l].calls) \/ Knows(i, load[l].new)
\* ... and when there is none the listeners know the value.
ToldValue ==
  Plain \in DOMAIN val /\ (\A l \in Loaders : ~Setting(l, Plain)) =>
    \A i \in cbs : Knows(i, val[Plain])

ListenInv == LoadShape /\ (Plain \notin raced => OneSetter /\ ToldNew /\ ToldValue)

-----------------------------------------------------------------------------
\* A loader's step leaves the other loaders alone.
LEMMA SetLoadOthers ==
  ASSUME LoadShape, NEW l \in Loaders, NEW r, SetLoad(l, r)
  PROVE  /\ DOMAIN load' = Loaders /\ load'[l] = r
         /\ \A m \in Loaders \ {l} : load'[m] = load[m]
BY DEF LoadShape, SetLoad

\* Steps that neither begin nor end a change of the variable.
LEMMA ListenSame ==
  ASSUME ListenInv, UNCHANGED <<cbs, told, raced>>,
         /\ DOMAIN load' = Loaders
         /\ \A l \in Loaders :
              /\ DOMAIN load'[l] = LoadFields
              /\ load'[l].calls \subseteq load[l].calls
              /\ Setting(l, Plain)' <=> Setting(l, Plain)
              /\ Setting(l, Plain) => /\ load'[l].new = load[l].new
                                      /\ load'[l].calls = load[l].calls
                                      /\ load'[l].pc = load[l].pc \/ load[l].calls = {},
         /\ Plain \in DOMAIN val => Plain \in DOMAIN val' /\ val'[Plain] = val[Plain]
  PROVE  ListenInv'
<1>1. LoadShape'
  <2>1. ASSUME NEW l \in Loaders, load'[l].calls # {} PROVE load'[l].pc = "call" /\ Key(l)' = Plain
    <3>1. load[l].calls # {} /\ load[l].pc = "call" /\ Key(l) = Plain
      BY <2>1 DEF ListenInv, LoadShape
    <3>2. Setting(l, Plain) /\ Setting(l, Plain)'
      BY <3>1 DEF Setting
    <3> QED BY <3>1, <3>2 DEF Setting
  <2>2. ASSUME NEW l \in Loaders, Setting(l, Plain)' PROVE Plain \in DOMAIN val'
    BY <2>2 DEF ListenInv, LoadShape
  <2>3. \A l \in Loaders : load'[l].calls \subseteq Listeners
    BY DEF ListenInv, LoadShape
  <2>4. Plain \notin DOMAIN val' => cbs' = {}
    BY DEF ListenInv, LoadShape
  <2> QED BY <2>1, <2>2, <2>3, <2>4 DEF ListenInv, LoadShape
<1>2. CASE Plain \in raced
  BY <1>1, <1>2 DEF ListenInv
<1>3. CASE Plain \notin raced
  <2>1. OneSetter'
    BY <1>3 DEF ListenInv, OneSetter
  <2>2. ToldNew'
    BY <1>3 DEF ListenInv, ToldNew, Knows
  <2>3. ToldValue'
    BY <1>3 DEF ListenInv, ToldValue, Knows, LoadShape
  <2> QED BY <1>1, <2>1, <2>2, <2>3 DEF ListenInv
<1> QED BY <1>2, <1>3

\* A program that has loaded nothing has no listeners.
LEMMA ListenInit == Init => ListenInv
<1> SUFFICES ASSUME Init PROVE ListenInv
  OBVIOUS
<1>1. /\ load = [l \in Loaders |-> NoLoad] /\ cbs = {} /\ DOMAIN val = {}
      /\ told = [i \in Listeners |-> <<>>]
  BY DEF Init, ConfigInit
<1>2. \A l \in Loaders : /\ load[l].pc = "idle" /\ load[l].calls = {}
                         /\ DOMAIN load[l] = LoadFields
  BY <1>1 DEF NoLoad, LoadFields
<1> QED BY <1>1, <1>2 DEF ListenInv, LoadShape, OneSetter, ToldNew, ToldValue, Setting

\* Every step of a loader and of the threads that change listeners keeps it.
LEMMA ListenStep ==
  ASSUME ListenInv, [Next]_vars
  PROVE  ListenInv'
<1>0. LoadShape
  BY DEF ListenInv
<1>1. ASSUME UNCHANGED <<val, cbs, told, load, raced>> PROVE ListenInv'
  BY <1>0, <1>1, ListenSame DEF LoadShape, Setting, Key
<1>2. ASSUME NEW v \in Vars, Lookup(v) PROVE ListenInv'
  <2>1. /\ v \notin DOMAIN val /\ DOMAIN val' = DOMAIN val \cup {v}
        /\ \A u \in DOMAIN val : val'[u] = val[u]
        /\ UNCHANGED <<cbs, told, load, raced>>
    BY <1>2 DEF Lookup
  <2>2. Plain \in DOMAIN val => Plain \in DOMAIN val' /\ val'[Plain] = val[Plain]
    BY <2>1
  <2> QED BY <1>0, <2>1, <2>2, ListenSame DEF LoadShape, Setting, Key
<1>3. ASSUME NEW l \in Loaders, NEW doc \in Docs, LoadFromYaml(l, doc) PROVE ListenInv'
  <2> DEFINE r == [NoLoad EXCEPT !.pc = "next", !.todo = ListAllMember(doc)]
  <2>1. /\ load[l].pc = "idle" /\ SetLoad(l, r) /\ UNCHANGED <<val, cbs, told, raced>>
    BY <1>3 DEF LoadFromYaml
  <2>2. DOMAIN r = LoadFields /\ r.pc = "next" /\ r.calls = {}
    BY DEF NoLoad, LoadFields
  <2> HIDE DEF r
  <2>3. ~Setting(l, Plain) /\ ~Setting(l, Plain)'
    BY <1>0, <2>1, <2>2, SetLoadOthers DEF Setting
  <2> QED BY <1>0, <2>1, <2>2, <2>3, SetLoadOthers, ListenSame DEF LoadShape, Setting, Key
<1>4. ASSUME NEW l \in Loaders, SkipKey(l) PROVE ListenInv'
  <2> DEFINE r == [load[l] EXCEPT !.todo = Tail(@)]
  <2>1. load[l].pc = "next" /\ SetLoad(l, r) /\ UNCHANGED <<val, cbs, told, raced>>
    BY <1>4 DEF SkipKey
  <2>2. DOMAIN r = LoadFields /\ r.pc = "next" /\ r.calls = load[l].calls
    BY <1>0, <2>1 DEF LoadShape, LoadFields
  <2> HIDE DEF r
  <2>3. ~Setting(l, Plain) /\ ~Setting(l, Plain)'
    BY <1>0, <2>1, <2>2, SetLoadOthers DEF Setting
  <2> QED BY <1>0, <2>1, <2>2, <2>3, SetLoadOthers, ListenSame DEF LoadShape, Setting, Key
<1>5. ASSUME NEW l \in Loaders, LoadDone(l) PROVE ListenInv'
  <2>1. load[l].pc = "next" /\ SetLoad(l, NoLoad) /\ UNCHANGED <<val, cbs, told, raced>>
    BY <1>5 DEF LoadDone
  <2>2. DOMAIN NoLoad = LoadFields /\ NoLoad.pc = "idle" /\ NoLoad.calls = {}
    BY DEF NoLoad, LoadFields
  <2>3. ~Setting(l, Plain) /\ ~Setting(l, Plain)'
    BY <1>0, <2>1, <2>2, SetLoadOthers DEF Setting
  <2> QED BY <1>0, <2>1, <2>2, <2>3, SetLoadOthers, ListenSame DEF LoadShape, Setting, Key
\* A thread begins to set a variable: if it is this one and another thread is
\* at it already, the variable is raced from now on.
<1>6. ASSUME NEW l \in Loaders, SetKey(l) PROVE ListenInv'
  <2>1. PICK x, ops : SetValue(l, x, ops) /\ x \in NewValue(l)
    BY <1>6 DEF SetKey
  <2> DEFINE r == [load[l] EXCEPT !.pc = "call", !.new = x, !.ops = ops,
                      !.calls = IF Key(l) = Plain THEN cbs ELSE {}]
  <2>2. /\ load[l].pc = "next" /\ SetLoad(l, r) /\ UNCHANGED <<val, cbs, told>>
        /\ raced' = IF \E m \in Loaders \ {l} : Setting(m, Key(l)) THEN raced \cup {Key(l)}
                    ELSE raced
        /\ Key(l) \in DOMAIN val
    BY <2>1 DEF SetValue, NewValue
  <2>3. /\ DOMAIN r = LoadFields /\ r.pc = "call" /\ r.todo = load[l].todo /\ r.new = x
        /\ r.calls = IF Key(l) = Plain THEN cbs ELSE {}
    BY <1>0 DEF LoadShape, LoadFields
  <2> HIDE DEF r
  <2>4. /\ DOMAIN load' = Loaders /\ load'[l] = r
        /\ \A m \in Loaders \ {l} : load'[m] = load[m] /\ (Setting(m, Plain)' <=> Setting(m, Plain))
    BY <1>0, <2>2, SetLoadOthers DEF Setting, Key
  <2>5. /\ ~Setting(l, Plain) /\ (Setting(l, Plain)' <=> Key(l) = Plain)
    BY <2>2, <2>3, <2>4 DEF Setting, Key
  <2>6. LoadShape'
    <3>1. load'[l].calls \subseteq Listeners /\ DOMAIN load'[l] = LoadFields
      BY <1>0, <2>3, <2>4 DEF LoadShape
    <3>2. load'[l].calls # {} => load'[l].pc = "call" /\ Key(l)' = Plain
      BY <2>3, <2>4 DEF Key
    <3>3. Setting(l, Plain)' => Plain \in DOMAIN val
      BY <2>2, <2>5
    <3>4. \A m \in Loaders \ {l} : Key(m)' = Key(m)
      BY <2>4 DEF Key
    <3> QED BY <1>0, <2>2, <2>4, <3>1, <3>2, <3>3, <3>4 DEF LoadShape
  <2>7. ASSUME Plain \notin raced' PROVE OneSetter' /\ ToldNew' /\ ToldValue'
    <3>1. Plain \notin raced /\ OneSetter /\ ToldNew /\ ToldValue
      BY <2>2, <2>7 DEF ListenInv
    <3>2. CASE Key(l) = Plain
      <4>1. \A m \in Loaders \ {l} : ~Setting(m, Plain)'
        BY <2>2, <2>4, <2>7, <3>2
      <4> QED BY <2>2, <2>3, <2>4, <2>5, <3>2, <4>1 DEF OneSetter, ToldNew, ToldValue
    <3>3. CASE Key(l) # Plain
      <4>1. OneSetter' /\ ToldValue'
        BY <2>2, <2>4, <2>5, <3>1, <3>3 DEF OneSetter, ToldValue, Knows
      <4>2. ToldNew'
        BY <2>2, <2>4, <2>5, <3>1, <3>3 DEF ToldNew, Knows
      <4> QED BY <4>1, <4>2
    <3> QED BY <3>2, <3>3
  <2> QED BY <2>6, <2>7 DEF ListenInv
\* A listener is called with the new value.
<1>7. ASSUME NEW l \in Loaders, CallListener(l) PROVE ListenInv'
  <2>1. PICK i \in load[l].calls :
          /\ told' = [told EXCEPT ![i] = <<val[Plain], load[l].new>>]
          /\ SetLoad(l, [load[l] EXCEPT !.calls = @ \ {i}])
    BY <1>7 DEF CallListener, FirstOf
  <2> DEFINE r == [load[l] EXCEPT !.calls = @ \ {i}]
  <2>2. load[l].pc = "call" /\ SetLoad(l, r) /\ UNCHANGED <<val, cbs, raced>>
    BY <1>7, <2>1 DEF CallListener
  <2>3. /\ DOMAIN r = LoadFields /\ r.pc = "call" /\ r.todo = load[l].todo
        /\ r.new = load[l].new /\ r.calls = load[l].calls \ {i}
    BY <1>0, <2>2 DEF LoadShape, LoadFields
  <2> HIDE DEF r
  <2>4. /\ DOMAIN load' = Loaders /\ load'[l] = r
        /\ \A m \in Loaders \ {l} : load'[m] = load[m]
        /\ \A m \in Loaders : Setting(m, Plain)' <=> Setting(m, Plain)
    BY <1>0, <2>2, <2>3, SetLoadOthers DEF Setting, Key
  <2>5. i \in Listeners /\ Setting(l, Plain)
    BY <1>0, <2>1 DEF LoadShape, Setting
  <2>6. LoadShape'
    BY <1>0, <2>1, <2>2, <2>3, <2>4, <2>5 DEF LoadShape, Setting, Key
  <2>7. ASSUME Plain \notin raced' PROVE OneSetter' /\ ToldNew' /\ ToldValue'
    <3>1. OneSetter /\ ToldNew
      BY <2>2, <2>7 DEF ListenInv
    <3>2. OneSetter' /\ ToldValue'
      BY <2>4, <2>5, <3>1 DEF OneSetter, ToldValue
    <3>3. \A m \in Loaders : Setting(m, Plain)' => m = l
      BY <2>4, <2>5, <3>1 DEF OneSetter
    <3>4. Knows(i, load[l].new)'
      <4>1. told'[i] = <<val[Plain], load[l].new>> /\ load'[l].new = load[l].new
        BY <1>0, <2>1, <2>3, <2>4, <2>5 DEF LoadShape
      <4> QED BY <4>1 DEF Knows
    <3>5. ASSUME NEW j \in cbs, j # i
          PROVE  (load'[l].pc = "call" /\ j \in load'[l].calls) \/ Knows(j, load[l].new)'
      <4>1. told'[j] = told[j] /\ load'[l].new = load[l].new
        BY <1>0, <2>1, <2>3, <2>4, <3>5 DEF LoadShape
      <4>2. (load[l].pc = "call" /\ j \in load[l].calls) \/ Knows(j, load[l].new)
        BY <2>5, <3>1, <3>5 DEF ToldNew
      <4> QED BY <2>2, <2>3, <2>4, <3>5, <4>1, <4>2 DEF Knows
    <3>6. ToldNew'
      BY <2>2, <3>3, <3>4, <3>5 DEF ToldNew
    <3> QED BY <3>2, <3>6
  <2> QED BY <2>6, <2>7 DEF ListenInv
<1>8. ASSUME NEW l \in Loaders, ApplyOp(l) PROVE ListenInv'
  <2> DEFINE r == [load[l] EXCEPT !.ops = Tail(@)]
  <2>1. load[l].pc = "call" /\ SetLoad(l, r) /\ UNCHANGED <<val, cbs, told, raced>>
    BY <1>8 DEF ApplyOp
  <2>2. /\ DOMAIN r = LoadFields /\ r.pc = "call" /\ r.calls = load[l].calls
        /\ r.todo = load[l].todo /\ r.new = load[l].new
    BY <1>0, <2>1 DEF LoadShape, LoadFields
  <2> HIDE DEF r
  <2>3. Setting(l, Plain)' <=> Setting(l, Plain)
    BY <1>0, <2>1, <2>2, SetLoadOthers DEF Setting, Key
  <2> QED BY <1>0, <2>1, <2>2, <2>3, SetLoadOthers, ListenSame DEF LoadShape, Setting, Key
<1>9. ASSUME NEW l \in Loaders, Called(l) PROVE ListenInv'
  <2> DEFINE r == [load[l] EXCEPT !.pc = "write"]
  <2>1. /\ load[l].pc = "call" /\ load[l].calls = {} /\ SetLoad(l, r)
        /\ UNCHANGED <<val, cbs, told, raced>>
    BY <1>9 DEF Called
  <2>2. /\ DOMAIN r = LoadFields /\ r.pc = "write" /\ r.calls = load[l].calls
        /\ r.todo = load[l].todo /\ r.new = load[l].new
    BY <1>0, <2>1 DEF LoadShape, LoadFields
  <2> HIDE DEF r
  <2>3. /\ DOMAIN load' = Loaders /\ load'[l] = r
        /\ \A m \in Loaders \ {l} : load'[m] = load[m]
    BY <1>0, <2>1, SetLoadOthers
  <2>4. \A m \in Loaders : Setting(m, Plain)' <=> Setting(m, Plain)
    BY <2>1, <2>2, <2>3 DEF Setting, Key
  <2>5. \A m \in Loaders : DOMAIN load'[m] = LoadFields /\ load'[m].calls = load[m].calls
                            /\ load'[m].new = load[m].new
    BY <1>0, <2>1, <2>2, <2>3 DEF LoadShape
  <2>6. \A m \in Loaders : load'[m].pc = load[m].pc \/ load[m].calls = {}
    BY <2>1, <2>3
  <2> QED BY <2>1, <2>3, <2>4, <2>5, <2>6, ListenSame
\* The value that the listeners were told is written.
<1>10. ASSUME NEW l \in Loaders, WriteValue(l) PROVE ListenInv'
  <2> DEFINE r == [load[l] EXCEPT !.pc = "next", !.new = 0, !.todo = Tail(@)]
  <2>1. /\ load[l].pc = "write" /\ SetLoad(l, r) /\ UNCHANGED <<cbs, told, raced>>
        /\ val' = [val EXCEPT ![Key(l)] = load[l].new]
    BY <1>10 DEF WriteValue
  <2>2. DOMAIN r = LoadFields /\ r.pc = "next" /\ r.calls = load[l].calls
    BY <1>0, <2>1 DEF LoadShape, LoadFields
  <2> HIDE DEF r
  <2>3. /\ DOMAIN load' = Loaders /\ load'[l] = r
        /\ \A m \in Loaders \ {l} : load'[m] = load[m] /\ (Setting(m, Plain)' <=> Setting(m, Plain))
        /\ ~Setting(l, Plain)'
    BY <1>0, <2>1, <2>2, SetLoadOthers DEF Setting, Key
  <2>4. CASE Key(l) # Plain
    <3>1. ~Setting(l, Plain) /\ DOMAIN val' = DOMAIN val
      BY <2>1, <2>4 DEF Setting
    <3>2. Plain \in DOMAIN val => val'[Plain] = val[Plain]
      BY <2>1, <2>4
    <3> QED BY <1>0, <2>1, <2>2, <2>3, <3>1, <3>2, ListenSame DEF LoadShape
  <2>5. CASE Key(l) = Plain
    <3>1. Setting(l, Plain) /\ Plain \in DOMAIN val /\ DOMAIN val' = DOMAIN val
      BY <1>0, <2>1, <2>5 DEF Setting, LoadShape
    <3>2. LoadShape'
      BY <1>0, <2>1, <2>2, <2>3, <3>1 DEF LoadShape, Setting, Key
    <3>3. ASSUME Plain \notin raced' PROVE OneSetter' /\ ToldNew' /\ ToldValue'
      <4>1. OneSetter /\ ToldNew
        BY <2>1, <3>3 DEF ListenInv
      <4>2. \A m \in Loaders : ~Setting(m, Plain)'
        BY <2>3, <3>1, <4>1 DEF OneSetter
      <4>3. val'[Plain] = load[l].new
        BY <2>1, <2>5, <3>1
      <4>4. \A i \in cbs : Knows(i, load[l].new)
        BY <2>1, <3>1, <4>1 DEF ToldNew
      <4>5. ToldValue'
        BY <2>1, <4>3, <4>4 DEF ToldValue, Knows
      <4> QED BY <4>2, <4>5 DEF OneSetter, ToldNew
    <3> QED BY <3>2, <3>3 DEF ListenInv
  <2> QED BY <2>4, <2>5
\* Under the write lock no loader is between the calls.
<1>11. ASSUME NEW i \in Listeners, AddListener(i) PROVE ListenInv'
  <2>1. /\ Plain \in DOMAIN val /\ Unlocked(Plain) /\ i \notin cbs /\ cbs' = cbs \cup {i}
        /\ told' = [told EXCEPT ![i] = IF \E l \in Loaders : Setting(l, Plain) THEN <<>>
                                       ELSE <<val[Plain], val[Plain]>>]
        /\ UNCHANGED <<val, load, raced>>
    BY <1>11 DEF AddListener
  <2>2. \A l \in Loaders : Setting(l, Plain)' <=> Setting(l, Plain)
    BY <2>1 DEF Setting, Key
  <2>3. \A l \in Loaders : ~(load[l].pc = "call" /\ Key(l) = Plain)
    BY <2>1 DEF Unlocked, Holds
  <2>4. LoadShape'
    BY <1>0, <2>1, <2>2 DEF LoadShape, Key
  <2>5. ASSUME Plain \notin raced' PROVE OneSetter' /\ ToldNew' /\ ToldValue'
    <3>1. OneSetter /\ ToldNew /\ ToldValue
      BY <2>1, <2>5 DEF ListenInv
    <3>2. OneSetter'
      BY <2>2, <3>1 DEF OneSetter
    <3>3. \A j \in cbs : told'[j] = told[j]
      BY <1>0, <2>1 DEF LoadShape
    <3>4. ToldNew'
      BY <1>0, <2>1, <2>2, <3>1, <3>3 DEF ToldNew, Knows, LoadShape
    <3>5. ToldValue'
      BY <1>0, <2>1, <2>2, <3>1, <3>3 DEF ToldValue, Knows, LoadShape
    <3> QED BY <3>2, <3>4, <3>5
  <2> QED BY <2>4, <2>5 DEF ListenInv
<1>12. ASSUME ClearListener \/ \E i \in Listeners : DelListener(i) PROVE ListenInv'
  <2>1. /\ cbs' \subseteq cbs /\ DOMAIN told' = Listeners
        /\ \A j \in cbs' : told'[j] = told[j]
        /\ UNCHANGED <<val, load, raced>>
    BY <1>0, <1>12 DEF ClearListener, DelListener, LoadShape
  <2>2. \A l \in Loaders : Setting(l, Plain)' <=> Setting(l, Plain)
    BY <2>1 DEF Setting, Key
  <2>3. LoadShape'
    BY <1>0, <2>1, <2>2 DEF LoadShape, Key
  <2>4. ASSUME Plain \notin raced' PROVE OneSetter' /\ ToldNew' /\ ToldValue'
    <3>1. OneSetter /\ ToldNew /\ ToldValue
      BY <2>1, <2>4 DEF ListenInv
    <3> QED BY <2>1, <2>2, <3>1 DEF OneSetter, ToldNew, ToldValue, Knows
  <2> QED BY <2>3, <2>4 DEF ListenInv
<1>13. ASSUME UNCHANGED configVars PROVE ListenInv'
  BY <1>13, <1>1 DEF configVars
<1>14. ASSUME [Next]_vars PROVE ListenInv'
  BY <1>14, <1>2, <1>3, <1>4, <1>5, <1>6, <1>7, <1>8, <1>9, <1>10, <1>11, <1>12, <1>13
  DEF Next, Own, vars
<1> QED BY <1>14

\* Whatever threads load and whichever listeners come and go, when nobody sets
\* the variable its listeners know its value, unless two threads once set it at
\* the same time.
THEOREM ConfigListenersAgree == Spec => []ListenersAgree
<1>1. ListenInv => ListenersAgree
  BY DEF ListenInv, ToldValue, Knows, ListenersAgree
<1>2. ListenInv /\ [Next]_vars => ListenInv'
  BY ListenStep
<1> QED BY <1>1, <1>2, ListenInit, PTL DEF Spec, vars

-----------------------------------------------------------------------------
\* What an appender has logged at time t: m_lastTime is the second of the last.
Event == [by : Writers, sec : Nat]
StreamFields == {"file", "last", "pos", "buf", "wrote", "alone"}
StreamOK(r, t) ==
  /\ DOMAIN r = StreamFields
  /\ r.wrote \in Seq(Event) /\ r.last \in 0 .. t
  /\ \A i \in 1 .. Len(r.wrote) : r.wrote[i].sec <= r.last
  /\ r.wrote = <<>> => r.last = 0
  /\ r.wrote # <<>> => r.last = r.wrote[Len(r.wrote)].sec
\* Sequence s is what it has logged in the second of m_lastTime.
LastSecond(s, r) ==
  \E k \in 0 .. Len(r.wrote) :
    /\ s = SubSeq(r.wrote, k + 1, Len(r.wrote))
    /\ \A i \in 1 .. Len(r.wrote) : i > k <=> r.wrote[i].sec = r.last
\* File c and the buffer of r have it, and the stream is at the file's end.
FileOK(c, r) ==
  /\ c \in Seq(Event) /\ r.buf \in Seq(Event) /\ r.pos = Len(c)
  /\ LastSecond(c \o r.buf, r)

FilesInv ==
  /\ now \in Nat \ {0}
  /\ \A a \in DOMAIN stream :
       /\ stream[a].file \in DOMAIN file /\ StreamOK(stream[a], now)
       /\ stream[a].alone =>
            /\ FileOK(file[stream[a].file], stream[a])
            /\ \A b \in DOMAIN stream : a # b => stream[a].file # stream[b].file

\* The end of a longer sequence.
LEMMA SubSeqAppend ==
  ASSUME NEW S, NEW s \in Seq(S), NEW e \in S, NEW k \in 0 .. Len(s)
  PROVE  /\ SubSeq(Append(s, e), k + 1, Len(s) + 1) = Append(SubSeq(s, k + 1, Len(s)), e)
         /\ SubSeq(Append(s, e), Len(s) + 1, Len(s) + 1) = <<e>>
<1> DEFINE t == Append(s, e)
           n == Len(s)
<1>1. n \in Nat /\ t \in Seq(S) /\ Len(t) = n + 1
  OBVIOUS
<1>2. \A i \in 1 .. n : t[i] = s[i]
  OBVIOUS
<1>3. t[n + 1] = e
  OBVIOUS
<1> HIDE DEF t, n
<1>4. SubSeq(t, k + 1, n + 1) = [i \in 1 .. n - k + 1 |-> t[i + k]]
  BY <1>1 DEF n
<1>5. Append(SubSeq(s, k + 1, n), e) = [i \in 1 .. n - k + 1 |-> IF i = n - k + 1 THEN e ELSE s[i + k]]
  BY <1>1 DEF n
<1>6. \A i \in 1 .. n - k + 1 : t[i + k] = IF i = n - k + 1 THEN e ELSE s[i + k]
  <2> TAKE i \in 1 .. n - k + 1
  <2>1. k \in 0 .. n
    BY DEF n
  <2>2. CASE i = n - k + 1
    BY <1>1, <1>3, <2>1, <2>2
  <2>3. CASE i # n - k + 1
    <3>1. i + k \in 1 .. n
      BY <1>1, <2>1, <2>3
    <3> QED BY <1>2, <2>3, <3>1
  <2> QED BY <2>2, <2>3
<1>7. [i \in 1 .. n - k + 1 |-> t[i + k]]
        = [i \in 1 .. n - k + 1 |-> IF i = n - k + 1 THEN e ELSE s[i + k]]
  BY <1>6, Zenon
<1>8. SubSeq(t, k + 1, n + 1) = Append(SubSeq(s, k + 1, n), e)
  BY <1>4, <1>5, <1>7, Zenon
<1>9. SubSeq(t, n + 1, n + 1) = <<e>>
  <2>1. SubSeq(t, n + 1, n + 1) = [i \in 1 .. 1 |-> t[i + n]]
    BY <1>1
  <2>2. \A i \in 1 .. 1 : t[i + n] = e
    BY <1>1, <1>3
  <2>3. [i \in 1 .. 1 |-> t[i + n]] = [i \in 1 .. 1 |-> e]
    BY <2>2, Zenon
  <2>4. <<e>> = [i \in 1 .. 1 |-> e]
    OBVIOUS
  <2> QED BY <2>1, <2>3, <2>4, Zenon
<1> QED BY <1>8, <1>9 DEF t, n

\* What a stream has logged after an event e at the present time.
LEMMA LoggedOK ==
  ASSUME NEW r, NEW q, NEW t \in Nat \ {0}, StreamOK(r, t), NEW e \in Event, e.sec = t,
         DOMAIN q = StreamFields, q.wrote = Append(r.wrote, e), q.last = t
  PROVE  /\ StreamOK(q, t)
         /\ r.last # t => LastSecond(<<e>>, q)
         /\ r.last = t => \A s \in Seq(Event) : LastSecond(s, r) => LastSecond(Append(s, e), q)
<1> DEFINE n == Len(r.wrote)
<1>3. r.wrote \in Seq(Event) /\ r.last \in 0 .. t /\ n \in Nat
  BY DEF StreamOK
<1>4. /\ q.wrote \in Seq(Event) /\ Len(q.wrote) = n + 1 /\ q.wrote # <<>>
      /\ \A i \in 1 .. n : q.wrote[i] = r.wrote[i]
      /\ q.wrote[n + 1] = e
  <2>1. PICK s \in Seq(Event) : s = r.wrote
    BY <1>3
  <2>2. /\ Append(s, e) \in Seq(Event) /\ Len(Append(s, e)) = Len(s) + 1 /\ Append(s, e) # <<>>
        /\ \A i \in 1 .. Len(s) : Append(s, e)[i] = s[i]
        /\ Append(s, e)[Len(s) + 1] = e
    BY AppendProperties
  <2> QED BY <2>1, <2>2
<1>5. \A i \in 1 .. n : r.wrote[i].sec <= r.last /\ r.wrote[i].sec \in Nat
  <2> TAKE i \in 1 .. n
  <2>1. r.wrote[i].sec <= r.last
    BY DEF StreamOK
  <2>2. r.wrote[i] \in Event
    BY <1>3
  <2> QED BY <2>1, <2>2 DEF Event
<1>6. \A i \in 1 .. n + 1 : q.wrote[i].sec <= t
  <2> TAKE i \in 1 .. n + 1
  <2>1. CASE i = n + 1
    BY <1>4, <2>1
  <2>2. CASE i \in 1 .. n
    BY <1>3, <1>4, <1>5, <2>2, SMTT(60)
  <2> QED BY <1>3, <2>1, <2>2
<1>7. q.wrote[Len(q.wrote)].sec = t
  BY <1>3, <1>4
<1>8. StreamOK(q, t)
  BY <1>4, <1>6, <1>7 DEF StreamOK
<1>9. ASSUME r.last # t PROVE LastSecond(<<e>>, q)
  <2>1. <<e>> = SubSeq(q.wrote, n + 1, n + 1)
    BY <1>3, SubSeqAppend
  <2>2. \A i \in 1 .. n + 1 : i > n <=> q.wrote[i].sec = t
    <3> TAKE i \in 1 .. n + 1
    <3>1. CASE i = n + 1
      BY <1>3, <1>4, <3>1
    <3>2. CASE i \in 1 .. n
      <4>1. r.wrote[i].sec < t
        BY <1>3, <1>5, <1>9, <3>2
      <4>2. q.wrote[i].sec # t
        BY <1>4, <1>5, <3>2, <4>1
      <4>3. ~(i > n)
        BY <1>3, <3>2
      <4> QED BY <4>2, <4>3
    <3> QED BY <1>3, <3>1, <3>2
  <2>3. n \in 0 .. n + 1
    BY <1>3
  <2> QED BY <1>4, <2>1, <2>2, <2>3 DEF LastSecond
<1>10. ASSUME r.last = t, NEW s \in Seq(Event), LastSecond(s, r)
       PROVE  LastSecond(Append(s, e), q)
  <2>1. PICK k \in 0 .. n :
          /\ s = SubSeq(r.wrote, k + 1, n)
          /\ \A i \in 1 .. n : i > k <=> r.wrote[i].sec = r.last
    BY <1>10 DEF LastSecond
  <2>2. Append(s, e) = SubSeq(q.wrote, k + 1, n + 1)
    BY <1>3, <2>1, SubSeqAppend
  <2>3. \A i \in 1 .. n + 1 : i > k <=> q.wrote[i].sec = t
    <3> TAKE i \in 1 .. n + 1
    <3>1. CASE i = n + 1
      BY <1>3, <1>4, <2>1, <3>1
    <3>2. CASE i \in 1 .. n
      BY <1>4, <1>10, <2>1, <3>2
    <3> QED BY <1>3, <3>1, <3>2
  <2>4. k \in 0 .. n + 1
    BY <1>3, <2>1
  <2> QED BY <1>4, <2>2, <2>3, <2>4 DEF LastSecond
<1> QED BY <1>8, <1>9, <1>10

\* A stream at the end of its file adds its buffer to it.
LEMMA FlushedAtEnd ==
  ASSUME NEW c \in Seq(Event), NEW r, r.buf \in Seq(Event), r.pos = Len(c)
  PROVE  /\ Flushed(c, r) = c \o r.buf
         /\ Flushed(c, r) \in Seq(Event)
         /\ Len(Flushed(c, r)) = r.pos + Len(r.buf)
         /\ Flushed(c, r) \o <<>> = Flushed(c, r)
<1>1. PICK b \in Seq(Event) : b = r.buf
  OBVIOUS
<1>2. c \o b \in Seq(Event) /\ Len(c \o b) = Len(c) + Len(b)
  OBVIOUS
<1>3. Flushed(c, r) = c \o b
  <2>1. CASE b = <<>>
    BY <1>1, <2>1 DEF Flushed
  <2>2. CASE b # <<>>
    <3> DEFINE end == Len(c) + Len(b)
               At(i) == IF i \in Len(c) + 1 .. end THEN b[i - Len(c)]
                        ELSE IF i <= Len(c) THEN c[i] ELSE 0
    <3>1. Flushed(c, r) = [i \in 1 .. IF end > Len(c) THEN end ELSE Len(c) |-> At(i)]
      BY <1>1, <2>2 DEF Flushed
    <3>2. end > Len(c)
      BY <2>2
    <3>3. \A i \in 1 .. end : At(i) = (c \o b)[i]
      BY <3>2
    <3>4. c \o b = [i \in 1 .. end |-> (c \o b)[i]]
      <4>1. \A t \in Seq(Event) : t = [i \in 1 .. Len(t) |-> t[i]]
        OBVIOUS
      <4> QED BY <1>2, <4>1
    <3>5. (IF end > Len(c) THEN end ELSE Len(c)) = end
      BY <3>2
    <3> HIDE DEF At, end
    <3> QED BY <3>1, <3>3, <3>4, <3>5, Zenon
  <2> QED BY <2>1, <2>2
<1>4. (c \o b) \o <<>> = c \o b
  BY <1>2
<1> QED BY <1>1, <1>2, <1>3, <1>4

\* The files' invariant holds at the start ...
LEMMA FilesInit == Init => FilesInv
BY DEF Init, LogInit, FilesInv

\* ... an appender that opens its file keeps it ...
LEMMA OpenKeeps ==
  ASSUME FilesInv, NEW a, NEW f, OpenStream(a, f), now' = now
  PROVE  FilesInv'
<1> DEFINE new == [NoStream EXCEPT !.file = f, !.alone = (Sharing(a, f) = {})]
<1>1. /\ DOMAIN stream' = DOMAIN stream \cup {a}
      /\ stream'[a] = new
      /\ \A b \in DOMAIN stream \ {a} :
           stream'[b] = IF stream[b].file = f THEN [stream[b] EXCEPT !.alone = FALSE] ELSE stream[b]
  BY DEF OpenStream
<1>2. /\ DOMAIN file' = DOMAIN file \cup {f} /\ file'[f] = <<>>
      /\ \A g \in DOMAIN file \ {f} : file'[g] = file[g]
  BY DEF OpenStream
<1>3. /\ DOMAIN new = StreamFields /\ new.file = f /\ new.last = 0 /\ new.pos = 0 /\ new.buf = <<>> /\ new.wrote = <<>>
      /\ new.alone = (Sharing(a, f) = {})
  BY DEF NoStream, StreamFields
<1> HIDE DEF new
<1>4. StreamOK(new, now) /\ FileOK(<<>>, new)
  <2>1. now \in Nat /\ new.wrote \in Seq(Event) /\ Len(new.wrote) = 0
    BY <1>3 DEF FilesInv
  <2>2. StreamOK(new, now)
    BY <1>3, <2>1 DEF StreamOK
  <2>3. SubSeq(new.wrote, 0 + 1, Len(new.wrote)) = <<>> /\ <<>> \o <<>> = <<>>
    BY <1>3, <2>1
  <2>4. 0 \in 0 .. Len(new.wrote)
    BY <2>1
  <2>5. \A i \in 1 .. Len(new.wrote) : i > 0 <=> new.wrote[i].sec = new.last
    BY <2>1
  <2>6. LastSecond(<<>> \o new.buf, new)
    BY <1>3, <2>3, <2>4, <2>5 DEF LastSecond
  <2>7. <<>> \in Seq(Event) /\ Len(<<>>) = 0
    OBVIOUS
  <2> QED BY <1>3, <2>2, <2>6, <2>7 DEF FileOK
<1>5. ASSUME NEW b \in DOMAIN stream \ {a}
      PROVE  /\ stream'[b].file = stream[b].file /\ stream[b].file \in DOMAIN file
             /\ StreamOK(stream'[b], now)
             /\ stream'[b].alone => stream'[b] = stream[b] /\ stream[b].file # f
  <2>1. stream[b].file \in DOMAIN file /\ StreamOK(stream[b], now)
    BY <1>5 DEF FilesInv
  <2>2. CASE stream[b].file # f
    BY <1>1, <1>5, <2>1, <2>2
  <2>3. CASE stream[b].file = f
    <3> DEFINE q == [stream[b] EXCEPT !.alone = FALSE]
    <3>1. stream'[b] = q
      BY <1>1, <1>5, <2>3
    <3>2. DOMAIN stream[b] = StreamFields
      BY <2>1 DEF StreamOK
    <3>3. /\ q.file = stream[b].file /\ q.wrote = stream[b].wrote /\ q.last = stream[b].last
          /\ DOMAIN q = StreamFields /\ ~q.alone
      BY <3>2 DEF StreamFields
    <3> QED BY <2>1, <3>1, <3>3 DEF StreamOK
  <2> QED BY <2>2, <2>3
<1> DEFINE s == stream'
           g == file'
<1>6. ASSUME NEW b \in DOMAIN s
      PROVE  s[b].file \in DOMAIN g /\ StreamOK(s[b], now)
  BY <1>1, <1>2, <1>3, <1>4, <1>5, <1>6
<1>7. ASSUME NEW b \in DOMAIN s, s[b].alone
      PROVE  /\ FileOK(g[s[b].file], s[b])
             /\ \A d \in DOMAIN s : b # d => s[b].file # s[d].file
  <2>1. CASE b = a
    <3>1. s[b] = new /\ Sharing(a, f) = {} /\ g[s[b].file] = <<>>
      BY <1>1, <1>2, <1>3, <1>7, <2>1
    <3>2. \A d \in DOMAIN s : b # d => f # s[d].file
      BY <1>1, <1>5, <2>1, <3>1 DEF Sharing
    <3> QED BY <1>3, <1>4, <3>1, <3>2
  <2>2. CASE b # a
    <3>1. b \in DOMAIN stream \ {a}
      BY <1>1, <1>7, <2>2
    <3>2. s[b] = stream[b] /\ stream[b].file # f /\ stream[b].file \in DOMAIN file
      BY <1>5, <1>7, <3>1
    <3>3. /\ FileOK(file[stream[b].file], stream[b])
          /\ \A d \in DOMAIN stream : b # d => stream[b].file # stream[d].file
      BY <1>7, <3>1, <3>2 DEF FilesInv
    <3>4. g[s[b].file] = file[stream[b].file]
      BY <1>2, <3>2
    <3>5. \A d \in DOMAIN s : b # d => s[b].file # s[d].file
      BY <1>1, <1>3, <1>5, <3>2, <3>3
    <3> QED BY <3>2, <3>3, <3>4, <3>5
  <2> QED BY <2>1, <2>2
<1>8. now' \in Nat \ {0}
  BY DEF FilesInv
<1> QED BY <1>6, <1>7, <1>8 DEF FilesInv

\* ... as do appenders that go, whose files no stream has to itself ...
LEMMA CloseKeeps ==
  ASSUME FilesInv, NEW n, CloseStreams(n), now' = now
  PROVE  FilesInv'
<1> DEFINE gone == {a \in DOMAIN stream : a[1] = n}
<1>1. /\ DOMAIN stream' = DOMAIN stream \ gone
      /\ \A a \in DOMAIN stream' : stream'[a] = stream[a]
  BY DEF CloseStreams
<1>2. /\ DOMAIN file' = DOMAIN file
      /\ \A f \in DOMAIN file : (\A a \in gone : stream[a].file # f) => file'[f] = file[f]
  BY DEF CloseStreams
<1>3. \A a \in DOMAIN stream' : stream[a].alone =>
        \A b \in gone : stream[b].file # stream[a].file
  BY <1>1 DEF FilesInv
<1> HIDE DEF gone
<1> QED BY <1>1, <1>2, <1>3 DEF FilesInv

\* ... and an event that an appender logs.
LEMMA LogKeeps ==
  ASSUME FilesInv, NEW a \in DOMAIN stream, NEW w \in Writers,
         FileLog(a, [by |-> w, sec |-> now]), now' = now
  PROVE  FilesInv'
<1> DEFINE e == [by |-> w, sec |-> now]
           r == stream[a]
           q == Logged(a, e)
           c == IF NewSecond(r, e.sec) THEN <<>> ELSE file[r.file]
           z == [q EXCEPT !.pos = @ + Len(q.buf), !.buf = <<>>]
<1>1. now \in Nat \ {0} /\ StreamOK(r, now) /\ r.file \in DOMAIN file /\ DOMAIN r = StreamFields
  BY DEF FilesInv, StreamOK
<1>2. e \in Event /\ e.sec = now
  BY <1>1 DEF Event
<1> HIDE DEF e
<1>3. /\ DOMAIN q = StreamFields /\ q.file = r.file /\ q.wrote = Append(r.wrote, e) /\ q.last = now
      /\ q.buf = Append(IF r.last = now THEN r.buf ELSE <<>>, e)
      /\ q.pos = IF r.last = now THEN r.pos ELSE 0
      /\ q.alone = IF r.last = now THEN r.alone ELSE Sharing(a, r.file) = {}
  <2>1. CASE r.last = now
    BY <1>1, <1>2, <2>1 DEF Logged, NewSecond, StreamFields
  <2>2. CASE r.last # now
    BY <1>1, <1>2, <2>2 DEF Logged, NewSecond, StreamFields
  <2> QED BY <2>1, <2>2
<1>4. c = IF r.last = now THEN file[r.file] ELSE <<>>
  BY <1>2 DEF NewSecond
<1>5. \/ stream' = [stream EXCEPT ![a] = q] /\ file' = [file EXCEPT ![r.file] = c]
      \/ stream' = [stream EXCEPT ![a] = z] /\ file' = [file EXCEPT ![r.file] = Flushed(c, q)]
  <2>1. q.file = r.file
    BY <1>3
  <2> QED BY <2>1 DEF FileLog, e
<1> HIDE DEF q, c
<1>6. /\ DOMAIN z = StreamFields /\ z.file = r.file /\ z.wrote = q.wrote /\ z.last = now
      /\ z.buf = <<>> /\ z.pos = q.pos + Len(q.buf) /\ z.alone = q.alone
  BY <1>3 DEF StreamFields
<1> HIDE DEF z
<1>7. /\ StreamOK(q, now)
      /\ r.last # now => LastSecond(<<e>>, q)
      /\ r.last = now => \A s \in Seq(Event) : LastSecond(s, r) => LastSecond(Append(s, e), q)
  BY <1>1, <1>2, <1>3, LoggedOK
<1>8. StreamOK(z, now)
  BY <1>3, <1>6, <1>7 DEF StreamOK
<1>9. ASSUME q.alone
      PROVE  /\ FileOK(c, q) /\ FileOK(Flushed(c, q), z)
             /\ \A b \in DOMAIN stream : a # b => stream[b].file # r.file
  <2>1. /\ c \in Seq(Event) /\ q.buf \in Seq(Event) /\ q.pos = Len(c)
        /\ LastSecond(c \o q.buf, q)
        /\ \A b \in DOMAIN stream : a # b => stream[b].file # r.file
    <3>1. CASE r.last = now
      <4>1. r.alone /\ c = file[r.file] /\ q.pos = r.pos /\ q.buf = Append(r.buf, e)
        BY <1>3, <1>4, <1>9, <3>1
      <4>2. FileOK(c, r) /\ \A b \in DOMAIN stream : a # b => stream[b].file # r.file
        BY <4>1 DEF FilesInv
      <4>3. PICK b \in Seq(Event) : b = r.buf
        BY <4>2 DEF FileOK
      <4>4. c \in Seq(Event) /\ q.pos = Len(c) /\ LastSecond(c \o b, r)
        BY <4>1, <4>2, <4>3 DEF FileOK
      <4>5. c \o b \in Seq(Event) /\ Append(b, e) \in Seq(Event)
            /\ c \o Append(b, e) = Append(c \o b, e)
        BY <1>2, <4>4
      <4>6. LastSecond(Append(c \o b, e), q)
        BY <1>7, <3>1, <4>4, <4>5
      <4> QED BY <4>1, <4>2, <4>3, <4>4, <4>5, <4>6
    <3>2. CASE r.last # now
      <4>1. Sharing(a, r.file) = {} /\ c = <<>> /\ q.pos = 0 /\ q.buf = Append(<<>>, e)
        BY <1>3, <1>4, <1>9, <3>2
      <4>2. \A b \in DOMAIN stream : a # b => stream[b].file # r.file
        BY <4>1 DEF Sharing
      <4>3. /\ <<>> \in Seq(Event) /\ Len(<<>>) = 0 /\ Append(<<>>, e) = <<e>>
            /\ <<e>> \in Seq(Event) /\ <<>> \o <<e>> = <<e>>
        BY <1>2
      <4> QED BY <1>7, <3>2, <4>1, <4>2, <4>3
    <3> QED BY <3>1, <3>2
  <2>2. FileOK(c, q)
    BY <2>1 DEF FileOK
  <2>3. /\ Flushed(c, q) = c \o q.buf /\ Flushed(c, q) \in Seq(Event)
        /\ Len(Flushed(c, q)) = q.pos + Len(q.buf) /\ Flushed(c, q) \o <<>> = Flushed(c, q)
    BY <2>1, FlushedAtEnd
  <2>4. LastSecond(Flushed(c, q) \o z.buf, z)
    BY <1>3, <1>6, <2>1, <2>3 DEF LastSecond
  <2>5. FileOK(Flushed(c, q), z)
    BY <1>6, <2>3, <2>4 DEF FileOK
  <2> QED BY <2>1, <2>2, <2>5
<1>10. ASSUME NEW x, NEW y, stream' = [stream EXCEPT ![a] = x], file' = [file EXCEPT ![r.file] = y],
              x.file = r.file, StreamOK(x, now), x.alone = q.alone, x.alone => FileOK(y, x)
       PROVE  FilesInv'
  <2> DEFINE s == stream'
             g == file'
  <2>1. /\ DOMAIN s = DOMAIN stream /\ s[a] = x
        /\ \A b \in DOMAIN stream \ {a} : s[b] = stream[b]
    BY <1>10
  <2>2. /\ DOMAIN g = DOMAIN file /\ g[r.file] = y
        /\ \A f \in DOMAIN file \ {r.file} : g[f] = file[f]
    BY <1>1, <1>10
  <2> HIDE DEF s, g
  <2>3. \A b \in DOMAIN stream : s[b].file = stream[b].file /\ s[b].file \in DOMAIN g
    BY <1>1, <1>10, <2>1, <2>2 DEF FilesInv
  <2>4. \A b \in DOMAIN stream : StreamOK(s[b], now)
    BY <1>10, <2>1 DEF FilesInv
  <2>5. ASSUME NEW b \in DOMAIN stream, s[b].alone
        PROVE  /\ FileOK(g[s[b].file], s[b])
               /\ \A d \in DOMAIN stream : b # d => s[b].file # s[d].file
    <3>1. CASE b = a
      BY <1>9, <1>10, <2>1, <2>2, <2>3, <2>5, <3>1
    <3>2. CASE b # a
      <4>1. s[b] = stream[b] /\ FileOK(file[stream[b].file], stream[b])
            /\ \A d \in DOMAIN stream : b # d => stream[b].file # stream[d].file
        BY <2>1, <2>5, <3>2 DEF FilesInv
      <4>2. stream[b].file # r.file /\ stream[b].file \in DOMAIN file
        BY <3>2, <4>1 DEF FilesInv
      <4> QED BY <2>2, <2>3, <4>1, <4>2
    <3> QED BY <3>1, <3>2
  <2> QED BY <1>1, <2>1, <2>3, <2>4, <2>5 DEF FilesInv, s, g
<1>11. CASE stream' = [stream EXCEPT ![a] = q] /\ file' = [file EXCEPT ![r.file] = c]
  BY <1>3, <1>7, <1>9, <1>10, <1>11
<1>12. CASE stream' = [stream EXCEPT ![a] = z] /\ file' = [file EXCEPT ![r.file] = Flushed(c, q)]
  BY <1>6, <1>8, <1>9, <1>10, <1>12
<1> QED BY <1>5, <1>11, <1>12

\* Every step keeps it.
LEMMA FilesStep ==
  ASSUME FilesInv, [Next]_vars
  PROVE  FilesInv'
<1>1. ASSUME UNCHANGED <<stream, file, now>> PROVE FilesInv'
  BY <1>1 DEF FilesInv
<1>2. ASSUME NEW l \in Loaders, ApplyOp(l) PROVE FilesInv'
  <2>1. /\ now' = now
        /\ \/ \E a, f : OpenStream(a, f)
           \/ \E n : CloseStreams(n)
           \/ UNCHANGED <<stream, file>>
    BY <1>2 DEF ApplyOp
  <2> QED BY <1>1, <2>1, OpenKeeps, CloseKeeps
<1>3. ASSUME NEW w \in Writers, WriteEvent(w) PROVE FilesInv'
  <2>1. /\ now' = now
        /\ \/ \E a \in DOMAIN stream : FileLog(a, [by |-> w, sec |-> now])
           \/ UNCHANGED <<stream, file>>
    BY <1>3 DEF WriteEvent
  <2> QED BY <1>1, <2>1, LogKeeps
<1>4. ASSUME Tick PROVE FilesInv'
  <2>1. now \in Nat \ {0} /\ now' = now + 1 /\ UNCHANGED <<stream, file>>
    BY <1>4 DEF Tick, FilesInv
  <2>2. \A a \in DOMAIN stream : StreamOK(stream[a], now + 1)
    BY <2>1 DEF FilesInv, StreamOK
  <2> QED BY <2>1, <2>2 DEF FilesInv
<1>5. ASSUME NEW w \in Writers, NEW n \in Range(LoggerNames),
             LogEvent(w, n, 3) PROVE FilesInv'
  BY <1>1, <1>5 DEF LogEvent
<1>6. ASSUME NEW w \in Writers, CheckLevel(w) \/ LockLogger(w) PROVE FilesInv'
  BY <1>1, <1>6 DEF CheckLevel, LockLogger
<1>7. ASSUME MakeFormatter \/ DropFormatter PROVE FilesInv'
  BY <1>1, <1>7 DEF MakeFormatter, DropFormatter
<1>8. ASSUME UNCHANGED logVars PROVE FilesInv'
  BY <1>1, <1>8 DEF logVars
<1> QED BY <1>2, <1>3, <1>4, <1>5, <1>6, <1>7, <1>8 DEF Next, Quiet, vars

\* However writers, the clock and reconfigurations interleave, a file that an
\* appender has to itself holds, with the stream's buffer, exactly what it wrote
\* in the second of its last event.
THEOREM LogFileHoldsSecond == Spec => []FileHoldsSecond
<1>1. FilesInv => FileHoldsSecond
  <2> SUFFICES ASSUME FilesInv, NEW a \in DOMAIN stream, stream[a].alone
               PROVE  \E k \in 0 .. Len(stream[a].wrote) :
                        /\ file[stream[a].file] \o stream[a].buf
                             = SubSeq(stream[a].wrote, k + 1, Len(stream[a].wrote))
                        /\ \A i \in 1 .. Len(stream[a].wrote) :
                             i > k <=> stream[a].wrote[i].sec = stream[a].wrote[Len(stream[a].wrote)].sec
    BY DEF FileHoldsSecond
  <2> DEFINE r == stream[a]
             n == Len(r.wrote)
  <2>1. StreamOK(r, now) /\ LastSecond(file[r.file] \o r.buf, r)
    BY DEF FilesInv, FileOK
  <2>2. PICK k \in 0 .. n : /\ file[r.file] \o r.buf = SubSeq(r.wrote, k + 1, n)
                            /\ \A i \in 1 .. n : i > k <=> r.wrote[i].sec = r.last
    BY <2>1 DEF LastSecond
  <2>3. r.wrote \in Seq(Event) /\ (r.wrote # <<>> => r.last = r.wrote[n].sec)
    BY <2>1 DEF StreamOK
  <2>4. CASE r.wrote = <<>>
    BY <2>2, <2>4
  <2>5. CASE r.wrote # <<>>
    BY <2>2, <2>3, <2>5
  <2> QED BY <2>4, <2>5
<1>2. FilesInv /\ [Next]_vars => FilesInv'
  BY FilesStep
<1> QED BY <1>1, <1>2, FilesInit, PTL DEF Spec, vars

(***************************************************************************)
(* Induction on the numbers, with the property given as the set of those   *)
(* that have it.                                                           *)
(***************************************************************************)
\* A set of numbers that is not empty has a least element.
LEMMA LeastNumber ==
  ASSUME NEW T, T \subseteq Nat, T # {}
  PROVE  \E x \in T : \A y \in T : x <= y
<1> DEFINE R == {ss \in Nat \X Nat : ss[1] < ss[2]}
<1>1. R = OpToRel(<, Nat)
  BY DEF OpToRel
<1>2. IsWellFoundedOn(R, Nat)
  BY <1>1, NatLessThanWellFounded
<1> HIDE DEF R
<1>3. PICK x \in T : \A y \in T : ~ (<<y, x>> \in R)
  BY <1>2, WFMin
<1>4. \A y \in T : ~(y < x)
  <2> TAKE y \in T
  <2>1. <<y, x>> \in Nat \X Nat /\ <<y, x>> \notin R
    BY <1>3
  <2> QED BY <2>1 DEF R
<1> QED BY <1>4

\* A set that holds 0 and, with every number, the next one holds them all.
LEMMA Induct ==
  ASSUME NEW S, 0 \in S, \A n \in Nat : n \in S => n + 1 \in S
  PROVE  \A n \in Nat : n \in S
<1> DEFINE T == Nat \ S
<1> SUFFICES ASSUME T # {} PROVE FALSE OBVIOUS
<1>1. T \subseteq Nat OBVIOUS
<1> HIDE DEF T
<1>2. PICK x \in T : \A y \in T : x <= y BY <1>1, LeastNumber
<1> QED BY <1>2 DEF T

\* The function g on 0 .. N that begins with c and goes on with the steps h[k].
Recursive(g, c, h, N) == \A k \in 0 .. N : g[k] = IF k = 0 THEN c ELSE h[k][g[k - 1]]

\* A function that is defined by recursion over 0 .. N exists; step k of the
\* recursion is the function h[k].
LEMMA Recursion ==
  ASSUME NEW T, NEW c \in T, NEW N \in Nat, NEW h \in [1 .. N -> [T -> T]]
  PROVE  \E g \in [0 .. N -> T] : Recursive(g, c, h, N)
<1> DEFINE S == {m \in Nat : m <= N => \E g \in [0 .. m -> T] : Recursive(g, c, h, m)}
<1>1. 0 \in S
  <2>1. [k \in 0 .. 0 |-> c] \in [0 .. 0 -> T] /\ Recursive([k \in 0 .. 0 |-> c], c, h, 0)
    BY DEF Recursive
  <2> QED BY <2>1
<1>2. ASSUME NEW m \in Nat, m \in S PROVE m + 1 \in S
  <2> SUFFICES ASSUME m + 1 <= N PROVE \E g \in [0 .. m + 1 -> T] : Recursive(g, c, h, m + 1)
    OBVIOUS
  <2>1. PICK g \in [0 .. m -> T] : Recursive(g, c, h, m)
    BY <1>2
  <2> DEFINE f == [k \in 0 .. m + 1 |-> IF k = m + 1 THEN h[m + 1][g[m]] ELSE g[k]]
  <2>2. g[m] \in T /\ m + 1 \in 1 .. N
    OBVIOUS
  <2>3. h[m + 1] \in [T -> T]
    BY <2>2
  <2>4. h[m + 1][g[m]] \in T
    BY <2>2, <2>3
  <2>5. f \in [0 .. m + 1 -> T]
    BY <2>4
  <2>6. ASSUME NEW k \in 0 .. m + 1 PROVE f[k] = IF k = 0 THEN c ELSE h[k][f[k - 1]]
    <3>1. CASE k = m + 1
      <4>1. f[k] = h[m + 1][g[m]] /\ f[k - 1] = g[m] /\ k # 0
        BY <3>1
      <4> QED BY <4>1, <3>1
    <3>2. CASE k # m + 1
      <4>1. k \in 0 .. m /\ f[k] = g[k] /\ (k # 0 => f[k - 1] = g[k - 1])
        BY <3>2
      <4>2. g[k] = IF k = 0 THEN c ELSE h[k][g[k - 1]]
        BY <4>1, <2>1 DEF Recursive
      <4> HIDE DEF f
      <4> QED BY <4>1, <4>2
    <3> QED BY <3>1, <3>2
  <2> HIDE DEF f
  <2> QED BY <2>5, <2>6 DEF Recursive
<1> HIDE DEF S
<1>3. \A m \in Nat : m \in S
  BY <1>1, <1>2, Induct
<1>4. N \in S
  BY <1>3
<1> QED BY <1>4 DEF S

\* The recursive function of FlattenSeq: it is the first sequence, then each
\* time the next one behind it.
Joins(s, n, g) == g = [i \in 1 .. n |-> IF i = 1 THEN s[i] ELSE g[i - 1] \o s[i]]

\* FlattenSeq's recursive function exists.
LEMMA JoinsExists ==
  ASSUME NEW T, NEW s \in Seq(Seq(T))
  PROVE  \A n \in Nat : n <= Len(s) => \E g \in [1 .. n -> Seq(T)] : Joins(s, n, g)
<1> DEFINE S == {n \in Nat : n <= Len(s) => \E g \in [1 .. n -> Seq(T)] : Joins(s, n, g)}
<1>0. \A i \in 1 .. Len(s) : s[i] \in Seq(T)
  BY ElementOfSeq
<1>1. 0 \in S
  <2>1. Joins(s, 0, [i \in 1 .. 0 |-> s[i]]) /\ [i \in 1 .. 0 |-> s[i]] \in [1 .. 0 -> Seq(T)]
    BY DEF Joins
  <2> QED BY <2>1
<1>2. ASSUME NEW n \in Nat, n \in S PROVE n + 1 \in S
  <2> SUFFICES ASSUME n + 1 <= Len(s)
               PROVE  \E g \in [1 .. n + 1 -> Seq(T)] : Joins(s, n + 1, g)
    OBVIOUS
  <2>1. Len(s) \in Nat
    BY LenProperties
  <2>2. PICK g \in [1 .. n -> Seq(T)] : Joins(s, n, g)
    BY <1>2, <2>1
  <2> DEFINE h == [i \in 1 .. n + 1 |-> IF i = n + 1 THEN (IF n = 0 THEN s[1] ELSE g[n] \o s[n + 1]) ELSE g[i]]
  <2>3. s[n + 1] \in Seq(T)
    BY <1>0, <2>1
  <2>4. ASSUME n # 0 PROVE g[n] \o s[n + 1] \in Seq(T)
    <3>1. g[n] \in Seq(T)
      BY <2>4
    <3> QED BY <3>1, <2>3, ConcatProperties
  <2>5. h \in [1 .. n + 1 -> Seq(T)]
    BY <2>3, <2>4
  <2>6. \A i \in 1 .. n + 1 : h[i] = IF i = 1 THEN s[i] ELSE h[i - 1] \o s[i]
    <3> TAKE i \in 1 .. n + 1
    <3>1. CASE i = n + 1
      <4>1. CASE n = 0
        BY <3>1, <4>1
      <4>2. CASE n # 0
        <5>1. n \in 1 .. n + 1 /\ i - 1 = n /\ i # 1 /\ n # n + 1
          BY <3>1, <4>2
        <5>2. h[i] = g[n] \o s[n + 1]
          BY <3>1, <4>2
        <5>3. h[i - 1] = g[n]
          BY <5>1
        <5> QED BY <3>1, <5>1, <5>2, <5>3
      <4> QED BY <4>1, <4>2
    <3>2. CASE i # n + 1
      <4>1. i \in 1 .. n /\ (i # 1 => i - 1 \in 1 .. n)
        BY <3>2
      <4>2. g[i] = IF i = 1 THEN s[i] ELSE g[i - 1] \o s[i]
        BY <2>2, <4>1 DEF Joins
      <4>3. h[i] = g[i]
        BY <3>2
      <4>4. i # 1 => h[i - 1] = g[i - 1]
        BY <3>2, <4>1
      <4> QED BY <4>2, <4>3, <4>4
    <3> QED BY <3>1, <3>2
  <2> HIDE DEF h
  <2>7. Joins(s, n + 1, h)
    BY <2>5, <2>6 DEF Joins
  <2> QED BY <2>5, <2>7
<1> HIDE DEF S
<1>3. \A n \in Nat : n \in S
  BY <1>1, <1>2, Induct
<1> QED BY <1>3 DEF S

\* FlattenSeq is the last value of that function.
LEMMA FlattenIsJoins ==
  ASSUME NEW T, NEW s \in Seq(Seq(T)), Len(s) # 0
  PROVE  \E g : Joins(s, Len(s), g) /\ FlattenSeq(s) = g[Len(s)]
<1>0. Len(s) \in Nat
  BY LenProperties
<1> DEFINE c == CHOOSE g : Joins(s, Len(s), g)
<1>1. Joins(s, Len(s), c)
  <2>1. \E g \in [1 .. Len(s) -> Seq(T)] : Joins(s, Len(s), g)
    <3>1. Len(s) <= Len(s)
      BY <1>0
    <3> HIDE DEF c
    <3> QED BY <1>0, <3>1, JoinsExists
  <2> QED BY <2>1
<1>2. FlattenSeq(s) = c[Len(s)]
  BY DEF FlattenSeq, Joins
<1> QED BY <1>1, <1>2

\* The elements of f from behind a are those of s[i], and every other element
\* is one of another of the first n sequences.
HasPiece(f, s, i, n) ==
  \E a \in Nat :
    /\ a + Len(s[i]) <= Len(f)
    /\ \A j \in 1 .. Len(s[i]) : f[a + j] = s[i][j]
    /\ \A p \in 1 .. Len(f) : p \in a + 1 .. a + Len(s[i])
                               \/ \E m \in 1 .. n : m # i /\ \E j \in 1 .. Len(s[m]) : f[p] = s[m][j]
\* Each of the first n sequences of s has its piece of f.
AllPieces(f, s, n) ==
  /\ \A i \in 1 .. n : HasPiece(f, s, i, n)
  /\ \A p \in 1 .. Len(f) : \E m \in 1 .. n : \E j \in 1 .. Len(s[m]) : f[p] = s[m][j]

\* The next sequence behind f is one more piece.
LEMMA OnePieceMore ==
  ASSUME NEW T, NEW s \in Seq(Seq(T)), NEW n \in Nat, n + 1 <= Len(s),
         NEW f \in Seq(T), AllPieces(f, s, n)
  PROVE  f \o s[n + 1] \in Seq(T) /\ AllPieces(f \o s[n + 1], s, n + 1)
<1>0. Len(s) \in Nat /\ n + 1 \in 1 .. Len(s)
  BY LenProperties
<1> DEFINE x == s[n + 1]
           h == f \o x
<1>1. x \in Seq(T)
  BY <1>0, ElementOfSeq
<1>2. \A i \in 1 .. n + 1 : s[i] \in Seq(T) /\ Len(s[i]) \in Nat
  <2> TAKE i \in 1 .. n + 1
  <2>1. i \in 1 .. Len(s)
    BY <1>0
  <2>2. s[i] \in Seq(T)
    BY <2>1, ElementOfSeq
  <2> QED BY <2>2, LenProperties
<1>3. Len(x) \in Nat /\ Len(f) \in Nat /\ x = s[n + 1]
  BY <1>1, LenProperties
<1>4. /\ h \in Seq(T) /\ Len(h) = Len(f) + Len(x)
      /\ \A i \in 1 .. Len(f) : h[i] = f[i]
      /\ \A j \in 1 .. Len(x) : h[Len(f) + j] = x[j]
  <2>1. /\ h \in Seq(T) /\ Len(h) = Len(f) + Len(x)
        /\ \A i \in 1 .. Len(f) + Len(x) : h[i] = IF i <= Len(f) THEN f[i] ELSE x[i - Len(f)]
    BY <1>1, ConcatProperties
  <2>2. \A i \in 1 .. Len(f) : i \in 1 .. Len(f) + Len(x) /\ i <= Len(f)
    BY <1>3
  <2>3. \A j \in 1 .. Len(x) : /\ Len(f) + j \in 1 .. Len(f) + Len(x)
                               /\ ~(Len(f) + j <= Len(f)) /\ Len(f) + j - Len(f) = j
    BY <1>3
  <2> HIDE DEF x, h
  <2>4. \A j \in 1 .. Len(x) : h[Len(f) + j] = x[j]
    BY <2>1, <2>3
  <2> QED BY <2>1, <2>2, <2>4
<1> HIDE DEF x, h
<1>5. \A p \in 1 .. Len(h) : p \in 1 .. Len(f) \/ (p - Len(f) \in 1 .. Len(x) /\ h[p] = x[p - Len(f)])
  <2> TAKE p \in 1 .. Len(h)
  <2> SUFFICES ASSUME p \notin 1 .. Len(f) PROVE p - Len(f) \in 1 .. Len(x) /\ h[p] = x[p - Len(f)]
    OBVIOUS
  <2>1. p - Len(f) \in 1 .. Len(x) /\ Len(f) + (p - Len(f)) = p
    BY <1>3, <1>4
  <2> QED BY <2>1, <1>4
<1>6. \A p \in 1 .. Len(h) : \E m \in 1 .. n + 1 : \E j \in 1 .. Len(s[m]) : h[p] = s[m][j]
  <2> TAKE p \in 1 .. Len(h)
  <2>1. CASE p \in 1 .. Len(f)
    <3>1. PICK m \in 1 .. n : \E j \in 1 .. Len(s[m]) : f[p] = s[m][j]
      BY <2>1 DEF AllPieces
    <3>2. m \in 1 .. n + 1 /\ h[p] = f[p]
      BY <2>1, <1>4
    <3> QED BY <3>1, <3>2
  <2>2. CASE p - Len(f) \in 1 .. Len(x) /\ h[p] = x[p - Len(f)]
    BY <2>2, <1>3
  <2> QED BY <1>5, <2>1, <2>2
<1>7. ASSUME NEW i \in 1 .. n PROVE HasPiece(h, s, i, n + 1)
  <2>1. PICK a \in Nat :
          /\ a + Len(s[i]) <= Len(f)
          /\ \A j \in 1 .. Len(s[i]) : f[a + j] = s[i][j]
          /\ \A p \in 1 .. Len(f) : p \in a + 1 .. a + Len(s[i])
                                     \/ \E m \in 1 .. n : m # i /\ \E j \in 1 .. Len(s[m]) : f[p] = s[m][j]
    BY DEF AllPieces, HasPiece
  <2>2. Len(s[i]) \in Nat
    BY <1>2
  <2>3. a + Len(s[i]) <= Len(h)
    BY <2>1, <2>2, <1>3, <1>4, SMTT(60)
  <2>4. ASSUME NEW j \in 1 .. Len(s[i]) PROVE h[a + j] = s[i][j]
    <3>1. a + j \in 1 .. Len(f)
      BY <2>1, <2>2, <1>3, SMTT(60)
    <3> QED BY <3>1, <2>1, <1>4
  <2>5. ASSUME NEW p \in 1 .. Len(h)
        PROVE  p \in a + 1 .. a + Len(s[i])
               \/ \E m \in 1 .. n + 1 : m # i /\ \E j \in 1 .. Len(s[m]) : h[p] = s[m][j]
    <3>1. CASE p \in 1 .. Len(f)
      <4>1. h[p] = f[p]
        BY <3>1, <1>4
      <4>2. \A m \in 1 .. n : m \in 1 .. n + 1
        OBVIOUS
      <4>3. CASE p \notin a + 1 .. a + Len(s[i])
        <5>1. PICK m \in 1 .. n : m # i /\ \E j \in 1 .. Len(s[m]) : f[p] = s[m][j]
          BY <3>1, <4>3, <2>1
        <5> QED BY <4>1, <4>2, <5>1
      <4> QED BY <4>3
    <3>2. CASE p - Len(f) \in 1 .. Len(x) /\ h[p] = x[p - Len(f)]
      <4>1. n + 1 # i /\ n + 1 \in 1 .. n + 1
        OBVIOUS
      <4> QED BY <3>2, <4>1, <1>3
    <3> QED BY <1>5, <3>1, <3>2
  <2> QED BY <2>3, <2>4, <2>5 DEF HasPiece
<1>8. HasPiece(h, s, n + 1, n + 1)
  <2>1. Len(f) + Len(s[n + 1]) <= Len(h)
    BY <1>3, <1>4
  <2>2. \A j \in 1 .. Len(s[n + 1]) : h[Len(f) + j] = s[n + 1][j]
    BY <1>3, <1>4
  <2>3. ASSUME NEW p \in 1 .. Len(h)
        PROVE  p \in Len(f) + 1 .. Len(f) + Len(s[n + 1])
               \/ \E m \in 1 .. n + 1 : m # n + 1 /\ \E j \in 1 .. Len(s[m]) : h[p] = s[m][j]
    <3>1. CASE p \in 1 .. Len(f)
      <4>1. PICK m \in 1 .. n : \E j \in 1 .. Len(s[m]) : f[p] = s[m][j]
        BY <3>1 DEF AllPieces
      <4>2. m \in 1 .. n + 1 /\ m # n + 1 /\ h[p] = f[p]
        BY <3>1, <1>4
      <4> QED BY <4>1, <4>2
    <3>2. CASE p - Len(f) \in 1 .. Len(x)
      BY <3>2, <1>3
    <3> QED BY <1>5, <3>1, <3>2
  <2> QED BY <2>1, <2>2, <2>3, <1>3 DEF HasPiece
<1>9. \A i \in 1 .. n + 1 : HasPiece(h, s, i, n + 1)
  <2> TAKE i \in 1 .. n + 1
  <2>1. i \in 1 .. n \/ i = n + 1
    OBVIOUS
  <2> QED BY <2>1, <1>7, <1>8
<1> QED BY <1>4, <1>6, <1>9 DEF AllPieces, h, x

\* FlattenSeq keeps every one of its sequences in one piece.
LEMMA FlattenPieces ==
  ASSUME NEW T, NEW s \in Seq(Seq(T))
  PROVE  FlattenSeq(s) \in Seq(T) /\ AllPieces(FlattenSeq(s), s, Len(s))
<1>0. Len(s) \in Nat
  BY LenProperties
<1>1. CASE Len(s) = 0
  <2>1. FlattenSeq(s) = <<>>
    BY <1>1, EmptySeq DEF FlattenSeq
  <2>2. <<>> \in Seq(T) /\ Len(<<>>) = 0
    BY EmptySeq
  <2> QED BY <1>1, <2>1, <2>2 DEF AllPieces
<1>2. CASE Len(s) # 0
  <2>1. PICK g : Joins(s, Len(s), g) /\ FlattenSeq(s) = g[Len(s)]
    BY <1>2, FlattenIsJoins
  <2> DEFINE S == {n \in Nat : n + 1 <= Len(s) => g[n + 1] \in Seq(T) /\ AllPieces(g[n + 1], s, n + 1)}
  <2>2. 0 \in S
    <3>1. <<>> \in Seq(T) /\ Len(<<>>) = 0
      BY EmptySeq
    <3>2. AllPieces(<<>>, s, 0)
      BY <3>1 DEF AllPieces
    <3>3. 0 + 1 <= Len(s) /\ 1 \in 1 .. Len(s)
      BY <1>0, <1>2
    <3>4. <<>> \o s[0 + 1] \in Seq(T) /\ AllPieces(<<>> \o s[0 + 1], s, 0 + 1)
      BY <3>1, <3>2, <3>3, OnePieceMore
    <3>5. s[1] \in Seq(T)
      BY <3>3, ElementOfSeq
    <3>6. <<>> \o s[1] = s[1]
      BY <3>5, ConcatEmptySeq
    <3>7. g[1] = s[1]
      BY <2>1, <3>3 DEF Joins
    <3>8. 0 + 1 = 1
      OBVIOUS
    <3> QED BY <3>4, <3>6, <3>7, <3>8
  <2>3. ASSUME NEW n \in Nat, n \in S PROVE n + 1 \in S
    <3> SUFFICES ASSUME n + 1 + 1 <= Len(s)
                 PROVE  g[n + 1 + 1] \in Seq(T) /\ AllPieces(g[n + 1 + 1], s, n + 1 + 1)
      OBVIOUS
    <3>1. g[n + 1] \in Seq(T) /\ AllPieces(g[n + 1], s, n + 1)
      BY <2>3, <1>0
    <3>2. /\ n + 1 + 1 \in 1 .. Len(s) /\ n + 1 \in Nat
          /\ n + 1 + 1 # 1 /\ n + 1 + 1 - 1 = n + 1
      BY <1>0
    <3>3. \A i \in 1 .. Len(s) : i # 1 => g[i] = g[i - 1] \o s[i]
      BY <2>1 DEF Joins
    <3>4. g[n + 1 + 1] = g[n + 1] \o s[n + 1 + 1]
      <4> DEFINE q == n + 1 + 1
      <4>1. q \in 1 .. Len(s) /\ q # 1 /\ q - 1 = n + 1
        BY <3>2
      <4> HIDE DEF q
      <4>2. g[q] = g[q - 1] \o s[q]
        BY <3>3, <4>1
      <4> QED BY <4>1, <4>2 DEF q
    <3> HIDE DEF S
    <3> QED BY <3>1, <3>2, <3>4, OnePieceMore
  <2> HIDE DEF S
  <2>4. \A n \in Nat : n \in S
    BY <2>2, <2>3, Induct
  <2>5. Len(s) - 1 \in Nat /\ Len(s) - 1 + 1 = Len(s)
    BY <1>0, <1>2
  <2>6. Len(s) - 1 \in S /\ Len(s) - 1 + 1 <= Len(s)
    BY <2>4, <2>5, <1>0
  <2>7. g[Len(s) - 1 + 1] \in Seq(T) /\ AllPieces(g[Len(s) - 1 + 1], s, Len(s) - 1 + 1)
    BY <2>6 DEF S
  <2> QED BY <2>1, <2>5, <2>7
<1> QED BY <1>1, <1>2

(***************************************************************************)
(* The loggers follow "logs".                                              *)
(***************************************************************************)
\* The fields of a logger, and the names that a configuration can have.
LoggerFields == {"level", "fmt", "appenders"}
LogNames == Range(LoggerNames)
\* The value of the variable, which is empty until it is registered.
LogsNow == IF Logs \in DOMAIN val THEN val[Logs] ELSE {}

\* The calls that a change makes for logger n.
Block(old, new, n) == OpsFor(old, new, n) \o OpsRemoved(old, new, n)
\* All the calls of the change.
OpsOf(old, new) == UNION {Range(Block(old, new, n)) : n \in LogNames}
\* Of the calls b for logger n the first k have been made: the others are in ops
\* in one piece, and nothing else in ops is for n.
Left(ops, n, b, k) ==
  \E a \in 0 .. Len(ops) :
    /\ a + (Len(b) - k) <= Len(ops)
    /\ \A j \in 1 .. Len(b) - k : ops[a + j] = b[k + j]
    /\ \A p \in 1 .. Len(ops) : ops[p].name = n => p \in a + 1 .. a + (Len(b) - k)

\* What AddAppender makes of an appender's definition.
Made(a, fmt) ==
  [type |-> a.type, file |-> a.file, own |-> IsValid(a.formatter),
   fmt |-> IF IsValid(a.formatter) THEN a.formatter ELSE fmt]
\* The first j appenders of d, in a logger with format fmt.
MadeFirst(d, j, fmt) == [i \in 1 .. j |-> Made(d.appenders[i], fmt)]
\* SetFormatter is called for a definition with a format: how many calls that
\* adds to SetLevel and ClearAppender, and all of them.
Extra(d) == IF d.formatter = <<>> THEN 0 ELSE 1
AllOps(d) == 2 + Extra(d) + Len(d.appenders)
\* Logger n after the first k of the calls for definition d.
Reached(d, n, k) ==
  /\ k >= 1 => n \in DOMAIN loggers /\ GetLogger(n).level = d.level
  /\ k >= 1 + Extra(d) => (IsValid(d.formatter) => GetLogger(n).fmt = d.formatter)
  /\ k >= 2 + Extra(d) =>
       \E f \in {GetLogger(n).fmt} : GetLogger(n).appenders = MadeFirst(d, k - 2 - Extra(d), f)
\* A logger that is not configured.
Mute(n) == n # "root" => GetLogger(n).appenders = <<>> /\ GetLogger(n).level \in {DEBUG, Silent}
\* Logger n after the first k of its calls from old to new.
Done(old, new, n, k) ==
  IF n \in Defined(new)
    THEN IF DefOf(new, n) \in old THEN k = 0 ELSE Reached(DefOf(new, n), n, k)
  ELSE IF n \in Defined(old)
    THEN (k >= 1 => GetLogger(n).level = Silent) /\ (k >= 2 => GetLogger(n).appenders = <<>>)
  ELSE Mute(n)

\* The loggers follow s ...
Follow(s) ==
  \A n \in LogNames :
    IF n \in Defined(s) THEN Reached(DefOf(s, n), n, AllOps(DefOf(s, n))) ELSE Mute(n)
\* ... and those that are on the way from old to new.
Between(old, new, ops) ==
  /\ ops \in Seq(OpsOf(old, new))
  /\ \A n \in LogNames : \E k \in 0 .. Len(Block(old, new, n)) :
       Left(ops, n, Block(old, new, n), k) /\ Done(old, new, n, k)

\* What is known of the loaders that set "logs" ...
OpsShape ==
  /\ DOMAIN load = Loaders
  /\ \A l \in Loaders :
       /\ DOMAIN load[l] = LoadFields
       /\ load[l].ops # <<>> => load[l].pc = "call" /\ Key(l) = Logs
       /\ Setting(l, Logs) => Logs \in DOMAIN val /\ LogSet(load[l].new)
  /\ LogSet(LogsNow)
\* ... and, unless two threads set it at once, of the loggers: there is one
\* setter, it is on the way from the value to its new one, and without one the
\* loggers follow the value.
FollowInv ==
  /\ DOMAIN loggers \subseteq LogNames \cup {"root"}
  /\ \A n \in DOMAIN loggers : DOMAIN loggers[n] = LoggerFields
  /\ \A l, m \in Loaders : Setting(l, Logs) /\ Setting(m, Logs) => l = m
  /\ \A l \in Loaders : Setting(l, Logs) => Between(val[Logs], load[l].new, load[l].ops)
  /\ (\A l \in Loaders : ~Setting(l, Logs)) => Follow(LogsNow)
\* The inductive invariant behind LoggersAsConfigured.
ConfiguredInv == OpsShape /\ (Logs \notin raced /\ ~down => FollowInv)

\* The definition of a name in a set is the only one.
LEMMA DefinedOnce ==
  ASSUME NEW s, LogSet(s), NEW n \in Defined(s)
  PROVE  DefOf(s, n) \in s /\ DefOf(s, n).name = n
<1>1. \E d \in s : d.name = n
  BY DEF Defined
<1> QED BY <1>1 DEF DefOf

\* Two sequences, one behind the other.
LEMMA Joined ==
  ASSUME NEW T, NEW s \in Seq(T), NEW t \in Seq(T)
  PROVE  /\ s \o t \in Seq(T) /\ Len(s) \in Nat /\ Len(t) \in Nat
         /\ Len(s \o t) = Len(s) + Len(t)
         /\ \A i \in 1 .. Len(s) : (s \o t)[i] = s[i]
         /\ \A i \in 1 .. Len(t) : (s \o t)[Len(s) + i] = t[i]
<1>0. Len(s) \in Nat /\ Len(t) \in Nat
  BY LenProperties
<1> DEFINE h == s \o t
<1>1. /\ h \in Seq(T) /\ Len(h) = Len(s) + Len(t)
      /\ \A i \in 1 .. Len(s) + Len(t) : h[i] = IF i <= Len(s) THEN s[i] ELSE t[i - Len(s)]
  BY ConcatProperties
<1> HIDE DEF h
<1>2. \A i \in 1 .. Len(s) : i \in 1 .. Len(s) + Len(t) /\ i <= Len(s)
  BY <1>0
<1>3. \A i \in 1 .. Len(t) : /\ Len(s) + i \in 1 .. Len(s) + Len(t)
                             /\ ~(Len(s) + i <= Len(s)) /\ Len(s) + i - Len(s) = i
  BY <1>0
<1>4. \A i \in 1 .. Len(t) : h[Len(s) + i] = t[i]
  BY <1>1, <1>3, SMTT(60)
<1> QED BY <1>0, <1>1, <1>2, <1>4 DEF h

\* All calls in b are for logger n.
AllFor(b, n) == \A i \in 1 .. Len(b) : b[i].name = n

\* b is the calls for definition d of logger n.
ChangeCalls(b, d, n) ==
  /\ b \in Seq(Range(b)) /\ AllFor(b, n) /\ Len(b) = AllOps(d)
  /\ b[1] = [op |-> "level", name |-> n, arg |-> d.level]
  /\ Extra(d) = 1 => b[2] = [op |-> "formatter", name |-> n, arg |-> d.formatter]
  /\ b[2 + Extra(d)] = [op |-> "clear", name |-> n]
  /\ \A i \in 1 .. Len(d.appenders) : b[2 + Extra(d) + i] = [op |-> "add", name |-> n, arg |-> d.appenders[i]]

\* The calls for a definition that is new or has changed.
LEMMA OpsOfChange ==
  ASSUME NEW old, NEW new, LogSet(new), NEW n \in Defined(new),
         NEW d, d = DefOf(new, n), d \notin old
  PROVE  ChangeCalls(OpsFor(old, new, n), d, n)
<1> DEFINE one == <<[op |-> "level", name |-> n, arg |-> d.level]>>
           fmt == IF d.formatter = <<>> THEN <<>> ELSE <<[op |-> "formatter", name |-> n, arg |-> d.formatter]>>
           clr == <<[op |-> "clear", name |-> n]>>
           add == [i \in DOMAIN d.appenders |-> [op |-> "add", name |-> n, arg |-> d.appenders[i]]]
           T == {[op |-> "level", name |-> n, arg |-> d.level],
                 [op |-> "formatter", name |-> n, arg |-> d.formatter],
                 [op |-> "clear", name |-> n]}
                \cup {[op |-> "add", name |-> n, arg |-> a] : a \in Range(d.appenders)}
<1>1. OpsFor(old, new, n) = one \o fmt \o clr \o add
  BY DEF OpsFor
<1>2. d.appenders \in Seq(Range(d.appenders))
  BY DefinedOnce DEF LogSet
<1>3. Len(d.appenders) \in Nat /\ DOMAIN d.appenders = 1 .. Len(d.appenders)
  BY <1>2, LenProperties
<1>4. \A o \in T : o.name = n
  OBVIOUS
<1>5. /\ one \in Seq(T) /\ Len(one) = 1 /\ one[1] = [op |-> "level", name |-> n, arg |-> d.level]
  <2>1. [op |-> "level", name |-> n, arg |-> d.level] \in T
    OBVIOUS
  <2> HIDE DEF T
  <2> QED BY <2>1
<1>6. /\ fmt \in Seq(T) /\ Len(fmt) = Extra(d)
      /\ Extra(d) = 1 => fmt[1] = [op |-> "formatter", name |-> n, arg |-> d.formatter]
  <2>1. [op |-> "formatter", name |-> n, arg |-> d.formatter] \in T
    OBVIOUS
  <2> HIDE DEF T
  <2>2. CASE d.formatter = <<>>
    BY <2>2 DEF Extra
  <2>3. CASE d.formatter # <<>>
    BY <2>1, <2>3 DEF Extra
  <2> QED BY <2>2, <2>3
<1>7. /\ clr \in Seq(T) /\ Len(clr) = 1 /\ clr[1] = [op |-> "clear", name |-> n]
  <2>1. [op |-> "clear", name |-> n] \in T
    OBVIOUS
  <2> HIDE DEF T
  <2> QED BY <2>1
<1>8. /\ add \in Seq(T) /\ Len(add) = Len(d.appenders)
      /\ \A i \in 1 .. Len(d.appenders) : add[i] = [op |-> "add", name |-> n, arg |-> d.appenders[i]]
  <2>1. \A i \in 1 .. Len(d.appenders) : [op |-> "add", name |-> n, arg |-> d.appenders[i]] \in T
    <3>1. \A i \in 1 .. Len(d.appenders) : d.appenders[i] \in Range(d.appenders)
      BY <1>3 DEF Range
    <3> QED BY <3>1
  <2> HIDE DEF T
  <2> QED BY <1>3, <2>1
<1> HIDE DEF T, one, fmt, clr, add
<1>9. Extra(d) \in {0, 1}
  BY DEF Extra
<1> DEFINE b1 == one \o fmt
           b2 == b1 \o clr
           b == b2 \o add
<1>10. /\ b1 \in Seq(T) /\ Len(b1) = 1 + Extra(d) /\ b1[1] = one[1]
       /\ Extra(d) = 1 => b1[2] = fmt[1]
  BY <1>5, <1>6, <1>9, Joined, SMTT(60)
<1> HIDE DEF b1
<1>11. /\ b2 \in Seq(T) /\ Len(b2) = 2 + Extra(d) /\ b2[1] = one[1]
       /\ (Extra(d) = 1 => b2[2] = fmt[1]) /\ b2[2 + Extra(d)] = clr[1]
  <2>1. /\ b2 \in Seq(T) /\ Len(b2) = Len(b1) + Len(clr)
        /\ \A i \in 1 .. Len(b1) : b2[i] = b1[i]
        /\ \A i \in 1 .. Len(clr) : b2[Len(b1) + i] = clr[i]
    <3>1. b1 \in Seq(T) /\ clr \in Seq(T)
      BY <1>7, <1>10
    <3> QED BY <3>1, Joined
  <2> HIDE DEF b2
  <2>2. b2[Len(b1) + 1] = clr[1] /\ b2[1] = b1[1] /\ (Extra(d) = 1 => b2[2] = b1[2])
    BY <1>7, <1>9, <1>10, <2>1
  <2> QED BY <1>7, <1>9, <1>10, <2>1, <2>2
<1> HIDE DEF b2
<1>12. /\ b \in Seq(T) /\ Len(b) = AllOps(d) /\ b[1] = one[1]
       /\ (Extra(d) = 1 => b[2] = fmt[1]) /\ b[2 + Extra(d)] = clr[1]
       /\ \A i \in 1 .. Len(d.appenders) : b[2 + Extra(d) + i] = add[i]
  <2>1. /\ b \in Seq(T) /\ Len(b) = Len(b2) + Len(add)
        /\ \A i \in 1 .. Len(b2) : b[i] = b2[i]
        /\ \A i \in 1 .. Len(add) : b[Len(b2) + i] = add[i]
    <3>1. b2 \in Seq(T) /\ add \in Seq(T)
      BY <1>8, <1>11
    <3> QED BY <3>1, Joined
  <2> HIDE DEF b
  <2>2. b[1] = b2[1] /\ (Extra(d) = 1 => b[2] = b2[2]) /\ b[2 + Extra(d)] = b2[2 + Extra(d)]
    BY <1>9, <1>11, <2>1
  <2> QED BY <1>3, <1>8, <1>9, <1>11, <2>1, <2>2 DEF AllOps
<1> HIDE DEF b
<1>13. OpsFor(old, new, n) = b
  BY <1>1 DEF b, b1, b2
<1>14. b \in Seq(Range(b)) /\ AllFor(b, n)
  <2>1. Len(b) \in Nat /\ DOMAIN b = 1 .. Len(b) /\ b = [i \in 1 .. Len(b) |-> b[i]]
    BY <1>12, LenProperties
  <2>2. \A i \in 1 .. Len(b) : b[i] \in T /\ b[i] \in Range(b)
    BY <1>12, <2>1, ElementOfSeq DEF Range
  <2> QED BY <1>4, <2>1, <2>2 DEF AllFor
<1> QED BY <1>5, <1>6, <1>7, <1>8, <1>12, <1>13, <1>14 DEF ChangeCalls

\* The calls for a logger: those for its definition or those for its removal.
LEMMA BlockIsOne ==
  ASSUME NEW old, NEW new, LogSet(old), LogSet(new), NEW n \in LogNames
  PROVE  /\ n \in Defined(new) => Block(old, new, n) = OpsFor(old, new, n) /\ OpsRemoved(old, new, n) = <<>>
         /\ n \notin Defined(new) => Block(old, new, n) = OpsRemoved(old, new, n) /\ OpsFor(old, new, n) = <<>>
         /\ OpsFor(old, new, n) \in Seq(OpsOf(old, new)) /\ OpsRemoved(old, new, n) \in Seq(OpsOf(old, new))
         /\ Block(old, new, n) \in Seq(OpsOf(old, new))
         /\ \A i \in 1 .. Len(OpsFor(old, new, n)) : OpsFor(old, new, n)[i].name = n
         /\ \A i \in 1 .. Len(OpsRemoved(old, new, n)) : OpsRemoved(old, new, n)[i].name = n
         /\ \A i \in 1 .. Len(Block(old, new, n)) : Block(old, new, n)[i].name = n
<1> DEFINE f == OpsFor(old, new, n)
           r == OpsRemoved(old, new, n)
<1>1. PICK T : f \in Seq(T) /\ r \in Seq(T) /\ (\A o \in T : o.name = n)
               /\ (IF n \in Defined(new) THEN r = <<>> ELSE f = <<>>)
  <2>1. CASE n \in Defined(new)
    <3>1. r = <<>>
      BY <2>1 DEF OpsRemoved
    <3>2. \A T : r \in Seq(T)
      BY <3>1, EmptySeq
    <3>3. CASE DefOf(new, n) \in old
      <4>1. f = <<[op |-> "crash", name |-> n]>>
        BY <2>1, <3>3 DEF OpsFor
      <4> DEFINE T == {[op |-> "crash", name |-> n]}
      <4>2. f \in Seq(T) /\ \A o \in T : o.name = n
        BY <4>1
      <4> HIDE DEF T, f, r
      <4> QED BY <2>1, <3>1, <3>2, <4>2
    <3>4. CASE DefOf(new, n) \notin old
      <4>0. PICK d : d = DefOf(new, n)
        OBVIOUS
      <4> DEFINE T == Range(f)
      <4>1. f \in Seq(T) /\ \A i \in 1 .. Len(f) : f[i].name = n
        <5>1. d \notin old
          BY <3>4, <4>0
        <5> HIDE DEF T, f, r
        <5>2. /\ OpsFor(old, new, n) \in Seq(Range(OpsFor(old, new, n)))
              /\ \A i \in 1 .. Len(OpsFor(old, new, n)) : OpsFor(old, new, n)[i].name = n
          <6>1. ChangeCalls(OpsFor(old, new, n), d, n)
            BY <2>1, <4>0, <5>1, OpsOfChange
          <6> QED BY <6>1 DEF ChangeCalls, AllFor
        <5> QED BY <5>2 DEF T, f
      <4> HIDE DEF f, r
      <4>2. DOMAIN f = 1 .. Len(f)
        BY <4>1, LenProperties
      <4>3. \A o \in T : o.name = n
        BY <4>1, <4>2 DEF Range
      <4> HIDE DEF T
      <4> QED BY <2>1, <3>1, <3>2, <4>1, <4>3
    <3> QED BY <3>3, <3>4
  <2>2. CASE n \notin Defined(new)
    <3>1. f = <<>>
      BY <2>2 DEF OpsFor
    <3> DEFINE T == {[op |-> "level", name |-> n, arg |-> Silent], [op |-> "clear", name |-> n]}
    <3>2. r = <<>> \/ r = <<[op |-> "level", name |-> n, arg |-> Silent], [op |-> "clear", name |-> n]>>
      BY <2>2 DEF OpsRemoved
    <3>3. f \in Seq(T)
      BY <3>1, EmptySeq
    <3>4. r \in Seq(T)
      <4>1. [op |-> "level", name |-> n, arg |-> Silent] \in T /\ [op |-> "clear", name |-> n] \in T
        OBVIOUS
      <4> HIDE DEF T, r
      <4>2. <<>> \in Seq(T)
        BY EmptySeq
      <4>3. <<[op |-> "level", name |-> n, arg |-> Silent], [op |-> "clear", name |-> n]>> \in Seq(T)
        BY <4>1
      <4> QED BY <3>2, <4>2, <4>3
    <3>5. \A o \in T : o.name = n
      OBVIOUS
    <3> HIDE DEF T, f, r
    <3> QED BY <2>2, <3>1, <3>3, <3>4, <3>5
  <2> QED BY <2>1, <2>2
<1>2. Block(old, new, n) = f \o r
  BY DEF Block
<1> HIDE DEF f, r
<1>3. IF n \in Defined(new) THEN r = <<>> /\ Block(old, new, n) = f ELSE f = <<>> /\ Block(old, new, n) = r
  BY <1>1, <1>2, ConcatEmptySeq
<1>4. Block(old, new, n) \in Seq(T) /\ Len(Block(old, new, n)) \in Nat /\ DOMAIN Block(old, new, n) = 1 .. Len(Block(old, new, n))
  <2>1. Block(old, new, n) \in Seq(T)
    BY <1>1, <1>3
  <2> QED BY <2>1, LenProperties
<1>5. \A i \in 1 .. Len(Block(old, new, n)) : Block(old, new, n)[i].name = n /\ Block(old, new, n)[i] \in OpsOf(old, new)
  <2> TAKE i \in 1 .. Len(Block(old, new, n))
  <2>1. Block(old, new, n)[i] \in T
    BY <1>4, ElementOfSeq
  <2>2. Block(old, new, n)[i] \in Range(Block(old, new, n))
    BY <1>4 DEF Range
  <2> QED BY <1>1, <2>1, <2>2 DEF OpsOf
<1>6. Block(old, new, n) \in Seq(OpsOf(old, new))
  <2> DEFINE b == Block(old, new, n)
  <2>1. b = [i \in 1 .. Len(b) |-> b[i]]
    BY <1>4
  <2> QED BY <1>4, <1>5, <2>1
<1>7. <<>> \in Seq(OpsOf(old, new)) /\ Len(<<>>) = 0
  BY EmptySeq
<1>8. CASE n \in Defined(new)
  BY <1>3, <1>5, <1>6, <1>7, <1>8 DEF f, r
<1>9. CASE n \notin Defined(new)
  BY <1>3, <1>5, <1>6, <1>7, <1>9 DEF f, r
<1> QED BY <1>8, <1>9

\* A list in one piece of one of two joined lists, the other of which has
\* nothing for n, is in one piece of both.
LEMMA FirstLeft ==
  ASSUME NEW T, NEW f1 \in Seq(T), NEW f2 \in Seq(T), NEW n, NEW b \in Seq(T), NEW a \in Nat,
         a + Len(b) <= Len(f1),
         \A j \in 1 .. Len(b) : f1[a + j] = b[j],
         \A p \in 1 .. Len(f1) : f1[p].name = n => p \in a + 1 .. a + Len(b),
         \A p \in 1 .. Len(f2) : f2[p].name # n
  PROVE  Left(f1 \o f2, n, b, 0)
<1> DEFINE f == f1 \o f2
<1>1. /\ f \in Seq(T) /\ Len(f1) \in Nat /\ Len(f2) \in Nat
      /\ Len(f) = Len(f1) + Len(f2)
      /\ \A i \in 1 .. Len(f1) : f[i] = f1[i]
      /\ \A i \in 1 .. Len(f2) : f[Len(f1) + i] = f2[i]
  BY Joined
<1>2. Len(b) \in Nat
  BY LenProperties
<1> HIDE DEF f
<1>3. a \in 0 .. Len(f) /\ a + (Len(b) - 0) <= Len(f) /\ Len(b) - 0 = Len(b)
  BY <1>1, <1>2
<1>4. \A j \in 1 .. Len(b) : a + j \in 1 .. Len(f1) /\ 0 + j = j
  BY <1>1, <1>2
<1>5. \A j \in 1 .. Len(b) - 0 : f[a + j] = b[0 + j]
  BY <1>1, <1>3, <1>4
<1>6. \A p \in 1 .. Len(f) : f[p].name = n => p \in a + 1 .. a + (Len(b) - 0)
  <2> TAKE p \in 1 .. Len(f)
  <2>1. CASE p \in 1 .. Len(f1)
    BY <1>1, <1>3, <2>1
  <2>2. CASE p \notin 1 .. Len(f1)
    <3>1. p - Len(f1) \in 1 .. Len(f2) /\ Len(f1) + (p - Len(f1)) = p
      BY <1>1, <2>2
    <3>2. f[p] = f2[p - Len(f1)]
      BY <1>1, <3>1
    <3> QED BY <3>1, <3>2
  <2> QED BY <2>1, <2>2
<1> QED BY <1>3, <1>5, <1>6 DEF Left, f

\* So are, behind them, the calls for a logger that is removed.
LEMMA SecondLeft ==
  ASSUME NEW T, NEW f1 \in Seq(T), NEW f2 \in Seq(T), NEW n, NEW b \in Seq(T), NEW c \in Nat,
         c + Len(b) <= Len(f2),
         \A j \in 1 .. Len(b) : f2[c + j] = b[j],
         \A p \in 1 .. Len(f2) : f2[p].name = n => p \in c + 1 .. c + Len(b),
         \A p \in 1 .. Len(f1) : f1[p].name # n
  PROVE  Left(f1 \o f2, n, b, 0)
<1> DEFINE f == f1 \o f2
           a == Len(f1) + c
<1>1. /\ f \in Seq(T) /\ Len(f1) \in Nat /\ Len(f2) \in Nat
      /\ Len(f) = Len(f1) + Len(f2)
      /\ \A i \in 1 .. Len(f1) : f[i] = f1[i]
      /\ \A i \in 1 .. Len(f2) : f[Len(f1) + i] = f2[i]
  BY Joined
<1>2. Len(b) \in Nat
  BY LenProperties
<1> HIDE DEF f
<1>3. a \in 0 .. Len(f) /\ a + (Len(b) - 0) <= Len(f) /\ Len(b) - 0 = Len(b)
  BY <1>1, <1>2
<1>4. \A j \in 1 .. Len(b) : c + j \in 1 .. Len(f2) /\ 0 + j = j /\ a + j = Len(f1) + (c + j)
  BY <1>1, <1>2
<1>5. \A j \in 1 .. Len(b) - 0 : f[a + j] = b[0 + j]
  <2> HIDE DEF a
  <2> TAKE j \in 1 .. Len(b) - 0
  <2>1. j \in 1 .. Len(b) /\ 0 + j = j /\ a + j = Len(f1) + (c + j) /\ c + j \in 1 .. Len(f2)
    BY <1>3, <1>4
  <2>2. f[Len(f1) + (c + j)] = f2[c + j] /\ f2[c + j] = b[j]
    BY <1>1, <2>1
  <2> QED BY <2>1, <2>2
<1>6. \A p \in 1 .. Len(f) : f[p].name = n => p \in a + 1 .. a + (Len(b) - 0)
  <2> TAKE p \in 1 .. Len(f)
  <2>1. CASE p \in 1 .. Len(f1)
    BY <1>1, <2>1
  <2>2. CASE p \notin 1 .. Len(f1)
    <3>1. p - Len(f1) \in 1 .. Len(f2) /\ Len(f1) + (p - Len(f1)) = p
      BY <1>1, <2>2
    <3>2. f[p] = f2[p - Len(f1)]
      BY <1>1, <3>1
    <3>3. f[p].name = n => p - Len(f1) \in c + 1 .. c + Len(b)
      BY <3>1, <3>2
    <3> QED BY <1>1, <1>2, <1>3, <3>1, <3>3
  <2> QED BY <2>1, <2>2
<1> HIDE DEF a
<1> QED BY <1>3, <1>5, <1>6 DEF Left, f

\* The calls that a change makes are, for each logger, in one piece.
LEMMA ChangedLeft ==
  ASSUME NEW old, NEW new, LogSet(old), LogSet(new)
  PROVE  /\ LogChanged(old, new) \in Seq(OpsOf(old, new))
         /\ \A n \in LogNames : Left(LogChanged(old, new), n, Block(old, new, n), 0)
<1> DEFINE T == OpsOf(old, new)
           s1 == [i \in DOMAIN LoggerNames |-> OpsFor(old, new, LoggerNames[i])]
           s2 == [i \in DOMAIN LoggerNames |-> OpsRemoved(old, new, LoggerNames[i])]
           N == Len(LoggerNames)
<1>1. N \in Nat /\ DOMAIN LoggerNames = 1 .. N
  BY LogsAssumption, LenProperties DEF LogsAssumption
<1>2. \A i \in 1 .. N : LoggerNames[i] \in LogNames
  BY <1>1 DEF LogNames, Range
<1>0. \A n \in LogNames :
         /\ n \in Defined(new) => Block(old, new, n) = OpsFor(old, new, n) /\ OpsRemoved(old, new, n) = <<>>
         /\ n \notin Defined(new) => Block(old, new, n) = OpsRemoved(old, new, n) /\ OpsFor(old, new, n) = <<>>
         /\ \A i \in 1 .. Len(OpsFor(old, new, n)) : OpsFor(old, new, n)[i].name = n
         /\ \A i \in 1 .. Len(OpsRemoved(old, new, n)) : OpsRemoved(old, new, n)[i].name = n
  BY BlockIsOne
<1>3. \A i \in 1 .. N : s1[i] \in Seq(T) /\ s2[i] \in Seq(T)
  BY <1>1, <1>2, BlockIsOne
<1>4. s1 \in Seq(Seq(T)) /\ Len(s1) = N /\ s2 \in Seq(Seq(T)) /\ Len(s2) = N
  <2> HIDE DEF N, T
  <2>1. s1 = [i \in 1 .. N |-> s1[i]] /\ s2 = [i \in 1 .. N |-> s2[i]]
    BY <1>1
  <2> HIDE DEF s1, s2
  <2>2. s1 \in [1 .. N -> Seq(T)] /\ s2 \in [1 .. N -> Seq(T)]
    BY <1>3, <2>1
  <2> QED BY <1>1, <2>2
<1> DEFINE f1 == FlattenSeq(s1)
           f2 == FlattenSeq(s2)
<1>5. /\ \A i \in 1 .. N : s1[i] = OpsFor(old, new, LoggerNames[i]) /\ s2[i] = OpsRemoved(old, new, LoggerNames[i])
  BY <1>1
<1>6. LogChanged(old, new) = f1 \o f2
  BY DEF LogChanged
<1> HIDE DEF s1, s2, N
<1>7. f1 \in Seq(T) /\ AllPieces(f1, s1, N) /\ f2 \in Seq(T) /\ AllPieces(f2, s2, N)
  BY <1>4, FlattenPieces
<1> HIDE DEF f1, f2, T
<1>8. f1 \o f2 \in Seq(T)
  BY <1>7, ConcatProperties
<1>9. ASSUME NEW n \in LogNames PROVE Left(f1 \o f2, n, Block(old, new, n), 0)
  <2>1. PICK i \in 1 .. N : LoggerNames[i] = n
    BY <1>1 DEF LogNames, Range
  <2> DEFINE b == Block(old, new, n)
  <2>2. b \in Seq(T)
    BY BlockIsOne DEF T
  <2>3. \A m \in 1 .. N : m # i => LoggerNames[m] # n
    BY <1>1, <2>1, LogsAssumption DEF LogsAssumption
  <2>4. ASSUME NEW m \in 1 .. N, m # i, NEW o,
               (\E j \in 1 .. Len(s1[m]) : o = s1[m][j]) \/ (\E j \in 1 .. Len(s2[m]) : o = s2[m][j])
        PROVE  o.name # n
    <3>1. o.name = LoggerNames[m]
      <4>1. PICK q \in LogNames : q = LoggerNames[m]
        BY <1>2
      <4>2. s1[m] = OpsFor(old, new, q) /\ s2[m] = OpsRemoved(old, new, q)
        BY <1>5, <4>1
      <4> QED BY <2>4, <4>1, <4>2, <1>0
    <3> QED BY <2>3, <2>4, <3>1
  <2>5. PICK a \in Nat :
          /\ a + Len(s1[i]) <= Len(f1)
          /\ \A j \in 1 .. Len(s1[i]) : f1[a + j] = s1[i][j]
          /\ \A p \in 1 .. Len(f1) : p \in a + 1 .. a + Len(s1[i])
                 \/ \E m \in 1 .. N : m # i /\ \E j \in 1 .. Len(s1[m]) : f1[p] = s1[m][j]
    BY <1>7, <2>1 DEF AllPieces, HasPiece
  <2>6. PICK c \in Nat :
          /\ c + Len(s2[i]) <= Len(f2)
          /\ \A j \in 1 .. Len(s2[i]) : f2[c + j] = s2[i][j]
          /\ \A p \in 1 .. Len(f2) : p \in c + 1 .. c + Len(s2[i])
                 \/ \E m \in 1 .. N : m # i /\ \E j \in 1 .. Len(s2[m]) : f2[p] = s2[m][j]
    BY <1>7, <2>1 DEF AllPieces, HasPiece
  <2>7. \A p \in 1 .. Len(f1) : f1[p].name = n => p \in a + 1 .. a + Len(s1[i])
    BY <2>4, <2>5
  <2>8. \A p \in 1 .. Len(f2) : f2[p].name = n => p \in c + 1 .. c + Len(s2[i])
    BY <2>4, <2>6
  <2>9. CASE n \in Defined(new)
    <3>1. b = s1[i] /\ s2[i] = <<>>
      BY <1>0, <1>5, <2>1, <2>9
    <3>2. \A p \in 1 .. Len(f2) : f2[p].name # n
      <4>1. Len(s2[i]) = 0
        BY <3>1, EmptySeq
      <4>2. c + 1 .. c + Len(s2[i]) = {}
        BY <4>1
      <4> QED BY <2>8, <4>2
    <3> HIDE DEF b
    <3> QED BY <1>7, <2>2, <2>5, <2>7, <3>1, <3>2, FirstLeft DEF b
  <2>10. CASE n \notin Defined(new)
    <3>1. b = s2[i] /\ s1[i] = <<>>
      BY <1>0, <1>5, <2>1, <2>10
    <3>2. \A p \in 1 .. Len(f1) : f1[p].name # n
      <4>1. Len(s1[i]) = 0
        BY <3>1, EmptySeq
      <4>2. a + 1 .. a + Len(s1[i]) = {}
        BY <4>1
      <4> QED BY <2>7, <4>2
    <3> HIDE DEF b
    <3> QED BY <1>7, <2>2, <2>6, <2>8, <3>1, <3>2, SecondLeft DEF b
  <2> QED BY <2>9, <2>10
<1> QED BY <1>6, <1>8, <1>9 DEF T

\* A step that puts logger n leaves the other loggers alone.
LEMMA PutFacts ==
  ASSUME NEW n, NEW r, PutLogger(n, r)
  PROVE  /\ DOMAIN loggers' = DOMAIN loggers \cup {n} /\ GetLogger(n)' = r
         /\ \A m \in DOMAIN loggers \ {n} : loggers'[m] = loggers[m]
         /\ loggers'[n] = r
         /\ \A m : m # n => GetLogger(m)' = GetLogger(m) /\ (m \in DOMAIN loggers' <=> m \in DOMAIN loggers)
BY DEF PutLogger, GetLogger

\* The fields of a logger.
LEMMA GetFields ==
  ASSUME \A n \in DOMAIN loggers : DOMAIN loggers[n] = LoggerFields
  PROVE  \A n : DOMAIN GetLogger(n) = LoggerFields
<1>1. DOMAIN NewLogger = LoggerFields
  BY DEF NewLogger, LoggerFields
<1> QED BY <1>1 DEF GetLogger

\* What holds of a logger holds as long as it is left alone.
LEMMA SameDone ==
  ASSUME NEW old, NEW new, NEW n, NEW k,
         GetLogger(n)' = GetLogger(n), n \in DOMAIN loggers => n \in DOMAIN loggers'
  PROVE  /\ Done(old, new, n, k) => Done(old, new, n, k)'
         /\ Mute(n) => Mute(n)'
         /\ \A d : Reached(d, n, k) => Reached(d, n, k)'
<1>1. Mute(n) => Mute(n)'
  BY DEF Mute
<1>2. \A d : Reached(d, n, k) => Reached(d, n, k)'
  BY DEF Reached
<1>3. Done(old, new, n, k) => Done(old, new, n, k)'
  BY <1>1, <1>2 DEF Done
<1> QED BY <1>1, <1>2, <1>3

\* One call of a change, and the steps it makes.
Call(o) ==
  CASE o.op = "level" -> SetLevel(o.name, o.arg)
    [] o.op = "formatter" -> SetFormatter(o.name, o.arg)
    [] o.op = "clear" -> ClearAppender(o.name)
    [] o.op = "add" -> AddAppender(o.name, o.arg)
    [] o.op = "crash" -> UNCHANGED loggers
\* Each call of a logger puts one record in the place of that logger:
\* SetLevel one with the level ...
LEMMA SetLevelPuts ==
  ASSUME NEW n, NEW a, SetLevel(n, a), DOMAIN GetLogger(n) = LoggerFields
  PROVE  \E r : /\ PutLogger(n, r) /\ DOMAIN r = LoggerFields
                /\ r.level = a /\ r.fmt = GetLogger(n).fmt /\ r.appenders = GetLogger(n).appenders
<1> DEFINE r == [GetLogger(n) EXCEPT !.level = a]
<1>1. PutLogger(n, r)
  BY DEF SetLevel
<1>2. DOMAIN r = LoggerFields /\ r.level = a /\ r.fmt = GetLogger(n).fmt /\ r.appenders = GetLogger(n).appenders
  BY DEF LoggerFields
<1> HIDE DEF r
<1> QED BY <1>1, <1>2
\* ... SetFormatter one with the format, if it is valid ...
LEMMA SetFormatterPuts ==
  ASSUME NEW n, NEW a, SetFormatter(n, a), DOMAIN GetLogger(n) = LoggerFields
  PROVE  \E r : /\ PutLogger(n, r) /\ DOMAIN r = LoggerFields
                /\ r.level = GetLogger(n).level /\ (IsValid(a) => r.fmt = a)
<1> DEFINE g == GetLogger(n)
           as == [i \in DOMAIN g.appenders |->
                    IF g.appenders[i].own THEN g.appenders[i] ELSE [g.appenders[i] EXCEPT !.fmt = a]]
           q == [g EXCEPT !.fmt = a, !.appenders = as]
           r == IF ~IsValid(a) THEN g ELSE q
<1>1. PutLogger(n, r)
  BY DEF SetFormatter
<1>2. DOMAIN r = LoggerFields /\ r.level = g.level /\ (IsValid(a) => r.fmt = a)
  <2> HIDE DEF as
  <2>1. DOMAIN q = LoggerFields /\ q.level = g.level /\ q.fmt = a
    BY DEF LoggerFields
  <2> HIDE DEF q
  <2> QED BY <2>1
<1> HIDE DEF r
<1> QED BY <1>1, <1>2
\* ... ClearAppenders one without appenders ...
LEMMA ClearAppenderPuts ==
  ASSUME NEW n, ClearAppender(n), DOMAIN GetLogger(n) = LoggerFields
  PROVE  \E r : /\ PutLogger(n, r) /\ DOMAIN r = LoggerFields
                /\ r.level = GetLogger(n).level /\ r.fmt = GetLogger(n).fmt /\ r.appenders = <<>>
<1> DEFINE r == [GetLogger(n) EXCEPT !.appenders = <<>>]
<1>1. PutLogger(n, r)
  BY DEF ClearAppender
<1>2. DOMAIN r = LoggerFields /\ r.level = GetLogger(n).level /\ r.fmt = GetLogger(n).fmt /\ r.appenders = <<>>
  BY DEF LoggerFields
<1> HIDE DEF r
<1> QED BY <1>1, <1>2
\* ... and AddAppender one with an appender more.
LEMMA AddAppenderPuts ==
  ASSUME NEW n, NEW a, AddAppender(n, a), DOMAIN GetLogger(n) = LoggerFields
  PROVE  \E r : /\ PutLogger(n, r) /\ DOMAIN r = LoggerFields
                /\ r.level = GetLogger(n).level /\ r.fmt = GetLogger(n).fmt
                /\ r.appenders = Append(GetLogger(n).appenders, Made(a, GetLogger(n).fmt))
<1> DEFINE x == Append(GetLogger(n).appenders, Made(a, GetLogger(n).fmt))
           r == [GetLogger(n) EXCEPT !.appenders = x]
<1>1. PutLogger(n, r)
  BY DEF AddAppender, Made
<1> HIDE DEF x
<1>2. DOMAIN r = LoggerFields /\ r.level = GetLogger(n).level /\ r.fmt = GetLogger(n).fmt /\ r.appenders = x
  BY DEF LoggerFields
<1> HIDE DEF r
<1> QED BY <1>1, <1>2 DEF x
\* So CallLogger puts a record for the logger of the call.
LEMMA CallIsPut ==
  ASSUME NEW o, Call(o), o.op \in {"level", "formatter", "clear", "add"}, DOMAIN GetLogger(o.name) = LoggerFields
  PROVE  \E r : PutLogger(o.name, r) /\ DOMAIN r = LoggerFields
<1>1. CASE o.op = "level"
  <2>1. SetLevel(o.name, o.arg)
    BY <1>1 DEF Call
  <2> QED BY <2>1, SetLevelPuts
<1>2. CASE o.op = "formatter"
  <2>1. SetFormatter(o.name, o.arg)
    BY <1>2 DEF Call
  <2> QED BY <2>1, SetFormatterPuts
<1>3. CASE o.op = "clear"
  <2>1. ClearAppender(o.name)
    BY <1>3 DEF Call
  <2> QED BY <2>1, ClearAppenderPuts
<1>4. CASE o.op = "add"
  <2>1. AddAppender(o.name, o.arg)
    BY <1>4 DEF Call
  <2> QED BY <2>1, AddAppenderPuts
<1> QED BY <1>1, <1>2, <1>3, <1>4
\* It leaves the other loggers alone.
LEMMA CallPuts ==
  ASSUME NEW o, Call(o), o.op \in {"level", "formatter", "clear", "add"},
         \A n \in DOMAIN loggers : DOMAIN loggers[n] = LoggerFields
  PROVE  /\ \A m : m # o.name => GetLogger(m)' = GetLogger(m) /\ (m \in DOMAIN loggers' <=> m \in DOMAIN loggers)
         /\ DOMAIN loggers' = DOMAIN loggers \cup {o.name}
         /\ \A m \in DOMAIN loggers' : DOMAIN loggers'[m] = LoggerFields
<1>0. DOMAIN GetLogger(o.name) = LoggerFields
  BY GetFields
<1>1. ASSUME NEW r, PutLogger(o.name, r), DOMAIN r = LoggerFields
      PROVE  /\ \A m : m # o.name => GetLogger(m)' = GetLogger(m) /\ (m \in DOMAIN loggers' <=> m \in DOMAIN loggers)
             /\ DOMAIN loggers' = DOMAIN loggers \cup {o.name}
             /\ \A m \in DOMAIN loggers' : DOMAIN loggers'[m] = LoggerFields
  <2>1. PICK n : n = o.name
    OBVIOUS
  <2>2. /\ DOMAIN loggers' = DOMAIN loggers \cup {n} /\ loggers'[n] = r
        /\ \A m \in DOMAIN loggers \ {n} : loggers'[m] = loggers[m]
    BY <1>1, <2>1, PutFacts
  <2>3. \A m \in DOMAIN loggers' : DOMAIN loggers'[m] = LoggerFields
    BY <1>1, <2>2
  <2>4. \A m : m # n => GetLogger(m)' = GetLogger(m) /\ (m \in DOMAIN loggers' <=> m \in DOMAIN loggers)
    BY <2>2 DEF GetLogger
  <2>5. \A m : m # o.name => GetLogger(m)' = GetLogger(m) /\ (m \in DOMAIN loggers' <=> m \in DOMAIN loggers)
    BY <2>1, <2>4
  <2>6. DOMAIN loggers' = DOMAIN loggers \cup {o.name}
    BY <2>1, <2>2
  <2> QED BY <2>3, <2>5, <2>6, Zenon
<1>2. \E r : PutLogger(o.name, r) /\ DOMAIN r = LoggerFields
  BY <1>0, CallIsPut
<1> QED BY <1>1, <1>2

\* One more call for definition d brings its logger one call further.
LEMMA ReachedNext ==
  ASSUME NEW d, NEW n, NEW j, n \in DOMAIN loggers', GetLogger(n)'.level = d.level,
         IsValid(d.formatter) => GetLogger(n)'.fmt = d.formatter,
         NEW f, GetLogger(n)'.fmt = f, GetLogger(n)'.appenders = MadeFirst(d, j - 2 - Extra(d), f)
  PROVE  Reached(d, n, j)'
BY DEF Reached
\* A call takes the logger it is for one step further.
LEMMA CallReaches ==
  ASSUME NEW old, NEW new, LogSet(old), LogSet(new), NEW n \in LogNames,
         NEW k \in Nat, k < Len(Block(old, new, n)), Done(old, new, n, k),
         NEW o, o = Block(old, new, n)[k + 1], o.op # "crash", Call(o),
         \A m \in DOMAIN loggers : DOMAIN loggers[m] = LoggerFields
  PROVE  Done(old, new, n, k + 1)' /\ o.op \in {"level", "formatter", "clear", "add"}
<1>0. DOMAIN GetLogger(n) = LoggerFields
  BY GetFields
<1>1. CASE n \in Defined(new) /\ DefOf(new, n) \in old
  <2>1. Block(old, new, n) = <<[op |-> "crash", name |-> n]>>
    <3>1. Block(old, new, n) = OpsFor(old, new, n)
      BY <1>1, BlockIsOne, ZenonT(60)
    <3> QED BY <1>1, <3>1 DEF OpsFor
  <2>2. k + 1 = 1
    BY <2>1
  <2>3. o = [op |-> "crash", name |-> n]
    BY <2>1, <2>2
  <2> QED BY <2>3
<1>2. CASE n \in Defined(new) /\ DefOf(new, n) \notin old
  <2>1. PICK d : d = DefOf(new, n)
    OBVIOUS
  <2> DEFINE b == Block(old, new, n)
             e == Extra(d)
  <2>2. b = OpsFor(old, new, n)
    BY <1>2, BlockIsOne, SMTT(60)
  <2>3. d \notin old
    BY <1>2, <2>1
  <2>4. /\ Len(b) = AllOps(d)
        /\ b[1] = [op |-> "level", name |-> n, arg |-> d.level]
        /\ e = 1 => b[2] = [op |-> "formatter", name |-> n, arg |-> d.formatter]
        /\ b[2 + e] = [op |-> "clear", name |-> n]
        /\ \A i \in 1 .. Len(d.appenders) : b[2 + e + i] = [op |-> "add", name |-> n, arg |-> d.appenders[i]]
    <3>1. ChangeCalls(b, d, n)
      BY <1>2, <2>1, <2>2, <2>3, OpsOfChange
    <3> QED BY <3>1 DEF ChangeCalls
  <2>5. e \in {0, 1} /\ Len(d.appenders) \in Nat /\ (IsValid(d.formatter) => e = 1)
    <3>1. d.appenders \in Seq(Range(d.appenders))
      BY <1>2, <2>1, DefinedOnce DEF LogSet
    <3>2. Len(d.appenders) \in Nat
      BY <3>1, LenProperties
    <3> QED BY <3>2 DEF Extra, IsValid
  <2>6. Len(b) = 2 + e + Len(d.appenders)
    BY <2>4 DEF AllOps
  <2>7. Reached(d, n, k)
    BY <1>2, <2>1 DEF Done
  <2>8. SUFFICES Reached(d, n, k + 1)' /\ o.op \in {"level", "formatter", "clear", "add"}
    BY <1>2, <2>1 DEF Done
  <2>9. o = b[k + 1]
    OBVIOUS
  <2>15. PICK q : q = k + 1
    OBVIOUS
  <2> HIDE DEF b
  <2>10. CASE k = 0
    <3>1. o = [op |-> "level", name |-> n, arg |-> d.level]
      BY <2>4, <2>9, <2>10
    <3>2. SetLevel(n, d.level)
      BY <3>1 DEF Call
    <3>3. PICK r : PutLogger(n, r) /\ r.level = d.level
      BY <1>0, <3>2, SetLevelPuts
    <3>4. GetLogger(n)'.level = d.level /\ n \in DOMAIN loggers'
      <4>1. GetLogger(n)' = r /\ DOMAIN loggers' = DOMAIN loggers \cup {n}
        BY <3>3, PutFacts
      <4> QED BY <3>3, <4>1
    <3>5. 0 + 1 = 1 /\ ~(1 >= 2 + e) /\ (1 >= 1 + e => e = 0)
      BY <2>5
    <3> QED BY <2>5, <2>10, <3>1, <3>3, <3>4, <3>5 DEF Reached
  <2>11. CASE k = 1 /\ e = 1
    <3>1. o = [op |-> "formatter", name |-> n, arg |-> d.formatter]
      BY <2>4, <2>9, <2>11
    <3>2. SetFormatter(n, d.formatter)
      BY <3>1 DEF Call
    <3>3. PICK r : PutLogger(n, r) /\ r.level = GetLogger(n).level /\ (IsValid(d.formatter) => r.fmt = d.formatter)
      BY <1>0, <3>2, SetFormatterPuts
    <3>4. /\ n \in DOMAIN loggers' /\ GetLogger(n)'.level = GetLogger(n).level
          /\ IsValid(d.formatter) => GetLogger(n)'.fmt = d.formatter
      BY <3>3, PutFacts, ZenonT(60)
    <3>5. GetLogger(n).level = d.level
      BY <2>7, <2>11 DEF Reached
    <3>6. 1 + 1 = 2 /\ ~(2 >= 2 + e)
      BY <2>11
    <3> QED BY <2>11, <3>1, <3>3, <3>4, <3>5, <3>6 DEF Reached
  <2>12. CASE k = 1 + e
    <3>1. o = [op |-> "clear", name |-> n]
      <4>1. k + 1 = 2 + e
        BY <2>5, <2>12
      <4> QED BY <2>4, <2>9, <4>1
    <3>2. ClearAppender(n)
      BY <3>1 DEF Call
    <3>3. PICK r : /\ PutLogger(n, r) /\ r.appenders = <<>>
                   /\ r.level = GetLogger(n).level /\ r.fmt = GetLogger(n).fmt
      BY <1>0, <3>2, ClearAppenderPuts
    <3>4. /\ GetLogger(n)'.level = GetLogger(n).level /\ GetLogger(n)'.fmt = GetLogger(n).fmt
          /\ GetLogger(n)'.appenders = <<>> /\ n \in DOMAIN loggers'
      BY <3>3, PutFacts, ZenonT(60)
    <3>5. k >= 1 /\ k >= 1 + e /\ q - 2 - e = 0
      <4>1. CASE e = 0
        BY <4>1, <2>12, <2>15
      <4>2. CASE e = 1
        BY <4>2, <2>12, <2>15
      <4> QED BY <2>5, <4>1, <4>2
    <3>6. GetLogger(n).level = d.level /\ (IsValid(d.formatter) => GetLogger(n).fmt = d.formatter)
      BY <2>7, <3>5 DEF Reached
    <3>7. PICK f : f = GetLogger(n).fmt
      OBVIOUS
    <3>8. <<>> = MadeFirst(d, q - 2 - e, f)
      BY <3>5 DEF MadeFirst
    <3>9. GetLogger(n)'.level = d.level
      BY <3>4, <3>6
    <3>10. IsValid(d.formatter) => GetLogger(n)'.fmt = d.formatter
      BY <3>4, <3>6
    <3>11. Reached(d, n, k + 1)'
      <4>1. GetLogger(n)'.fmt = f /\ GetLogger(n)'.appenders = MadeFirst(d, q - 2 - e, f)
        BY <3>4, <3>7, <3>8
      <4>2. Reached(d, n, q)'
        BY <4>1, <3>4, <3>7, <3>8, <3>9, <3>10, ReachedNext
      <4> QED BY <4>2, <2>15
    <3> QED BY <3>1, <3>11
  <2>13. CASE k > 1 + e
    <3> DEFINE j == k - 2 - e
    <3>1. j \in Nat /\ j + 1 \in 1 .. Len(d.appenders) /\ k + 1 = 2 + e + (j + 1) /\ q - 2 - e = j + 1
          /\ k >= 1 /\ k >= 1 + e /\ k >= 2 + e
      BY <2>5, <2>6, <2>13, <2>15 DEF b
    <3>2. PICK a : a = d.appenders[j + 1]
      OBVIOUS
    <3> HIDE DEF j
    <3>3. o = [op |-> "add", name |-> n, arg |-> a]
      BY <2>4, <2>9, <3>1, <3>2
    <3>4. AddAppender(n, a)
      BY <3>3 DEF Call
    <3>5. PICK r : /\ PutLogger(n, r) /\ r.level = GetLogger(n).level /\ r.fmt = GetLogger(n).fmt
                   /\ r.appenders = Append(GetLogger(n).appenders, Made(a, GetLogger(n).fmt))
      BY <1>0, <3>4, AddAppenderPuts
    <3>6. /\ GetLogger(n)'.level = GetLogger(n).level /\ GetLogger(n)'.fmt = GetLogger(n).fmt
          /\ GetLogger(n)'.appenders = Append(GetLogger(n).appenders, Made(a, GetLogger(n).fmt))
          /\ n \in DOMAIN loggers'
      BY <3>5, PutFacts, ZenonT(60)
    <3>7. GetLogger(n).level = d.level /\ (IsValid(d.formatter) => GetLogger(n).fmt = d.formatter)
      BY <2>7, <3>1 DEF Reached
    <3>8. k - 2 - e = j
      BY DEF j
    <3>9. PICK f : f = GetLogger(n).fmt /\ GetLogger(n).appenders = MadeFirst(d, k - 2 - e, f)
      BY <2>7, <3>1 DEF Reached
    <3>10. Append(MadeFirst(d, j, f), Made(d.appenders[j + 1], f)) = MadeFirst(d, j + 1, f)
      <4> DEFINE g(i) == Made(d.appenders[i], f)
      <4>1. MadeFirst(d, j, f) = [i \in 1 .. j |-> g(i)] /\ MadeFirst(d, j + 1, f) = [i \in 1 .. j + 1 |-> g(i)]
        BY DEF MadeFirst
      <4>2. Made(d.appenders[j + 1], f) = g(j + 1)
        OBVIOUS
      <4> HIDE DEF g
      <4>3. Append([i \in 1 .. j |-> g(i)], g(j + 1)) = [i \in 1 .. j + 1 |-> g(i)]
        BY <3>1
      <4> QED BY <4>1, <4>2, <4>3
    <3>11. GetLogger(n)'.fmt = f /\ GetLogger(n)'.appenders = MadeFirst(d, q - 2 - e, f)
      BY <3>1, <3>2, <3>6, <3>8, <3>9, <3>10
    <3>12. GetLogger(n)'.level = d.level
      BY <3>6, <3>7
    <3>13. IsValid(d.formatter) => GetLogger(n)'.fmt = d.formatter
      BY <3>6, <3>7
    <3>14. Reached(d, n, k + 1)'
      <4>1. GetLogger(n)'.fmt = f /\ GetLogger(n)'.appenders = MadeFirst(d, q - 2 - e, f)
        BY <3>11
      <4>2. Reached(d, n, q)'
        BY <4>1, <3>6, <3>11, <3>12, <3>13, ReachedNext
      <4> QED BY <4>2, <2>15
    <3> QED BY <3>3, <3>14
  <2>14. k = 0 \/ (k = 1 /\ e = 1) \/ k = 1 + e \/ k > 1 + e
    BY <2>5
  <2> QED BY <2>10, <2>11, <2>12, <2>13, <2>14
<1>3. CASE n \notin Defined(new)
  <2>1. Block(old, new, n) = OpsRemoved(old, new, n)
    BY <1>3, BlockIsOne
  <2>2. n \in Defined(old)
    <3>1. ASSUME n \notin Defined(old) PROVE FALSE
      <4>1. Block(old, new, n) = <<>>
        BY <1>3, <2>1, <3>1 DEF OpsRemoved
      <4>2. Len(Block(old, new, n)) = 0
        BY <4>1, EmptySeq
      <4> QED BY <4>2
    <3> QED BY <3>1
  <2>3. Block(old, new, n) = <<[op |-> "level", name |-> n, arg |-> Silent], [op |-> "clear", name |-> n]>>
    BY <1>3, <2>1, <2>2 DEF OpsRemoved
  <2>4. k \in {0, 1}
    BY <2>3
  <2>5. CASE k = 0
    <3>1. o = [op |-> "level", name |-> n, arg |-> Silent]
      BY <2>3, <2>5
    <3>2. SetLevel(n, Silent)
      BY <3>1 DEF Call
    <3>3. GetLogger(n)'.level = Silent
      <4>1. PICK r : PutLogger(n, r) /\ r.level = Silent
        BY <1>0, <3>2, SetLevelPuts
      <4>2. GetLogger(n)' = r
        BY <4>1, PutFacts
      <4> QED BY <4>1, <4>2
    <3> QED BY <1>3, <2>2, <2>5, <3>1, <3>3 DEF Done
  <2>6. CASE k = 1
    <3>1. o = [op |-> "clear", name |-> n]
      BY <2>3, <2>6
    <3>2. ClearAppender(n)
      BY <3>1 DEF Call
    <3>3. GetLogger(n)'.level = GetLogger(n).level /\ GetLogger(n)'.appenders = <<>>
      <4>1. PICK r : PutLogger(n, r) /\ r.level = GetLogger(n).level /\ r.appenders = <<>>
        BY <1>0, <3>2, ClearAppenderPuts
      <4>2. GetLogger(n)' = r
        BY <4>1, PutFacts
      <4> QED BY <4>1, <4>2
    <3>4. GetLogger(n).level = Silent
      BY <1>3, <2>2, <2>6 DEF Done
    <3> QED BY <1>3, <2>2, <2>6, <3>1, <3>3, <3>4 DEF Done
  <2> QED BY <2>4, <2>5, <2>6
<1> QED BY <1>1, <1>2, <1>3

\* The first call of ops is the next one for its logger; the rest keeps the
\* calls for every logger in one piece.
LEMMA LeftNext ==
  ASSUME NEW T, NEW ops \in Seq(T), ops # <<>>, NEW b \in Seq(T), NEW n, AllFor(b, n),
         NEW k \in 0 .. Len(b), Left(ops, n, b, k)
  PROVE  /\ ops[1].name # n => Left(Tail(ops), n, b, k)
         /\ ops[1].name = n => k < Len(b) /\ ops[1] = b[k + 1] /\ Left(Tail(ops), n, b, k + 1)
<1> DEFINE t == Tail(ops)
           r == Len(b) - k
<1>1. /\ Len(ops) \in Nat /\ Len(ops) >= 1 /\ Len(b) \in Nat
      /\ t \in Seq(T) /\ Len(t) = Len(ops) - 1 /\ \A i \in 1 .. Len(t) : t[i] = ops[i + 1]
  <2>1. Len(ops) \in Nat /\ Len(b) \in Nat /\ Len(ops) # 0
    BY LenProperties, EmptySeq
  <2>2. t \in Seq(T) /\ Len(t) = Len(ops) - 1 /\ \A i \in 1 .. Len(t) : t[i] = ops[i + 1]
    BY HeadTailProperties
  <2> QED BY <2>1, <2>2
<1> HIDE DEF t
<1>2. PICK a \in 0 .. Len(ops) :
        /\ a + r <= Len(ops)
        /\ \A j \in 1 .. r : ops[a + j] = b[k + j]
        /\ \A p \in 1 .. Len(ops) : ops[p].name = n => p \in a + 1 .. a + r
  BY DEF Left
<1>3. r \in Nat /\ a \in Nat /\ k \in Nat
  BY <1>1
<1>4. CASE ops[1].name # n
  <2>1. CASE r = 0
    <3>1. \A p \in 1 .. Len(ops) : ops[p].name # n
      BY <1>2, <1>3, <2>1
    <3>2. \A p \in 1 .. Len(t) : t[p].name # n
      <4> TAKE p \in 1 .. Len(t)
      <4>1. p + 1 \in 1 .. Len(ops)
        BY <1>1
      <4> QED BY <1>1, <3>1, <4>1
    <3>3. 0 \in 0 .. Len(t) /\ 0 + r <= Len(t) /\ \A j \in 1 .. r : FALSE
      BY <1>1, <2>1
    <3>4. Left(t, n, b, k)
      BY <3>2, <3>3 DEF Left
    <3> QED BY <1>4, <3>4 DEF t
  <2>2. CASE r # 0
    <3>1. a # 0
      <4> SUFFICES ASSUME a = 0 PROVE FALSE
        OBVIOUS
      <4>1. 1 \in 1 .. r /\ k + 1 \in 1 .. Len(b) /\ 0 + 1 = 1
        BY <1>1, <1>3, <2>2
      <4>2. ops[1] = b[k + 1] /\ b[k + 1].name = n
        BY <1>2, <4>1 DEF AllFor
      <4> QED BY <1>4, <4>2
    <3>2. a - 1 \in 0 .. Len(t) /\ (a - 1) + r <= Len(t)
      BY <1>1, <1>2, <1>3, <3>1
    <3>3. \A j \in 1 .. r : t[(a - 1) + j] = b[k + j]
      <4> TAKE j \in 1 .. r
      <4>1. (a - 1) + j \in 1 .. Len(t) /\ (a - 1) + j + 1 = a + j
        BY <1>1, <1>2, <1>3, <3>1
      <4> QED BY <1>1, <1>2, <4>1
    <3>4. \A p \in 1 .. Len(t) : t[p].name = n => p \in (a - 1) + 1 .. (a - 1) + r
      <4> TAKE p \in 1 .. Len(t)
      <4>1. p + 1 \in 1 .. Len(ops) /\ t[p] = ops[p + 1]
        BY <1>1
      <4>2. t[p].name = n => p + 1 \in a + 1 .. a + r
        BY <1>2, <4>1
      <4> QED BY <1>3, <4>2
    <3>5. Left(t, n, b, k)
      BY <3>2, <3>3, <3>4 DEF Left
    <3> QED BY <1>4, <3>5 DEF t
  <2> QED BY <2>1, <2>2
<1>5. CASE ops[1].name = n
  <2>1. 1 \in a + 1 .. a + r
    BY <1>1, <1>2, <1>5
  <2>2. a = 0 /\ r >= 1
    BY <1>3, <2>1
  <2>3. k < Len(b) /\ ops[1] = b[k + 1]
    <3>1. 1 \in 1 .. r /\ 0 + 1 = 1
      BY <1>3, <2>2
    <3>2. ops[1] = b[k + 1]
      BY <1>2, <2>2, <3>1
    <3> QED BY <1>1, <1>3, <2>2, <3>2
  <2>4. 0 \in 0 .. Len(t) /\ 0 + (Len(b) - (k + 1)) <= Len(t)
    BY <1>1, <1>2, <1>3, <2>2
  <2>5. \A j \in 1 .. Len(b) - (k + 1) : t[0 + j] = b[k + 1 + j]
    <3> TAKE j \in 1 .. Len(b) - (k + 1)
    <3>1. 0 + j \in 1 .. Len(t) /\ 0 + j + 1 = 0 + (j + 1) /\ j + 1 \in 1 .. r /\ k + 1 + j = k + (j + 1)
      BY <1>1, <1>2, <1>3, <2>2
    <3>2. ops[0 + (j + 1)] = b[k + (j + 1)]
      BY <1>2, <2>2, <3>1
    <3>3. t[0 + j] = ops[0 + j + 1]
      BY <1>1, <3>1
    <3> QED BY <3>1, <3>2, <3>3
  <2>6. \A p \in 1 .. Len(t) : t[p].name = n => p \in 0 + 1 .. 0 + (Len(b) - (k + 1))
    <3> TAKE p \in 1 .. Len(t)
    <3>1. p + 1 \in 1 .. Len(ops) /\ t[p] = ops[p + 1]
      BY <1>1
    <3>2. t[p].name = n => p + 1 \in 0 + 1 .. 0 + r
      BY <1>2, <2>2, <3>1
    <3> QED BY <1>1, <1>3, <3>2
  <2>7. Left(t, n, b, k + 1)
    BY <2>4, <2>5, <2>6 DEF Left
  <2> QED BY <1>5, <2>3, <2>7 DEF t
<1> QED BY <1>4, <1>5

\* The calls for a logger are a sequence of calls of the change.
LEMMA BlockLists ==
  ASSUME NEW old, NEW new, LogSet(old), LogSet(new)
  PROVE  \A n \in LogNames : /\ Block(old, new, n) \in Seq(OpsOf(old, new)) /\ AllFor(Block(old, new, n), n)
                             /\ Len(Block(old, new, n)) \in Nat
<1> SUFFICES ASSUME NEW n \in LogNames
             PROVE  /\ Block(old, new, n) \in Seq(OpsOf(old, new)) /\ AllFor(Block(old, new, n), n)
                    /\ Len(Block(old, new, n)) \in Nat
  OBVIOUS
<1>1. Block(old, new, n) \in Seq(OpsOf(old, new))
  BY BlockIsOne
<1>2. \A i \in 1 .. Len(Block(old, new, n)) : Block(old, new, n)[i].name = n
  BY BlockIsOne
<1> QED BY <1>1, <1>2, LenProperties DEF AllFor

\* Loggers that follow the old definitions are at the beginning of every change.
LEMMA BetweenStart ==
  ASSUME NEW old, NEW new, LogSet(old), LogSet(new), Follow(old)
  PROVE  Between(old, new, LogChanged(old, new))
<1>1. ASSUME NEW n \in LogNames
      PROVE  0 \in 0 .. Len(Block(old, new, n)) /\ Left(LogChanged(old, new), n, Block(old, new, n), 0) /\ Done(old, new, n, 0)
  <2>1. \A d : Reached(d, n, 0)
    BY DEF Reached, Extra
  <2>2. Done(old, new, n, 0)
    BY <2>1 DEF Follow, Done
  <2> QED BY <2>2, ChangedLeft, BlockLists
<1> QED BY <1>1, ChangedLeft DEF Between

\* When no call is left the loggers follow the new ones.
LEMMA BetweenEnd ==
  ASSUME NEW old, NEW new, LogSet(old), LogSet(new), Between(old, new, <<>>)
  PROVE  Follow(new)
<1> SUFFICES ASSUME NEW n \in LogNames
             PROVE  IF n \in Defined(new) THEN Reached(DefOf(new, n), n, AllOps(DefOf(new, n))) ELSE Mute(n)
  BY DEF Follow
<1>1. PICK k \in 0 .. Len(Block(old, new, n)) : Left(<<>>, n, Block(old, new, n), k) /\ Done(old, new, n, k)
  BY DEF Between
<1>2. k = Len(Block(old, new, n))
  <2>1. Len(<<>>) = 0
    BY EmptySeq
  <2>2. PICK a \in 0 .. 0 : a + (Len(Block(old, new, n)) - k) <= 0
    BY <1>1, <2>1 DEF Left
  <2> QED BY <1>1, <2>2, BlockLists
<1>3. CASE n \in Defined(new)
  <2>1. CASE DefOf(new, n) \in old
    <3>1. Block(old, new, n) = <<[op |-> "crash", name |-> n]>>
      BY <1>3, <2>1, BlockIsOne DEF OpsFor
    <3>2. k = 1
      BY <1>2, <3>1
    <3> QED BY <1>1, <1>3, <2>1, <3>2 DEF Done
  <2>2. CASE DefOf(new, n) \notin old
    <3>1. PICK d : d = DefOf(new, n)
      OBVIOUS
    <3>2. Block(old, new, n) = OpsFor(old, new, n)
      BY <1>3, BlockIsOne
    <3>3. ChangeCalls(OpsFor(old, new, n), d, n)
      BY <1>3, <2>2, <3>1, OpsOfChange
    <3>4. Len(Block(old, new, n)) = AllOps(d)
      BY <3>2, <3>3 DEF ChangeCalls
    <3>5. Reached(d, n, k)
      BY <1>1, <1>3, <2>2, <3>1 DEF Done
    <3> QED BY <1>2, <1>3, <3>1, <3>4, <3>5
  <2> QED BY <2>1, <2>2
<1>4. CASE n \notin Defined(new)
  <2>1. CASE n \in Defined(old)
    <3>1. Block(old, new, n) = <<[op |-> "level", name |-> n, arg |-> Silent], [op |-> "clear", name |-> n]>>
      BY <1>4, <2>1, BlockIsOne DEF OpsRemoved
    <3>2. k = 2
      BY <1>2, <3>1
    <3> QED BY <1>1, <1>4, <2>1, <3>2 DEF Done, Mute
  <2>2. CASE n \notin Defined(old)
    BY <1>1, <1>4, <2>2 DEF Done
  <2> QED BY <2>1, <2>2
<1> QED BY <1>3, <1>4

\* Steps that leave every logger as it is.
LEMMA BetweenSame ==
  ASSUME \A n : GetLogger(n)' = GetLogger(n) /\ (n \in DOMAIN loggers => n \in DOMAIN loggers')
  PROVE  /\ \A old, new, ops : Between(old, new, ops) => Between(old, new, ops)'
         /\ \A s : Follow(s) => Follow(s)'
<1>1. ASSUME NEW old, NEW new, NEW ops,
             Between(old, new, ops) PROVE Between(old, new, ops)'
  <2>1. \A n \in LogNames : \A k \in 0 .. Len(Block(old, new, n)) : Done(old, new, n, k) => Done(old, new, n, k)'
    BY SameDone
  <2> QED BY <1>1, <2>1 DEF Between
<1>2. ASSUME NEW s, Follow(s) PROVE Follow(s)'
  <2> SUFFICES ASSUME NEW n \in LogNames
               PROVE  (IF n \in Defined(s) THEN Reached(DefOf(s, n), n, AllOps(DefOf(s, n))) ELSE Mute(n))'
    BY DEF Follow
  <2>1. CASE n \in Defined(s)
    <3>1. PICK d, k : d = DefOf(s, n) /\ k = AllOps(d)
      OBVIOUS
    <3>2. Reached(d, n, k)
      BY <1>2, <2>1, <3>1 DEF Follow
    <3>3. Reached(d, n, k)'
      BY <3>2, SameDone
    <3> QED BY <2>1, <3>1, <3>3
  <2>2. CASE n \notin Defined(s)
    <3>1. Mute(n)
      BY <1>2, <2>2 DEF Follow
    <3>2. Mute(n)'
      BY <3>1, SameDone
    <3> QED BY <2>2, <3>2
  <2> QED BY <2>1, <2>2
<1> QED BY <1>1, <1>2

\* The next call of a change.
LEMMA BetweenCall ==
  ASSUME NEW old, NEW new, LogSet(old), LogSet(new), NEW ops, Between(old, new, ops), ops # <<>>,
         NEW o, o = ops[1], o.op # "crash", Call(o),
         \A m \in DOMAIN loggers : DOMAIN loggers[m] = LoggerFields
  PROVE  /\ Between(old, new, Tail(ops))' /\ o.name \in LogNames
         /\ o.op \in {"level", "formatter", "clear", "add"}
<1>1. ops \in Seq(OpsOf(old, new)) /\ Tail(ops) \in Seq(OpsOf(old, new)) /\ 1 \in 1 .. Len(ops)
  <2>1. ops \in Seq(OpsOf(old, new))
    BY DEF Between
  <2>2. Tail(ops) \in Seq(OpsOf(old, new))
    BY <2>1, HeadTailProperties
  <2>3. Len(ops) \in Nat /\ Len(ops) # 0
    BY <2>1, EmptySeq, LenProperties
  <2> QED BY <2>1, <2>2, <2>3
<1>2. o.name \in LogNames
  <2>1. o \in OpsOf(old, new)
    BY <1>1, ElementOfSeq
  <2>2. PICK n \in LogNames : o \in Range(Block(old, new, n))
    BY <2>1 DEF OpsOf
  <2>3. DOMAIN Block(old, new, n) = 1 .. Len(Block(old, new, n)) /\ AllFor(Block(old, new, n), n)
    BY BlockLists, LenProperties
  <2>4. o.name = n
    BY <2>2, <2>3 DEF Range, AllFor
  <2> QED BY <2>4
<1>3. PICK n \in LogNames : n = o.name
  BY <1>2
<1>4. PICK k \in 0 .. Len(Block(old, new, n)) : Left(ops, n, Block(old, new, n), k) /\ Done(old, new, n, k)
  BY DEF Between
<1>5. /\ k < Len(Block(old, new, n)) /\ o = Block(old, new, n)[k + 1]
      /\ Left(Tail(ops), n, Block(old, new, n), k + 1)
  BY <1>1, <1>3, <1>4, BlockLists, LeftNext
<1>6. Done(old, new, n, k + 1)' /\ o.op \in {"level", "formatter", "clear", "add"}
  <2>1. k \in Nat
    BY BlockLists
  <2> QED BY <1>4, <1>5, <2>1, CallReaches
<1>7. \A m : m # n => GetLogger(m)' = GetLogger(m) /\ (m \in DOMAIN loggers' <=> m \in DOMAIN loggers)
  BY <1>3, <1>6, CallPuts
<1>8. ASSUME NEW m \in LogNames
      PROVE  \E j \in 0 .. Len(Block(old, new, m)) :
               Left(Tail(ops), m, Block(old, new, m), j) /\ Done(old, new, m, j)'
  <2>1. CASE m = n
    <3>1. k + 1 \in 0 .. Len(Block(old, new, n))
      BY <1>5, BlockLists
    <3> QED BY <1>5, <1>6, <2>1, <3>1
  <2>2. CASE m # n
    <3>1. PICK j \in 0 .. Len(Block(old, new, m)) : Left(ops, m, Block(old, new, m), j) /\ Done(old, new, m, j)
      BY DEF Between
    <3>2. Left(Tail(ops), m, Block(old, new, m), j)
      BY <1>1, <1>3, <2>2, <3>1, BlockLists, LeftNext
    <3>3. Done(old, new, m, j)'
      BY <1>7, <2>2, <3>1, SameDone
    <3> QED BY <3>2, <3>3
  <2> QED BY <2>1, <2>2
<1> QED BY <1>1, <1>2, <1>6, <1>8 DEF Between

\* Loggers that follow the definitions are what LoggersAsConfigured asks for.
LEMMA FollowIsConfigured ==
  ASSUME FollowInv, Logs \in DOMAIN val, LogSet(val[Logs]), Follow(val[Logs])
  PROVE  LoggersAsConfigured
<1> DEFINE s == val[Logs]
<1>1. ASSUME NEW d \in s
      PROVE  LET r == loggers[d.name]
         IN /\ d.name \in DOMAIN loggers /\ r.level = d.level
            /\ IsValid(d.formatter) => r.fmt = d.formatter
            /\ Len(r.appenders) = Len(d.appenders)
            /\ \A i \in DOMAIN r.appenders :
                 /\ r.appenders[i].type = d.appenders[i].type /\ r.appenders[i].file = d.appenders[i].file
                 /\ r.appenders[i].fmt = IF IsValid(d.appenders[i].formatter) THEN d.appenders[i].formatter ELSE r.fmt
  <2>1. PICK n : n = d.name
    OBVIOUS
  <2>2. n \in Defined(s) /\ n \in LogNames
    BY <2>1 DEF LogSet, Defined, LogNames
  <2>3. DefOf(s, n) = d
    BY <2>1, <2>2, DefinedOnce DEF LogSet
  <2>4. Reached(d, n, AllOps(d))
    BY <2>2, <2>3 DEF Follow
  <2>5. Len(d.appenders) \in Nat
    <3>1. d.appenders \in Seq(Range(d.appenders))
      BY DEF LogSet
    <3> QED BY <3>1, LenProperties
  <2>6. Extra(d) \in {0, 1}
    BY DEF Extra
  <2>7. /\ AllOps(d) >= 1 /\ AllOps(d) >= 1 + Extra(d) /\ AllOps(d) >= 2 + Extra(d)
        /\ AllOps(d) - 2 - Extra(d) = Len(d.appenders)
    BY <2>5, <2>6 DEF AllOps
  <2>8. n \in DOMAIN loggers /\ GetLogger(n).level = d.level
    BY <2>4, <2>7 DEF Reached
  <2>9. IsValid(d.formatter) => GetLogger(n).fmt = d.formatter
    BY <2>4, <2>7 DEF Reached
  <2>10. GetLogger(n).appenders = MadeFirst(d, Len(d.appenders), GetLogger(n).fmt)
    BY <2>4, <2>7 DEF Reached
  <2>11. PICK r : r = loggers[n] /\ r = GetLogger(n)
    BY <2>8 DEF GetLogger
  <2>12. /\ r.appenders = [i \in 1 .. Len(d.appenders) |-> Made(d.appenders[i], r.fmt)]
    BY <2>10, <2>11 DEF MadeFirst
  <2>13. /\ Len(r.appenders) = Len(d.appenders) /\ DOMAIN r.appenders = 1 .. Len(d.appenders)
         /\ \A i \in 1 .. Len(d.appenders) : r.appenders[i] = Made(d.appenders[i], r.fmt)
    BY <2>5, <2>12
  <2>14. \A i \in DOMAIN r.appenders :
                 /\ r.appenders[i].type = d.appenders[i].type /\ r.appenders[i].file = d.appenders[i].file
                 /\ r.appenders[i].fmt = IF IsValid(d.appenders[i].formatter) THEN d.appenders[i].formatter ELSE r.fmt
    <3> TAKE i \in DOMAIN r.appenders
    <3>1. PICK a, f : a = d.appenders[i] /\ f = r.fmt
      OBVIOUS
    <3>2. r.appenders[i] = Made(a, f)
      BY <2>13, <3>1
    <3>3. /\ Made(a, f).type = a.type /\ Made(a, f).file = a.file
          /\ Made(a, f).fmt = IF IsValid(a.formatter) THEN a.formatter ELSE f
      BY DEF Made
    <3> QED BY <3>1, <3>2, <3>3
  <2> QED BY <2>1, <2>8, <2>9, <2>11, <2>13, <2>14
<1>2. \A n \in DOMAIN loggers \ (Defined(s) \cup {"root"}) :
         loggers[n].appenders = <<>> /\ loggers[n].level \in {DEBUG, Silent}
  BY DEF FollowInv, Follow, Mute, GetLogger
<1> QED BY <1>1, <1>2 DEF LoggersAsConfigured

\* Steps that neither begin nor end a change of "logs", nor make one of its calls.
LEMMA ConfiguredSame ==
  ASSUME ConfiguredInv, Logs \notin raced' /\ ~down' => Logs \notin raced /\ ~down,
         LogsNow' = LogsNow, Logs \in DOMAIN val => Logs \in DOMAIN val',
         /\ DOMAIN load' = Loaders
         /\ \A l \in Loaders :
              /\ DOMAIN load'[l] = LoadFields
              /\ load'[l].ops # <<>> => load'[l].pc = "call" /\ Key(l)' = Logs
              /\ Setting(l, Logs)' <=> Setting(l, Logs)
              /\ Setting(l, Logs) => load'[l].new = load[l].new /\ load'[l].ops = load[l].ops,
         \A n : GetLogger(n)' = GetLogger(n),
         DOMAIN loggers \subseteq DOMAIN loggers', DOMAIN loggers' \subseteq DOMAIN loggers \cup LogNames
  PROVE  ConfiguredInv'
<1>1. OpsShape'
  <2>1. LogSet(LogsNow')
    BY DEF ConfiguredInv, OpsShape
  <2>2. LogSet(LogsNow)'
    BY <2>1 DEF LogSet, Defined
  <2>3. \A l \in Loaders : Setting(l, Logs)' => Logs \in DOMAIN val' /\ LogSet(load'[l].new)
    BY DEF ConfiguredInv, OpsShape
  <2>4. \A l \in Loaders : (Setting(l, Logs) => Logs \in DOMAIN val /\ LogSet(load[l].new))'
    BY <2>3 DEF LogSet, Defined
  <2> QED BY <2>2, <2>4 DEF OpsShape
<1>2. ASSUME Logs \notin raced', ~down' PROVE FollowInv'
  <2>1. FollowInv
    BY <1>2 DEF ConfiguredInv
  <2>2. DOMAIN loggers' \subseteq LogNames \cup {"root"}
    BY <2>1 DEF FollowInv
  <2>3. \A n \in DOMAIN loggers' : DOMAIN loggers'[n] = LoggerFields
    <3> TAKE n \in DOMAIN loggers'
    <3>1. DOMAIN GetLogger(n) = LoggerFields
      BY <2>1, GetFields DEF FollowInv
    <3>2. GetLogger(n)' = loggers'[n]
      BY DEF GetLogger
    <3> QED BY <3>1, <3>2
  <2>4. \A l, m \in Loaders : Setting(l, Logs)' /\ Setting(m, Logs)' => l = m
    BY <2>1 DEF FollowInv
  <2>5. ASSUME NEW l \in Loaders, Setting(l,
               Logs)' PROVE Between(val[Logs], load[l].new, load[l].ops)'
    <3>1. PICK old, new, ops : old = val[Logs] /\ new = load[l].new /\ ops = load[l].ops
      OBVIOUS
    <3>2. Setting(l, Logs) /\ Logs \in DOMAIN val
      BY <2>5 DEF ConfiguredInv, OpsShape
    <3>3. old = val'[Logs] /\ new = load'[l].new /\ ops = load'[l].ops
      BY <3>1, <3>2 DEF LogsNow
    <3>4. Between(old, new, ops)
      BY <2>1, <3>1, <3>2 DEF FollowInv
    <3>5. Between(old, new, ops)'
      BY <3>4, BetweenSame
    <3> QED BY <3>3, <3>5
  <2>6. ASSUME \A l \in Loaders : ~Setting(l, Logs)' PROVE Follow(LogsNow)'
    <3>1. PICK s : s = LogsNow
      OBVIOUS
    <3>2. Follow(s)
      BY <2>1, <2>6, <3>1 DEF FollowInv
    <3>3. Follow(s)'
      BY <3>2, BetweenSame
    <3> QED BY <3>1, <3>3
  <2> QED BY <2>2, <2>3, <2>4, <2>5, <2>6 DEF FollowInv
<1> QED BY <1>1, <1>2 DEF ConfiguredInv

\* At the start there is no variable, and no logger but root.
LEMMA ConfiguredInit == Init => ConfiguredInv
<1> SUFFICES ASSUME Init PROVE ConfiguredInv
  OBVIOUS
<1>1. /\ load = [l \in Loaders |-> NoLoad] /\ DOMAIN val = {}
      /\ loggers = [n \in {"root"} |-> [NewLogger EXCEPT !.appenders = <<Stdout>>]]
  BY DEF Init, ConfigInit, LogInit
<1>2. \A l \in Loaders : /\ load[l].pc = "idle" /\ load[l].ops = <<>>
                         /\ DOMAIN load[l] = LoadFields
  BY <1>1 DEF NoLoad, LoadFields
<1>3. LogsNow = {} /\ LogSet({})
  BY <1>1 DEF LogsNow, LogSet, Defined
<1>4. DOMAIN loggers = {"root"} /\ DOMAIN loggers["root"] = LoggerFields
  BY <1>1 DEF NewLogger, LoggerFields
<1>5. \A n : n # "root" => GetLogger(n) = NewLogger
  BY <1>4 DEF GetLogger
<1>6. Follow({})
  <2>1. NewLogger.appenders = <<>> /\ NewLogger.level = DEBUG
    BY DEF NewLogger
  <2>2. Defined({}) = {}
    BY DEF Defined
  <2> QED BY <1>5, <2>1, <2>2 DEF Follow, Mute
<1> QED BY <1>1, <1>2, <1>3, <1>4, <1>6 DEF ConfiguredInv, OpsShape, FollowInv, Setting

\* Every step keeps the invariant.
LEMMA ConfiguredStep ==
  ASSUME ConfiguredInv, [Next]_vars
  PROVE  ConfiguredInv'
<1>0. OpsShape
  BY DEF ConfiguredInv
<1>a. ASSUME NEW l \in Loaders, NEW r, SetLoad(l, r)
      PROVE  /\ DOMAIN load' = Loaders /\ load'[l] = r
             /\ \A m \in Loaders \ {l} : load'[m] = load[m] /\ Key(m)' = Key(m)
                                         /\ (Setting(m, Logs)' <=> Setting(m, Logs))
  BY <1>0, <1>a DEF OpsShape, SetLoad, Key, Setting
<1>b. UNCHANGED loggers => /\ \A n : GetLogger(n)' = GetLogger(n)
                           /\ DOMAIN loggers \subseteq DOMAIN loggers' /\ DOMAIN loggers' \subseteq DOMAIN loggers \cup LogNames
  BY DEF GetLogger
<1>c. ASSUME NEW l \in Loaders, NEW r, SetLoad(l, r), UNCHANGED <<val, raced, logVars>>,
             DOMAIN r = LoadFields, r.ops # <<>> => r.pc = "call" /\ Key(l)' = Logs,
             Setting(l, Logs)' <=> Setting(l, Logs),
             Setting(l, Logs) => r.new = load[l].new /\ r.ops = load[l].ops
      PROVE  ConfiguredInv'
  <2>1. UNCHANGED <<loggers, down, raced>> /\ LogsNow' = LogsNow /\ val' = val
    BY <1>c DEF logVars, LogsNow
  <2>2. \A m \in Loaders :
              /\ DOMAIN load'[m] = LoadFields
              /\ load'[m].ops # <<>> => load'[m].pc = "call" /\ Key(m)' = Logs
              /\ Setting(m, Logs)' <=> Setting(m, Logs)
              /\ Setting(m, Logs) => load'[m].new = load[m].new /\ load'[m].ops = load[m].ops
    BY <1>0, <1>a, <1>c DEF OpsShape
  <2> QED BY <1>a, <1>b, <1>c, <2>1, <2>2, ConfiguredSame
\* Steps that leave the loaders alone.
<1>1. ASSUME UNCHANGED load, Logs \notin raced' /\ ~down' => Logs \notin raced /\ ~down,
             LogsNow' = LogsNow, Logs \in DOMAIN val => Logs \in DOMAIN val',
             \A n : GetLogger(n)' = GetLogger(n),
             DOMAIN loggers \subseteq DOMAIN loggers', DOMAIN loggers' \subseteq DOMAIN loggers \cup LogNames
      PROVE  ConfiguredInv'
  BY <1>0, <1>1, ConfiguredSame DEF OpsShape, Setting, Key
<1>2. ASSUME UNCHANGED <<val, load, raced, loggers, down>> PROVE ConfiguredInv'
  <2>1. LogsNow' = LogsNow
    BY <1>2 DEF LogsNow
  <2> QED BY <1>b, <1>1, <1>2, <2>1
<1>3. ASSUME NEW v \in Vars, Lookup(v), Quiet PROVE ConfiguredInv'
  <2>1. /\ v \notin DOMAIN val /\ DOMAIN val' = DOMAIN val \cup {v}
        /\ val'[v] = DefaultOf[v]
        /\ \A u \in DOMAIN val : val'[u] = val[u]
        /\ UNCHANGED <<load, raced, loggers, down>>
    BY <1>3 DEF Lookup, Quiet, logVars
  <2>2. LogsNow' = LogsNow
    BY <2>1, LogsAssumption DEF LogsNow, LogsAssumption
  <2> QED BY <1>b, <1>1, <2>1, <2>2
<1>4. ASSUME NEW l \in Loaders, NEW doc \in Docs, LoadFromYaml(l, doc),
             Quiet PROVE ConfiguredInv'
  <2> DEFINE r == [NoLoad EXCEPT !.pc = "next", !.todo = ListAllMember(doc)]
  <2>1. load[l].pc = "idle" /\ SetLoad(l, r) /\ UNCHANGED <<val, raced, logVars>>
    BY <1>4 DEF LoadFromYaml, Quiet
  <2>2. DOMAIN r = LoadFields /\ r.pc = "next" /\ r.ops = <<>>
    BY DEF NoLoad, LoadFields
  <2> HIDE DEF r
  <2>3. ~Setting(l, Logs) /\ ~Setting(l, Logs)'
    BY <1>a, <2>1, <2>2 DEF Setting
  <2> QED BY <1>c, <2>1, <2>2, <2>3
<1>5. ASSUME NEW l \in Loaders, SkipKey(l), Quiet PROVE ConfiguredInv'
  <2> DEFINE r == [load[l] EXCEPT !.todo = Tail(@)]
  <2>1. load[l].pc = "next" /\ SetLoad(l, r) /\ UNCHANGED <<val, raced, logVars>>
    BY <1>5 DEF SkipKey, Quiet
  <2>2. DOMAIN r = LoadFields /\ r.pc = "next" /\ r.ops = <<>>
    BY <1>0, <2>1 DEF OpsShape, LoadFields
  <2> HIDE DEF r
  <2>3. ~Setting(l, Logs) /\ ~Setting(l, Logs)'
    BY <1>a, <2>1, <2>2 DEF Setting
  <2> QED BY <1>c, <2>1, <2>2, <2>3
<1>6. ASSUME NEW l \in Loaders, LoadDone(l), Quiet PROVE ConfiguredInv'
  <2>1. load[l].pc = "next" /\ SetLoad(l, NoLoad) /\ UNCHANGED <<val, raced, logVars>>
    BY <1>6 DEF LoadDone, Quiet
  <2>2. DOMAIN NoLoad = LoadFields /\ NoLoad.pc = "idle" /\ NoLoad.ops = <<>>
    BY DEF NoLoad, LoadFields
  <2>3. ~Setting(l, Logs) /\ ~Setting(l, Logs)'
    BY <1>a, <2>1, <2>2 DEF Setting
  <2> QED BY <1>c, <2>1, <2>2, <2>3
<1>7. ASSUME NEW l \in Loaders, CallListener(l), Quiet PROVE ConfiguredInv'
  <2>1. PICK i : load[l].pc = "call" /\ SetLoad(l, [load[l] EXCEPT !.calls = @ \ {i}])
                 /\ UNCHANGED <<val, raced, logVars>>
    BY <1>7 DEF CallListener, Quiet
  <2> DEFINE r == [load[l] EXCEPT !.calls = @ \ {i}]
  <2>2. /\ DOMAIN r = LoadFields /\ r.pc = "call" /\ r.ops = load[l].ops
        /\ r.new = load[l].new /\ r.todo = load[l].todo
    BY <1>0, <2>1 DEF OpsShape, LoadFields
  <2>3. SetLoad(l, r)
    BY <2>1
  <2> HIDE DEF r
  <2>4. Key(l)' = Key(l) /\ (Setting(l, Logs)' <=> Setting(l, Logs))
    BY <1>a, <2>1, <2>2, <2>3 DEF Setting, Key
  <2> QED BY <1>0, <1>c, <2>1, <2>2, <2>3, <2>4 DEF OpsShape
<1>8. ASSUME NEW l \in Loaders, Called(l), Quiet PROVE ConfiguredInv'
  <2> DEFINE r == [load[l] EXCEPT !.pc = "write"]
  <2>1. load[l].pc = "call" /\ load[l].ops = <<>> /\ SetLoad(l, r) /\ UNCHANGED <<val, raced, logVars>>
    BY <1>8 DEF Called, Quiet
  <2>2. /\ DOMAIN r = LoadFields /\ r.pc = "write" /\ r.ops = load[l].ops
        /\ r.new = load[l].new /\ r.todo = load[l].todo
    BY <1>0, <2>1 DEF OpsShape, LoadFields
  <2> HIDE DEF r
  <2>3. Key(l)' = Key(l) /\ (Setting(l, Logs)' <=> Setting(l, Logs))
    BY <1>a, <2>1, <2>2 DEF Setting, Key
  <2> QED BY <1>0, <1>c, <2>1, <2>2, <2>3 DEF OpsShape
\* A loader begins to set a variable.
<1>9. ASSUME NEW l \in Loaders, SetKey(l), Quiet PROVE ConfiguredInv'
  <2>1. load[l].pc = "next" /\ load[l].ops = <<>>
    BY <1>0, <1>9 DEF SetKey, OpsShape
  <2>2. PICK x \in NewValue(l) :
          SetValue(l, x, IF Key(l) = Logs THEN LogChanged(val[Logs], x) ELSE <<>>)
    BY <1>9 DEF SetKey
  <2>3. PICK ops, calls : /\ ops = IF Key(l) = Logs THEN LogChanged(val[Logs], x) ELSE <<>>
                          /\ calls = IF Key(l) = Plain THEN cbs ELSE {}
    OBVIOUS
  <2> DEFINE r == [load[l] EXCEPT !.pc = "call", !.new = x, !.ops = ops, !.calls = calls]
  <2>4. /\ SetLoad(l, r) /\ UNCHANGED <<val, logVars>>
        /\ raced' = IF \E m \in Loaders \ {l} : Setting(m, Key(l)) THEN raced \cup {Key(l)} ELSE raced
    BY <1>9, <2>2, <2>3 DEF SetValue, Quiet
  <2>5. /\ DOMAIN r = LoadFields /\ r.pc = "call" /\ r.ops = ops /\ r.new = x /\ r.todo = load[l].todo
    BY <1>0 DEF OpsShape, LoadFields
  <2> HIDE DEF r
  <2>6. Key(l)' = Key(l) /\ (Setting(l, Logs)' <=> Key(l) = Logs) /\ ~Setting(l, Logs)
    BY <1>a, <2>1, <2>4, <2>5 DEF Setting, Key
  <2>7. LogsNow' = LogsNow /\ UNCHANGED <<loggers, down>>
    BY <2>4 DEF LogsNow, logVars
  <2>8. CASE Key(l) # Logs
    <3>1. \A m \in Loaders :
              /\ DOMAIN load'[m] = LoadFields
              /\ load'[m].ops # <<>> => load'[m].pc = "call" /\ Key(m)' = Logs
              /\ Setting(m, Logs)' <=> Setting(m, Logs)
              /\ Setting(m, Logs) => load'[m].new = load[m].new /\ load'[m].ops = load[m].ops
      BY <1>0, <1>a, <2>3, <2>4, <2>5, <2>6, <2>8 DEF OpsShape
    <3>2. Logs \notin raced' => Logs \notin raced
      BY <2>4, <2>8
    <3> QED BY <1>a, <1>b, <2>4, <2>7, <3>1, <3>2, ConfiguredSame
  <2>9. CASE Key(l) = Logs
    <3>1. Logs \in DOMAIN val /\ LogSet(x) /\ LogSet(val[Logs]) /\ LogsNow = val[Logs]
      BY <1>0, <2>9, LogsAssumption
      DEF NewValue, Converted, OpsShape, LogsNow, LogsAssumption
    <3>2. OpsShape'
      <4>1. \A m \in Loaders :
              /\ DOMAIN load'[m] = LoadFields
              /\ load'[m].ops # <<>> => load'[m].pc = "call" /\ Key(m)' = Logs
              /\ Setting(m, Logs)' => Logs \in DOMAIN val' /\ LogSet(load'[m].new)
        BY <1>0, <1>a, <2>4, <2>5, <2>6, <2>9, <3>1 DEF OpsShape
      <4>2. LogSet(LogsNow')
        BY <1>0, <2>7 DEF OpsShape
      <4> QED BY <1>a, <2>4, <4>1, <4>2 DEF OpsShape, LogSet, Defined
    <3>3. ASSUME Logs \notin raced', ~down' PROVE FollowInv'
      <4>1. FollowInv /\ \A m \in Loaders : ~Setting(m, Logs)
        BY <2>4, <2>6, <2>7, <2>9, <3>3 DEF ConfiguredInv
      <4>2. \A m \in Loaders : Setting(m, Logs)' => m = l
        BY <1>a, <2>4, <4>1
      <4>3. PICK old : old = val[Logs]
        OBVIOUS
      <4>4. Between(old, x, ops)
        <5>1. Follow(old) /\ LogSet(old) /\ LogSet(x)
          BY <3>1, <4>1, <4>3 DEF FollowInv
        <5>2. ops = LogChanged(old, x)
          BY <2>3, <2>9, <4>3
        <5> QED BY <5>1, <5>2, BetweenStart
      <4>5. Between(old, x, ops)'
        BY <1>b, <2>7, <4>4, BetweenSame
      <4>6. old = val'[Logs] /\ load'[l].new = x /\ load'[l].ops = ops
        BY <1>a, <2>4, <2>5, <4>3
      <4>7. Between(val[Logs], load[l].new, load[l].ops)'
        BY <4>5, <4>6
      <4>8. Setting(l, Logs)'
        BY <2>6, <2>9
      <4>9. \A m \in Loaders : (Setting(m, Logs) => Between(val[Logs], load[m].new, load[m].ops))'
        BY <4>2, <4>7
      <4> QED BY <2>7, <4>1, <4>2, <4>8, <4>9 DEF FollowInv
    <3> QED BY <3>2, <3>3 DEF ConfiguredInv
  <2> QED BY <2>8, <2>9
\* A loader makes the next call.
<1>10. ASSUME NEW l \in Loaders, ApplyOp(l) PROVE ConfiguredInv'
  <2>1. PICK o : o = load[l].ops[1]
    OBVIOUS
  <2> DEFINE r == [load[l] EXCEPT !.ops = Tail(@)]
  <2>2. /\ ~down /\ load[l].pc = "call" /\ load[l].ops # <<>>
        /\ SetLoad(l, r) /\ Call(o) /\ down' = (o.op = "crash") /\ UNCHANGED <<val, raced>>
    BY <1>10, <2>1 DEF ApplyOp, Call
  <2>3. /\ DOMAIN r = LoadFields /\ r.pc = "call" /\ r.ops = Tail(load[l].ops)
        /\ r.new = load[l].new /\ r.todo = load[l].todo
    BY <1>0, <2>2 DEF OpsShape, LoadFields
  <2> HIDE DEF r
  <2>4. Key(l) = Logs /\ Key(l)' = Logs /\ Setting(l, Logs) /\ Setting(l, Logs)'
    <3>1. Key(l) = Logs
      BY <1>0, <2>2 DEF OpsShape
    <3>2. Key(l)' = Key(l) /\ load'[l].pc = "call"
      BY <1>a, <2>2, <2>3 DEF Key
    <3> QED BY <2>2, <3>1, <3>2 DEF Setting
  <2>5. LogsNow' = LogsNow
    BY <2>2 DEF LogsNow
  <2>6. OpsShape'
    <3>1. \A m \in Loaders :
              /\ DOMAIN load'[m] = LoadFields
              /\ load'[m].ops # <<>> => load'[m].pc = "call" /\ Key(m)' = Logs
              /\ Setting(m, Logs)' => Logs \in DOMAIN val' /\ LogSet(load'[m].new)
      BY <1>0, <1>a, <2>2, <2>3, <2>4 DEF OpsShape
    <3>2. LogSet(LogsNow')
      BY <1>0, <2>5 DEF OpsShape
    <3> QED BY <1>a, <2>2, <3>1, <3>2 DEF OpsShape, LogSet, Defined
  <2>7. ASSUME Logs \notin raced', ~down' PROVE FollowInv'
    <3>1. FollowInv /\ o.op # "crash"
      BY <2>2, <2>7 DEF ConfiguredInv
    <3>2. PICK old, new, ops : old = val[Logs] /\ new = load[l].new /\ ops = load[l].ops
      OBVIOUS
    <3>3. Between(old, new, ops) /\ LogSet(old) /\ LogSet(new)
      BY <1>0, <2>4, <3>1, <3>2 DEF FollowInv, OpsShape, LogsNow
    <3>4. /\ Between(old, new, Tail(ops))' /\ o.name \in LogNames
          /\ o.op \in {"level", "formatter", "clear", "add"}
      <4>1. \A m \in DOMAIN loggers : DOMAIN loggers[m] = LoggerFields
        BY <3>1 DEF FollowInv
      <4>2. ops # <<>> /\ o = ops[1]
        BY <2>1, <2>2, <3>2
      <4> QED BY <2>2, <3>1, <3>3, <4>1, <4>2, BetweenCall
    <3>5. DOMAIN loggers' = DOMAIN loggers \cup {o.name} /\ \A m \in DOMAIN loggers' : DOMAIN loggers'[m] = LoggerFields
      BY <2>2, <3>1, <3>4, CallPuts DEF FollowInv
    <3>6. \A m \in Loaders : Setting(m, Logs)' => m = l
      BY <1>a, <2>2, <2>4, <3>1 DEF FollowInv
    <3>7. old = val'[Logs] /\ load'[l].new = new /\ load'[l].ops = Tail(ops)
      BY <1>a, <2>2, <2>3, <3>2
    <3>8. Between(val[Logs], load[l].new, load[l].ops)'
      BY <3>4, <3>7
    <3>9. \A m \in Loaders : (Setting(m, Logs) => Between(val[Logs], load[m].new, load[m].ops))'
      BY <3>6, <3>8
    <3>10. DOMAIN loggers' \subseteq LogNames \cup {"root"}
      BY <3>1, <3>4, <3>5 DEF FollowInv
    <3> QED BY <2>4, <3>5, <3>6, <3>9, <3>10 DEF FollowInv
  <2> QED BY <2>6, <2>7 DEF ConfiguredInv
\* The value that the loggers follow is written.
<1>11. ASSUME NEW l \in Loaders, WriteValue(l), Quiet PROVE ConfiguredInv'
  <2> DEFINE r == [load[l] EXCEPT !.pc = "next", !.new = 0, !.todo = Tail(@)]
  <2>1. /\ load[l].pc = "write" /\ SetLoad(l, r) /\ UNCHANGED <<raced, logVars>>
        /\ val' = [val EXCEPT ![Key(l)] = load[l].new]
    BY <1>11 DEF WriteValue, Quiet
  <2>2. DOMAIN r = LoadFields /\ r.pc = "next" /\ r.ops = <<>> /\ load[l].ops = <<>>
    BY <1>0, <2>1 DEF OpsShape, LoadFields
  <2> HIDE DEF r
  <2>3. ~Setting(l, Logs)' /\ UNCHANGED <<loggers, down>>
    BY <1>a, <2>1, <2>2 DEF Setting, logVars
  <2>4. CASE Key(l) # Logs
    <3>1. ~Setting(l, Logs) /\ DOMAIN val' = DOMAIN val /\ LogsNow' = LogsNow
      BY <2>1, <2>4 DEF Setting, LogsNow
    <3>2. \A m \in Loaders :
              /\ DOMAIN load'[m] = LoadFields
              /\ load'[m].ops # <<>> => load'[m].pc = "call" /\ Key(m)' = Logs
              /\ Setting(m, Logs)' <=> Setting(m, Logs)
              /\ Setting(m, Logs) => load'[m].new = load[m].new /\ load'[m].ops = load[m].ops
      BY <1>0, <1>a, <2>1, <2>2, <2>3, <3>1 DEF OpsShape
    <3> QED BY <1>a, <1>b, <2>1, <2>3, <3>1, <3>2, ConfiguredSame
  <2>5. CASE Key(l) = Logs
    <3>1. Setting(l, Logs) /\ Logs \in DOMAIN val /\ LogSet(load[l].new) /\ LogSet(val[Logs])
      BY <1>0, <2>1, <2>5 DEF Setting, OpsShape, LogsNow
    <3>2. DOMAIN val' = DOMAIN val /\ val'[Logs] = load[l].new /\ LogsNow' = load[l].new
      BY <2>1, <2>5, <3>1 DEF LogsNow
    <3>3. OpsShape'
      <4>1. \A m \in Loaders :
              /\ DOMAIN load'[m] = LoadFields
              /\ load'[m].ops # <<>> => load'[m].pc = "call" /\ Key(m)' = Logs
              /\ Setting(m, Logs)' => Logs \in DOMAIN val' /\ LogSet(load'[m].new)
        BY <1>0, <1>a, <2>1, <2>2, <2>3, <3>2 DEF OpsShape
      <4> QED BY <1>a, <2>1, <3>1, <3>2, <4>1 DEF OpsShape, LogSet, Defined
    <3>4. ASSUME Logs \notin raced', ~down' PROVE FollowInv'
      <4>1. FollowInv
        BY <2>1, <2>3, <3>4 DEF ConfiguredInv
      <4>2. \A m \in Loaders : ~Setting(m, Logs)'
        BY <1>a, <2>1, <2>3, <3>1, <4>1 DEF FollowInv
      <4>3. PICK old, new : old = val[Logs] /\ new = load[l].new
        OBVIOUS
      <4>4. Between(old, new, <<>>)
        BY <2>2, <3>1, <4>1, <4>3 DEF FollowInv
      <4>5. Follow(new)
        BY <3>1, <4>3, <4>4, BetweenEnd
      <4>6. Follow(new)'
        BY <1>b, <2>3, <4>5, BetweenSame
      <4>7. Follow(LogsNow)'
        BY <3>2, <4>3, <4>6
      <4> QED BY <2>3, <4>1, <4>2, <4>7 DEF FollowInv
    <3> QED BY <3>3, <3>4 DEF ConfiguredInv
  <2> QED BY <2>4, <2>5
\* A thread that logs may create the logger, which is then as if it had been there.
<1>12. ASSUME NEW w \in Writers, NEW n \in LogNames, LogEvent(w, n, 3),
              Own PROVE ConfiguredInv'
  <2>1. PutLogger(n, GetLogger(n)) /\ UNCHANGED <<val, load, raced, down>>
    BY <1>12 DEF LogEvent, Own, configVars
  <2>2. \A m : GetLogger(m)' = GetLogger(m)
    BY <2>1, PutFacts
  <2>3. DOMAIN loggers' = DOMAIN loggers \cup {n}
    BY <2>1, PutFacts
  <2>4. LogsNow' = LogsNow
    BY <2>1 DEF LogsNow
  <2> QED BY <1>1, <2>1, <2>2, <2>3, <2>4
<1>13. ASSUME UNCHANGED <<val, load, raced>>,
              UNCHANGED <<loggers, down>> PROVE ConfiguredInv'
  BY <1>2, <1>13
<1>14. ASSUME NEW i \in Listeners, AddListener(i) \/ DelListener(i) \/ ClearListener,
              Quiet PROVE ConfiguredInv'
  BY <1>14, <1>13 DEF AddListener, DelListener, ClearListener, Quiet, logVars
<1>15. ASSUME ClearListener, Quiet PROVE ConfiguredInv'
  BY <1>15, <1>13 DEF ClearListener, Quiet, logVars
<1>16. ASSUME NEW w \in Writers, CheckLevel(w) \/ LockLogger(w) \/ WriteEvent(w), Own PROVE ConfiguredInv'
  BY <1>16, <1>13 DEF CheckLevel, LockLogger, WriteEvent, Own, configVars
<1>17. ASSUME MakeFormatter \/ Tick, Own PROVE ConfiguredInv'
  BY <1>17, <1>13 DEF MakeFormatter, Tick, Own, configVars
<1>18. ASSUME DropFormatter, UNCHANGED configVars PROVE ConfiguredInv'
  BY <1>18, <1>13 DEF DropFormatter, configVars
<1>19. ASSUME UNCHANGED vars PROVE ConfiguredInv'
  BY <1>19, <1>13 DEF vars, configVars, logVars
<1> QED BY <1>3, <1>4, <1>5, <1>6, <1>7, <1>8, <1>9, <1>10, <1>11, <1>12, <1>14, <1>15, <1>16, <1>17, <1>18, <1>19
  DEF Next, LogNames

\* When nobody sets "logs", and two threads never set it at once, the loggers
\* are as it says: level, format and appenders, and silent if it has none for
\* them (the listener of LogIniter and Logger's setters).
THEOREM LogLoggersAsConfigured == Spec => []LoggersAsConfigured
<1>1. ConfiguredInv => LoggersAsConfigured
  <2> SUFFICES ASSUME ConfiguredInv, Logs \in (DOMAIN val \ raced), ~down, \A l \in Loaders : ~Setting(l, Logs)
               PROVE  LoggersAsConfigured
    BY DEF LoggersAsConfigured
  <2>1. FollowInv /\ LogSet(val[Logs]) /\ LogsNow = val[Logs]
    BY DEF ConfiguredInv, OpsShape, LogsNow
  <2>2. Follow(val[Logs])
    BY <2>1 DEF FollowInv
  <2> QED BY <2>1, <2>2, FollowIsConfigured
<1>2. ConfiguredInv /\ [Next]_vars => ConfiguredInv'
  BY ConfiguredStep
<1> QED BY <1>1, <1>2, ConfiguredInit, PTL DEF Spec, vars

(***************************************************************************)
(* The items of a formatter spell its pattern.                             *)
(***************************************************************************)
\* The first of some positions.
LEMMA FirstInFacts ==
  ASSUME NEW p, Len(p) \in Nat, NEW K \in SUBSET (1 .. Len(p))
  PROVE  /\ FirstIn(K, p) \in K \cup {Len(p) + 1} /\ FirstIn(K, p) \in 1 .. Len(p) + 1
         /\ \A k \in K : FirstIn(K, p) <= k
<1> DEFINE T == K \cup {Len(p) + 1}
<1>1. T \subseteq Nat /\ T \subseteq 1 .. Len(p) + 1
  <2>1. \A k \in K : k \in 1 .. Len(p)
    OBVIOUS
  <2>2. \A k \in T : k \in 1 .. Len(p) + 1 /\ k \in Nat
    BY <2>1
  <2> HIDE DEF T
  <2> QED BY <2>2
<1>2. \E x \in T : \A y \in T : x <= y
  <2>1. T # {}
    OBVIOUS
  <2> HIDE DEF T
  <2> QED BY <1>1, <2>1, LeastNumber
<1>3. FirstIn(K, p) \in T /\ \A y \in T : FirstIn(K, p) <= y
  BY <1>2 DEF FirstIn, Min
<1> QED BY <1>1, <1>3

\* No part <<x, y>>: the two characters do not follow one another.
LEMMA NoPart ==
  ASSUME NEW C, NEW p \in Seq(C), NEW x, NEW y, ~HasPart(p, <<x, y>>), NEW a \in 1 .. Len(p) - 1
  PROVE  ~(p[a] = x /\ p[a + 1] = y)
<1> SUFFICES ASSUME p[a] = x, p[a + 1] = y PROVE HasPart(p, <<x, y>>)
  OBVIOUS
<1>1. PICK e : e = a + 1
  OBVIOUS
<1>2. /\ Len(p) \in Nat /\ DOMAIN p = 1 .. Len(p) /\ a \in Int /\ e \in Int
      /\ \A i \in a .. e : p[i] \in C
  BY <1>1, LenProperties, ElementOfSeq
<1>3. /\ SubSeq(p, a, e) \in Seq(C)
      /\ Len(SubSeq(p, a, e)) = IF a <= e THEN e - a + 1 ELSE 0
      /\ \A i \in 1 .. e - a + 1 : SubSeq(p, a, e)[i] = p[a + i - 1]
  BY <1>2, SubSeqProperties
<1>4. e - a + 1 = 2 /\ a <= e /\ a + 1 - 1 = a /\ a + 2 - 1 = e /\ 1 \in 1 .. 2 /\ 2 \in 1 .. 2
  BY <1>1, <1>2
<1>5. Len(SubSeq(p, a, e)) = 2 /\ SubSeq(p, a, e)[1] = x /\ SubSeq(p, a, e)[2] = y
  BY <1>1, <1>3, <1>4
<1>6. <<x, y>> \in Seq(C) /\ Len(<<x, y>>) = 2 /\ <<x, y>>[1] = x /\ <<x, y>>[2] = y
  BY <1>1, <1>2
<1>7. \A i \in 1 .. Len(<<x, y>>) : SubSeq(p, a, e)[i] = <<x, y>>[i]
  <2>1. \A i \in 1 .. Len(<<x, y>>) : i = 1 \/ i = 2
    BY <1>6
  <2> QED BY <2>1, <1>5, <1>6
<1>8. SubSeq(p, a, e) = <<x, y>>
  BY <1>3, <1>5, <1>6, <1>7, SeqEqual
<1>9. a \in 1 .. Len(p) - Len(<<x, y>>) + 1 /\ a + Len(<<x, y>>) - 1 = e
  BY <1>1, <1>2, <1>6
<1> QED BY <1>8, <1>9 DEF HasPart

\* The two braces are different characters.
LEMMA OpenIsNotClose == Open # Close
BY Zenon DEF Open, Close

\* The item that the scan finds is spelled by what it consists of.
LEMMA ItemSpelled ==
  ASSUME NEW C, NEW p \in Seq(C), NEW i \in 1 .. Len(p), p[i] = Percent,
         ~HasPart(p, <<Open, Close>>), NEW e, e = ItemEnd(p, i).n, ~ItemEnd(p, i).open
  PROVE  /\ e \in i + 1 .. Len(p) + 1
         /\ \E a \in Seq(C), b \in Seq(C) : ItemAt(p, i, e) = <<1, a, b>>
         /\ ItemText(ItemAt(p, i, e)) = SubSeq(p, i, e - 1)
<1>0. Len(p) \in Nat /\ DOMAIN p = 1 .. Len(p) /\ i \in Nat /\ \A k \in 1 .. Len(p) : p[k] \in C
  BY LenProperties, ElementOfSeq
<1> DEFINE N == {n \in (i + 1) .. Len(p) : p[n] \notin Letters \cup {Close}}
           stop == FirstIn(N, p)
           R == {n \in (stop + 1) .. Len(p) : p[n] = Close}
           close == FirstIn(R, p)
           K == {k \in (i + 1) .. (e - 1) : p[k] = Open}
           brace == Min(K \cup {e})
<1>1. N \in SUBSET (1 .. Len(p))
  BY <1>0
<1>2. stop \in N \cup {Len(p) + 1} /\ stop \in i + 1 .. Len(p) + 1 /\ \A k \in N : stop <= k
  <2>1. stop \in N \cup {Len(p) + 1} /\ stop \in 1 .. Len(p) + 1 /\ \A k \in N : stop <= k
    <3> HIDE DEF N
    <3> QED BY <1>0, <1>1, FirstInFacts
  <2>2. stop \in N => stop \in i + 1 .. Len(p)
    OBVIOUS
  <2> HIDE DEF N, stop
  <2> QED BY <1>0, <2>1, <2>2
<1>3. R \in SUBSET (1 .. Len(p))
  <2>1. \A n \in R : n \in (stop + 1) .. Len(p)
    OBVIOUS
  <2> HIDE DEF R, stop
  <2>2. \A n \in R : n \in 1 .. Len(p)
    BY <1>0, <1>2, <2>1
  <2> QED BY <2>2
<1>4. close \in R \cup {Len(p) + 1} /\ close \in 1 .. Len(p) + 1
  <2> HIDE DEF R
  <2> QED BY <1>0, <1>3, FirstInFacts
<1>5. ItemEnd(p, i) = IF stop <= Len(p) /\ p[stop] = Open
                      THEN [n |-> close + 1, open |-> close > Len(p)]
                      ELSE [n |-> stop, open |-> FALSE]
  BY DEF ItemEnd
<1>6. ItemAt(p, i, e) = <<1, SubSeq(p, i + 1, brace - 1), SubSeq(p, brace + 1, e - 2)>>
  BY DEF ItemAt
<1> HIDE DEF stop, close
<1>7. \A k \in i + 1 .. stop - 1 : p[k] # Open
  <2> SUFFICES ASSUME NEW k \in i + 1 .. stop - 1, p[k] = Open PROVE FALSE
    OBVIOUS
  <2>1. k \in (i + 1) .. Len(p) /\ Open \notin Letters /\ Open # Close
    BY <1>0, <1>2, LettersAssumption, OpenIsNotClose DEF LettersAssumption
  <2>2. k \in N
    BY <2>1
  <2> HIDE DEF N
  <2> QED BY <1>0, <1>2, <2>2
<1>8. CASE ~(stop <= Len(p) /\ p[stop] = Open)
  <2>1. e = stop
    BY <1>5, <1>8
  <2>2. brace = e
    <3>1. K = {}
      BY <2>1, <1>2, <1>7
    <3> HIDE DEF K
    <3> QED BY <3>1, <2>1, <1>2 DEF Min
  <2> DEFINE a == SubSeq(p, i + 1, e - 1)
             b == SubSeq(p, e + 1, e - 2)
  <2>3. e \in i + 1 .. Len(p) + 1 /\ i + 1 \in Int /\ e - 1 \in Int /\ e + 1 \in Int /\ e - 2 \in Int
    BY <2>1, <1>0, <1>2
  <2>4. a \in Seq(C)
    <3>1. \A k \in i + 1 .. e - 1 : p[k] \in C
      BY <2>3, <1>0, SMTT(60)
    <3> QED BY <2>3, <3>1, SubSeqProperties
  <2>5. b = <<>>
    <3>1. PICK f, t : f = e + 1 /\ t = e - 2
      OBVIOUS
    <3>2. f \in Int /\ t \in Int /\ t < f
      BY <2>3, <1>0, <3>1
    <3>3. SubSeq(p, f, t) = <<>>
      BY <3>2, SubSeqEmpty
    <3> QED BY <3>1, <3>3
  <2>6. b \in Seq(C)
    <3>1. <<>> \in Seq(C)
      OBVIOUS
    <3> HIDE DEF b
    <3> QED BY <2>5, <3>1
  <2>7. ItemAt(p, i, e) = <<1, a, b>>
    BY <1>6, <2>2
  <2>8. SubSeq(p, i, e - 1) = <<p[i]>> \o a
    <3>1. e - 1 \in i .. Len(p)
      BY <1>0, <2>3, SMTT(60)
    <3> QED BY <3>1, SubSeqRecursiveFirst
  <2>9. <<Percent>> \o a \in Seq(C) /\ (<<Percent>> \o a) \o <<>> = <<Percent>> \o a
    <3>1. <<Percent>> \in Seq(C)
      BY <1>0
    <3>2. <<Percent>> \o a \in Seq(C)
      BY <3>1, <2>4, ConcatProperties
    <3> HIDE DEF a
    <3> QED BY <3>2, ConcatEmptySeq
  <2> HIDE DEF a, b, brace
  <2>10. ItemText(<<1, a, b>>) = (<<Percent>> \o a) \o <<>>
    BY <2>5 DEF ItemText
  <2> QED BY <2>3, <2>4, <2>6, <2>7, <2>8, <2>9, <2>10
<1>9. CASE stop <= Len(p) /\ p[stop] = Open
  <2>1. e = close + 1 /\ close <= Len(p)
    <3>1. ItemEnd(p, i) = [n |-> close + 1, open |-> close > Len(p)]
      BY <1>5, <1>9
    <3>2. ItemEnd(p, i).n = close + 1 /\ ItemEnd(p, i).open = (close > Len(p))
      BY <3>1
    <3>3. ~(close > Len(p))
      BY <3>2
    <3> QED BY <3>2, <3>3, <1>0, <1>4
  <2>2. close \in R /\ close \in stop + 1 .. Len(p) /\ p[close] = Close
    BY <2>1, <1>4, <1>0
  <2>3. close # stop + 1
    <3>1. close = stop + 1 => stop \in 1 .. Len(p) - 1
      BY <1>0, <1>2, <2>2
    <3> HIDE DEF R
    <3> QED BY <3>1, <2>2, <1>9, NoPart
  <2>4. brace = stop
    <3>1. stop \in K
      BY <2>1, <2>2, <1>9, <1>2
    <3>2. \A k \in K : stop <= k
      BY <1>7, <1>0, <1>2, <2>1, <2>2
    <3>3. stop <= e /\ K \subseteq Int /\ e \in Int /\ stop \in Int
      BY <1>0, <1>2, <2>1, <2>2
    <3> HIDE DEF K
    <3>4. \A x \in K \cup {e} : stop <= x /\ x \in Int
      BY <3>2, <3>3
    <3>5. \A x \in K \cup {e} : (\A y \in K \cup {e} : x <= y) => x = stop
      BY <3>1, <3>3, <3>4
    <3> QED BY <3>1, <3>3, <3>4, <3>5 DEF Min
  <2> DEFINE a == SubSeq(p, i + 1, stop - 1)
             b == SubSeq(p, stop + 1, close - 1)
  <2>5. /\ stop \in i + 1 .. Len(p) - 2 /\ close \in stop + 2 .. Len(p) /\ e - 2 = close - 1 /\ e - 1 = close
        /\ i + 1 \in Int /\ stop - 1 \in Int /\ stop + 1 \in Int /\ close - 1 \in Int
    BY <1>0, <1>2, <2>1, <2>2, <2>3
  <2>6. ItemAt(p, i, e) = <<1, a, b>>
    BY <1>6, <2>4, <2>5
  <2>7. a \in Seq(C)
    <3>1. \A k \in i + 1 .. stop - 1 : p[k] \in C
      BY <2>5, <1>0
    <3> QED BY <2>5, <3>1, SubSeqProperties
  <2>8. b \in Seq(C) /\ b # <<>>
    <3>1. \A k \in stop + 1 .. close - 1 : p[k] \in C
      BY <2>5, <1>0
    <3>2. b \in Seq(C) /\ Len(b) = IF stop + 1 <= close - 1 THEN (close - 1) - (stop + 1) + 1 ELSE 0
      BY <2>5, <3>1, SubSeqProperties
    <3>3. Len(b) # 0
      BY <3>2, <2>5, <1>0
    <3> QED BY <3>2, <3>3
  <2>9. SubSeq(p, i, close) = <<Percent>> \o SubSeq(p, i + 1, close)
    <3>1. close \in i .. Len(p)
      BY <1>0, <2>5
    <3> QED BY <3>1, SubSeqRecursiveFirst
  <2>10. SubSeq(p, i + 1, close) = a \o SubSeq(p, stop, close)
    <3>1. PICK f, t : f = i + 1 /\ t = stop - 1
      OBVIOUS
    <3>2. f \in 1 .. Len(p) + 1 /\ t \in f - 1 .. Len(p) /\ close \in t .. Len(p) /\ t + 1 = stop
      BY <1>0, <2>5, <3>1
    <3>3. SubSeq(p, f, t) \o SubSeq(p, t + 1, close) = SubSeq(p, f, close)
      BY <3>2, ConcatAdjacentSubSeq
    <3> QED BY <3>1, <3>2, <3>3
  <2>11. SubSeq(p, stop, close) = <<Open>> \o SubSeq(p, stop + 1, close)
    <3>1. stop \in 1 .. Len(p) /\ close \in stop .. Len(p)
      BY <1>0, <2>5
    <3> QED BY <3>1, <1>9, SubSeqRecursiveFirst
  <2>12. SubSeq(p, stop + 1, close) = b \o <<Close>>
    <3>1. stop + 1 \in 1 .. Len(p) /\ close \in stop + 1 .. Len(p)
      BY <1>0, <2>5
    <3> QED BY <3>1, <2>2, SubSeqRecursiveSecond
  <2> HIDE DEF a, b, brace
  <2>13. <<Percent>> \in Seq(C) /\ <<Open>> \in Seq(C) /\ <<Close>> \in Seq(C)
    <3>1. p[i] \in C /\ p[stop] \in C /\ p[close] \in C
      BY <1>0, <2>5
    <3> QED BY <3>1, <1>9, <2>2
  <2>14. SubSeq(p, i, close) = <<Percent>> \o (a \o (<<Open>> \o (b \o <<Close>>)))
    BY <2>9, <2>10, <2>11, <2>12
  <2>15. b \o <<Close>> \in Seq(C) /\ <<Open>> \o (b \o <<Close>>) \in Seq(C)
    <3>1. b \o <<Close>> \in Seq(C)
      BY <2>8, <2>13, ConcatProperties
    <3> QED BY <3>1, <2>13, ConcatProperties
  <2>16. (<<Percent>> \o a) \o (<<Open>> \o (b \o <<Close>>)) = <<Percent>> \o (a \o (<<Open>> \o (b \o <<Close>>)))
    <3>1. PICK y : y = <<Open>> \o (b \o <<Close>>)
      OBVIOUS
    <3>2. <<Percent>> \in Seq(C) /\ a \in Seq(C) /\ y \in Seq(C)
      BY <3>1, <2>7, <2>13, <2>15
    <3>3. (<<Percent>> \o a) \o y = <<Percent>> \o (a \o y)
      BY <3>2, ConcatAssociative, SMTT(60)
    <3> QED BY <3>1, <3>3
  <2>17. (<<Open>> \o b) \o <<Close>> = <<Open>> \o (b \o <<Close>>)
    BY <2>8, <2>13, ConcatAssociative
  <2>18. ItemText(<<1, a, b>>) = (<<Percent>> \o a) \o ((<<Open>> \o b) \o <<Close>>)
    BY <2>8 DEF ItemText
  <2>19. e \in i + 1 .. Len(p) + 1
    BY <1>0, <2>1, <2>5
  <2> QED BY <2>5, <2>6, <2>7, <2>8, <2>14, <2>16, <2>17, <2>18, <2>19
<1> QED BY <1>8, <1>9

\* One more sequence is appended to the flattened ones.
LEMMA FlattenAppend ==
  ASSUME NEW T, NEW s \in Seq(Seq(T)), NEW x \in Seq(T)
  PROVE  FlattenSeq(s) \in Seq(T) /\ FlattenSeq(Append(s, x)) = FlattenSeq(s) \o x
<1> DEFINE a == Append(s, x)
           n == Len(s)
<1>1. /\ n \in Nat /\ a \in Seq(Seq(T)) /\ Len(a) = n + 1 /\ Len(a) # 0
      /\ \A i \in 1 .. n : a[i] = s[i]
      /\ a[n + 1] = x
  <2>1. n \in Nat
    BY LenProperties
  <2> QED BY <2>1, AppendProperties
<1> HIDE DEF a
<1>2. PICK g : Joins(a, Len(a), g) /\ FlattenSeq(a) = g[Len(a)]
  BY <1>1, FlattenIsJoins
<1>3. \A i \in 1 .. n + 1 : g[i] = IF i = 1 THEN a[1] ELSE g[i - 1] \o a[i]
  BY <1>1, <1>2 DEF Joins
<1>4. CASE n = 0
  <2>1. s = <<>> /\ FlattenSeq(s) = <<>>
    BY <1>4 DEF FlattenSeq
  <2>2. FlattenSeq(a) = x
    BY <1>1, <1>2, <1>3, <1>4
  <2>3. <<>> \in Seq(T) /\ <<>> \o x = x
    BY ConcatEmptySeq
  <2> QED BY <2>1, <2>2, <2>3 DEF a
<1>5. CASE n # 0
  <2>1. PICK f : Joins(s, n, f) /\ FlattenSeq(s) = f[n]
    BY <1>5, FlattenIsJoins
  <2>2. \A i \in 1 .. n : f[i] = IF i = 1 THEN s[1] ELSE f[i - 1] \o s[i]
    BY <2>1 DEF Joins
  <2>3. \A i \in 1 .. n : s[i] \in Seq(T)
    BY <1>1, ElementOfSeq
  <2> DEFINE S == {k \in Nat : k + 1 <= n => f[k + 1] \in Seq(T) /\ g[k + 1] = f[k + 1]}
  <2>4. 0 \in S
    <3>1. 1 \in 1 .. n + 1 /\ 1 \in 1 .. n
      BY <1>1, <1>5
    <3>2. g[1] = f[1] /\ f[1] \in Seq(T)
      BY <3>1, <1>1, <1>3, <2>2, <2>3
    <3> QED BY <3>2
  <2>5. ASSUME NEW k \in Nat, k \in S PROVE k + 1 \in S
    <3> SUFFICES ASSUME k + 1 + 1 <= n PROVE f[k + 1 + 1] \in Seq(T) /\ g[k + 1 + 1] = f[k + 1 + 1]
      OBVIOUS
    <3>1. PICK i : i = k + 1 + 1
      OBVIOUS
    <3>2. i \in 1 .. n /\ i \in 1 .. n + 1 /\ i # 1 /\ i - 1 = k + 1 /\ k + 1 <= n
      BY <1>1, <3>1
    <3>3. f[i - 1] \in Seq(T) /\ g[i - 1] = f[i - 1]
      BY <3>2, <2>5
    <3>4. f[i] = f[i - 1] \o s[i] /\ g[i] = g[i - 1] \o a[i] /\ a[i] = s[i] /\ s[i] \in Seq(T)
      BY <3>2, <2>2, <2>3, <1>1, <1>3
    <3>5. f[i - 1] \o s[i] \in Seq(T)
      BY <3>3, <3>4, ConcatProperties
    <3> QED BY <3>1, <3>3, <3>4, <3>5
  <2> HIDE DEF S
  <2>6. \A k \in Nat : k \in S
    BY <2>4, <2>5, Induct
  <2>7. n - 1 \in S /\ n - 1 + 1 = n
    BY <2>6, <1>1, <1>5
  <2>8. f[n] \in Seq(T) /\ g[n] = f[n]
    BY <2>7, <1>1 DEF S
  <2>9. g[n + 1] = g[n] \o x
    <3>1. PICK i : i = n + 1
      OBVIOUS
    <3>2. i \in 1 .. n + 1 /\ i # 1 /\ i - 1 = n /\ a[i] = x
      BY <3>1, <1>1, <1>5
    <3>3. g[i] = g[i - 1] \o a[i]
      BY <3>2, <1>3
    <3> QED BY <3>1, <3>2, <3>3
  <2> QED BY <2>1, <2>8, <2>9, <1>1, <1>2 DEF a
<1> QED BY <1>4, <1>5

\* The items of a pattern whose characters are in C.
Items(C) == {<<0, t>> : t \in Seq(C)} \cup {<<1, a, b>> : a \in Seq(C), b \in Seq(C)}
\* The characters that items can have besides those of the pattern.
Structure == {Percent, Open, Close, "error"}

\* What an item is written as.
LEMMA TextOfItem ==
  ASSUME NEW C, Structure \subseteq C, NEW x \in Items(C)
  PROVE  ItemText(x) \in Seq(C)
<1>1. <<Percent>> \in Seq(C) /\ <<Open>> \in Seq(C) /\ <<Close>> \in Seq(C) /\ <<>> \in Seq(C)
  BY DEF Structure
<1>2. ASSUME NEW t \in Seq(C), x = <<0, t>> PROVE ItemText(x) \in Seq(C)
  <2>1. x[1] = 0 /\ x[2] = t
    BY <1>2
  <2> QED BY <2>1 DEF ItemText
<1>3. ASSUME NEW a \in Seq(C),
             NEW b \in Seq(C), x = <<1, a, b>> PROVE ItemText(x) \in Seq(C)
  <2>1. x[1] = 1 /\ x[2] = a /\ x[3] = b
    BY <1>3
  <2>2. <<Percent>> \o a \in Seq(C) /\ <<Open>> \o b \in Seq(C)
    BY <1>1, ConcatProperties
  <2>3. (<<Open>> \o b) \o <<Close>> \in Seq(C)
    BY <1>1, <2>2, ConcatProperties
  <2> DEFINE f == IF b = <<>> THEN <<>> ELSE <<Open>> \o b \o <<Close>>
  <2>4. f \in Seq(C)
    BY <1>1, <2>3
  <2>5. ItemText(x) = (<<Percent>> \o a) \o f
    BY <2>1 DEF ItemText
  <2> HIDE DEF f
  <2>6. (<<Percent>> \o a) \o f \in Seq(C)
    BY <2>2, <2>4, ConcatProperties
  <2> QED BY <2>5, <2>6
<1> QED BY <1>2, <1>3 DEF Items

\* One more item is written behind the others.
LEMMA WrittenAppend ==
  ASSUME NEW C, Structure \subseteq C, NEW items \in Seq(Items(C)), NEW x \in Items(C)
  PROVE  Written(items) \in Seq(C) /\ Written(Append(items, x)) = Written(items) \o ItemText(x)
<1> DEFINE s == [k \in DOMAIN items |-> ItemText(items[k])]
           n == Len(items)
           a == Append(items, x)
<1>1. n \in Nat /\ DOMAIN items = 1 .. n
  BY LenProperties
<1>2. \A k \in 1 .. n : items[k] \in Items(C)
  BY <1>1, ElementOfSeq
<1>3. \A k \in 1 .. n : ItemText(items[k]) \in Seq(C)
  BY <1>2, TextOfItem
<1>4. s \in [1 .. n -> Seq(C)]
  BY <1>1, <1>3
<1>5. s \in Seq(Seq(C)) /\ Len(s) = n
  BY <1>1, <1>4
<1>6. a \in Seq(Items(C)) /\ Len(a) = n + 1 /\ DOMAIN a = 1 .. n + 1
      /\ (\A k \in 1 .. n : a[k] = items[k]) /\ a[n + 1] = x
  <2>1. a \in Seq(Items(C)) /\ Len(a) = n + 1 /\ (\A k \in 1 .. n : a[k] = items[k]) /\ a[n + 1] = x
    BY AppendProperties
  <2> HIDE DEF a
  <2>2. DOMAIN a = 1 .. n + 1
    BY <2>1, LenProperties
  <2> QED BY <2>1, <2>2
<1>7. ItemText(x) \in Seq(C)
  BY TextOfItem
<1> DEFINE t == [k \in DOMAIN a |-> ItemText(a[k])]
<1> HIDE DEF a
<1>8. t = Append(s, ItemText(x))
  <2>1. \A k \in 1 .. n + 1 : a[k] \in Items(C)
    BY <1>6, ElementOfSeq, <1>1
  <2>2. \A k \in 1 .. n + 1 : ItemText(a[k]) \in Seq(C)
    BY <2>1, TextOfItem
  <2>3. t \in [1 .. n + 1 -> Seq(C)]
    BY <1>6, <2>2
  <2>4. t \in Seq(Seq(C)) /\ Len(t) = n + 1
    BY <1>1, <2>3
  <2>5. /\ Append(s, ItemText(x)) \in Seq(Seq(C)) /\ Len(Append(s, ItemText(x))) = n + 1
        /\ \A k \in 1 .. n : Append(s, ItemText(x))[k] = s[k]
        /\ Append(s, ItemText(x))[n + 1] = ItemText(x)
    <3> HIDE DEF s
    <3> QED BY <1>5, <1>7, AppendProperties
  <2>6. \A k \in 1 .. n : t[k] = s[k]
    BY <1>1, <1>6
  <2>7. t[n + 1] = ItemText(x)
    BY <1>1, <1>6
  <2>8. \A k \in 1 .. n + 1 : t[k] = Append(s, ItemText(x))[k]
    <3> HIDE DEF t, s
    <3>1. \A k \in 1 .. n + 1 : k \in 1 .. n \/ k = n + 1
      BY <1>1
    <3> QED BY <3>1, <2>5, <2>6, <2>7
  <2> HIDE DEF t, s
  <2> QED BY <2>4, <2>5, <2>8, SeqEqual
<1>9. FlattenSeq(s) \in Seq(C) /\ FlattenSeq(Append(s, ItemText(x))) = FlattenSeq(s) \o ItemText(x)
  <2> HIDE DEF s
  <2> QED BY <1>5, <1>7, FlattenAppend
<1>10. Written(items) = FlattenSeq(s)
  BY DEF Written
<1>11. Written(Append(items, x)) = FlattenSeq(t)
  BY DEF Written, a
<1> QED BY <1>8, <1>9, <1>10, <1>11

\* The states of the loop of init; those in which what was read is spelled by
\* the items and the text.
ParseStates(C, p) ==
  [i : 1 .. Len(p) + 1, text : Seq(C), items : Seq(Items(C)), error : BOOLEAN]
Spelled(p, s) == ~s.error => Written(s.items) \o s.text = SubSeq(p, 1, s.i - 1)

\* A text is an item.
LEMMA TextIsItem ==
  ASSUME NEW C, NEW t \in Seq(C)
  PROVE  <<0, t>> \in Items(C)
<1>1. <<0, t>> \in {<<0, u>> : u \in Seq(C)}
  OBVIOUS
<1> QED BY <1>1 DEF Items

\* The text becomes an item of its own.
LEMMA FlushFacts ==
  ASSUME NEW C, Structure \subseteq C, NEW items \in Seq(Items(C)), NEW text \in Seq(C)
  PROVE  /\ Flush(items, text) \in Seq(Items(C)) /\ Written(Flush(items, text)) \in Seq(C)
         /\ Written(items) \in Seq(C)
         /\ Written(Flush(items, text)) = Written(items) \o text
<1>1. Written(items) \in Seq(C) /\ <<0, text>> \in Items(C) /\ <<0, <<>>>> \in Items(C)
  <2>1. <<>> \in Seq(C)
    OBVIOUS
  <2>2. <<0, text>> \in Items(C) /\ <<0, <<>>>> \in Items(C)
    BY <2>1, TextIsItem
  <2> QED BY <2>2, WrittenAppend
<1>2. CASE text = <<>>
  <2>1. Flush(items, text) = items
    BY <1>2 DEF Flush
  <2>2. Written(items) \o text = Written(items)
    BY <1>1, <1>2, ConcatEmptySeq
  <2> QED BY <2>1, <2>2, <1>1
<1>3. CASE text # <<>>
  <2>1. Flush(items, text) = Append(items, <<0, text>>)
    BY <1>3 DEF Flush
  <2>2. Append(items, <<0, text>>) \in Seq(Items(C))
    BY <1>1, AppendProperties
  <2>3. Written(Append(items, <<0, text>>)) = Written(items) \o ItemText(<<0, text>>)
    BY <1>1, WrittenAppend
  <2>4. ItemText(<<0, text>>) = text
    BY DEF ItemText
  <2>5. Written(items) \o text \in Seq(C)
    BY <1>1, ConcatProperties
  <2> QED BY <2>1, <2>2, <2>3, <2>4, <2>5, <1>1
<1> QED BY <1>2, <1>3

\* One round of the loop goes on in the pattern and keeps it spelled.
LEMMA ParseStepSpells ==
  ASSUME NEW C, Structure \subseteq C, NEW p \in Seq(C), ~HasPart(p, <<Percent, Percent>>),
         ~HasPart(p, <<Open, Close>>), NEW s \in ParseStates(C, p)
  PROVE  /\ ParseStep(p, s) \in ParseStates(C, p)
         /\ Spelled(p, s) => Spelled(p, ParseStep(p, s))
         /\ ParseStep(p, s).i > s.i \/ (s.i = Len(p) + 1 /\ ParseStep(p, s).i = s.i)
<1> DEFINE L == Len(p)
           w == Written(s.items)
           e == ItemEnd(p, s.i)
<1>1. /\ L \in Nat /\ DOMAIN p = 1 .. L /\ \A k \in 1 .. L : p[k] \in C
      /\ s.i \in 1 .. L + 1 /\ s.i \in Nat /\ s.text \in Seq(C) /\ s.items \in Seq(Items(C)) /\ s.error \in BOOLEAN
  BY LenProperties, ElementOfSeq DEF ParseStates
<1>2. w \in Seq(C)
  BY <1>1, FlushFacts
<1>20. DOMAIN s = {"i", "text", "items", "error"}
  BY DEF ParseStates
<1>3. CASE s.i > L
  <2>1. ParseStep(p, s) = s
    BY <1>3 DEF ParseStep
  <2> QED BY <2>1, <1>1, <1>3
<1>4. CASE s.i <= L /\ p[s.i] # Percent
  <2> DEFINE r == [s EXCEPT !.i = @ + 1, !.text = Append(@, p[s.i])]
  <2>1. ParseStep(p, s) = r
    BY <1>1, <1>4 DEF ParseStep
  <2>2. p[s.i] \in C
    BY <1>1, <1>4
  <2>3. /\ Append(s.text, p[s.i]) \in Seq(C) /\ <<p[s.i]>> \in Seq(C)
        /\ Append(s.text, p[s.i]) = s.text \o <<p[s.i]>>
    <3>1. Append(s.text, p[s.i]) \in Seq(C)
      BY <1>1, <2>2, AppendProperties
    <3>2. Append(s.text, p[s.i]) = s.text \o <<p[s.i]>>
      BY <1>1, <2>2, AppendIsConcat
    <3> QED BY <3>1, <3>2, <2>2
  <2> DEFINE t == Append(s.text, p[s.i])
  <2> HIDE DEF t
  <2>4. r.i = s.i + 1 /\ r.text = Append(s.text, p[s.i]) /\ r.items = s.items /\ r.error = s.error
    BY <1>20
  <2>5. r \in ParseStates(C, p)
    <3>1. t \in Seq(C) /\ s.i + 1 \in 1 .. Len(p) + 1
      BY <1>1, <1>4, <2>3 DEF t
    <3>2. r = [s EXCEPT !.i = s.i + 1, !.text = t]
      BY DEF t
    <3> HIDE DEF r
    <3> QED BY <3>1, <3>2 DEF ParseStates
  <2>6. ASSUME Spelled(p, s), ~r.error PROVE w \o Append(s.text, p[s.i]) = SubSeq(p, 1, s.i)
    <3>1. w \o s.text = SubSeq(p, 1, s.i - 1)
      BY <2>4, <2>6 DEF Spelled
    <3>2. w \o (s.text \o <<p[s.i]>>) = (w \o s.text) \o <<p[s.i]>>
      <4>1. PICK x, y, z : x = w /\ y = s.text /\ z = <<p[s.i]>>
        OBVIOUS
      <4>2. x \in Seq(C) /\ y \in Seq(C) /\ z \in Seq(C)
        BY <4>1, <2>3, <1>1, <1>2
      <4>3. (x \o y) \o z = x \o (y \o z)
        BY <4>2, ConcatAssociative, SMTT(60)
      <4> QED BY <4>1, <4>3
    <3>3. SubSeq(p, 1, s.i) = SubSeq(p, 1, s.i - 1) \o <<p[s.i]>>
      <4>1. 1 \in 1 .. L /\ s.i \in 1 .. L
        BY <1>1, <1>4
      <4> QED BY <4>1, SubSeqRecursiveSecond
    <3> QED BY <2>3, <3>1, <3>2, <3>3
  <2> HIDE DEF r
  <2>7. r.i - 1 = s.i /\ r.i > s.i
    BY <2>4, <1>1
  <2> QED BY <2>1, <2>4, <2>5, <2>6, <2>7 DEF Spelled
<1>5. ASSUME s.i <= L, p[s.i] = Percent PROVE ~(s.i < L /\ p[s.i + 1] = Percent)
  <2> SUFFICES ASSUME s.i < L PROVE p[s.i + 1] # Percent
    OBVIOUS
  <2>1. s.i \in 1 .. L - 1
    BY <1>1
  <2> QED BY <2>1, <1>5, NoPart
<1>6. CASE s.i <= L /\ p[s.i] = Percent /\ e.open
  <2> DEFINE r == [s EXCEPT !.i = @ + 1, !.items = Append(@, <<0, <<"error">>>>), !.error = TRUE]
  <2>1. ParseStep(p, s) = r
    BY <1>1, <1>5, <1>6 DEF ParseStep
  <2>2. <<0, <<"error">>>> \in Items(C)
    <3>1. <<"error">> \in Seq(C)
      BY DEF Structure
    <3> QED BY <3>1, TextIsItem
  <2>3. Append(s.items, <<0, <<"error">>>>) \in Seq(Items(C))
    BY <1>1, <2>2, AppendProperties
  <2>4. r.i = s.i + 1 /\ r.error = TRUE
    BY <1>20
  <2>5. r \in ParseStates(C, p)
    <3>1. PICK t : t = Append(s.items, <<0, <<"error">>>>)
      OBVIOUS
    <3>2. r = [s EXCEPT !.i = s.i + 1, !.items = t, !.error = TRUE]
      BY <3>1
    <3>3. t \in Seq(Items(C)) /\ s.i + 1 \in 1 .. Len(p) + 1
      BY <1>1, <1>6, <2>3, <3>1
    <3> HIDE DEF r
    <3> QED BY <3>2, <3>3 DEF ParseStates
  <2> HIDE DEF r
  <2>6. r.error
    BY <2>4
  <2>7. r.i > s.i
    BY <2>4, <1>1
  <2> QED BY <2>1, <2>5, <2>6, <2>7 DEF Spelled
<1>7. CASE s.i <= L /\ p[s.i] = Percent /\ ~e.open
  <2> DEFINE x == ItemAt(p, s.i, e.n)
             f == Flush(s.items, s.text)
             r == [i |-> e.n, text |-> <<>>, error |-> s.error, items |-> Append(f, x)]
  <2>1. ParseStep(p, s) = r
    BY <1>1, <1>5, <1>7 DEF ParseStep
  <2>2. /\ e.n \in s.i + 1 .. L + 1
        /\ \E a \in Seq(C), b \in Seq(C) : x = <<1, a, b>>
        /\ ItemText(x) = SubSeq(p, s.i, e.n - 1)
    <3>1. PICK n, i : n = e.n /\ i = s.i
      OBVIOUS
    <3>2. i \in 1 .. Len(p) /\ p[i] = Percent /\ ~ItemEnd(p, i).open /\ n = ItemEnd(p, i).n
      BY <3>1, <1>1, <1>7
    <3>3. /\ n \in i + 1 .. Len(p) + 1
          /\ \E a \in Seq(C), b \in Seq(C) : ItemAt(p, i, n) = <<1, a, b>>
          /\ ItemText(ItemAt(p, i, n)) = SubSeq(p, i, n - 1)
      BY <3>2, ItemSpelled
    <3> QED BY <3>1, <3>3
  <2>3. x \in Items(C)
    BY <2>2 DEF Items
  <2>4. f \in Seq(Items(C)) /\ Written(f) = w \o s.text
    BY <1>1, FlushFacts
  <2> HIDE DEF x, f
  <2>5. Append(f, x) \in Seq(Items(C)) /\ Written(Append(f, x)) = Written(f) \o ItemText(x)
        /\ Written(Append(f, x)) \in Seq(C)
    <3>1. Append(f, x) \in Seq(Items(C))
      BY <2>3, <2>4, AppendProperties
    <3>2. Written(Append(f, x)) = Written(f) \o ItemText(x)
      BY <2>3, <2>4, WrittenAppend
    <3>3. <<>> \in Seq(C)
      OBVIOUS
    <3>4. Written(Append(f, x)) \in Seq(C)
      BY <3>1, <3>3, FlushFacts
    <3> QED BY <3>1, <3>2, <3>4
  <2>6. r \in ParseStates(C, p)
    <3>1. <<>> \in Seq(C) /\ e.n \in 1 .. L + 1
      BY <2>2, <1>1
    <3> QED BY <3>1, <1>1, <2>5 DEF ParseStates
  <2>7. r.i = e.n /\ r.text = <<>> /\ r.items = Append(f, x) /\ r.error = s.error
    OBVIOUS
  <2> HIDE DEF r
  <2>8. ASSUME Spelled(p, s), ~r.error PROVE Written(r.items) \o r.text = SubSeq(p, 1, r.i - 1)
    <3>1. w \o s.text = SubSeq(p, 1, s.i - 1)
      BY <2>7, <2>8 DEF Spelled
    <3>2. PICK t, n : t = s.i - 1 /\ n = e.n - 1
      OBVIOUS
    <3>3. 1 \in 1 .. L + 1 /\ t \in 1 - 1 .. L /\ n \in t .. L /\ t + 1 = s.i
      <4>1. PICK m : m = e.n
        OBVIOUS
      <4>2. m \in s.i + 1 .. L + 1 /\ n = m - 1
        BY <4>1, <2>2, <3>2
      <4> HIDE DEF e
      <4> QED BY <1>1, <1>7, <4>2, <3>2, SMTT(60)
    <3>4. SubSeq(p, 1, t) \o SubSeq(p, t + 1, n) = SubSeq(p, 1, n)
      BY <3>3, ConcatAdjacentSubSeq
    <3>5. Written(r.items) \o r.text = Written(r.items)
      BY <2>5, <2>7, ConcatEmptySeq
    <3> QED BY <2>2, <2>4, <2>5, <2>7, <3>1, <3>2, <3>3, <3>4, <3>5
  <2>9. r.i > s.i
    BY <2>2, <2>7, <1>1
  <2> QED BY <2>1, <2>6, <2>8, <2>9 DEF Spelled
<1> QED BY <1>1, <1>3, <1>4, <1>6, <1>7

\* The recursive function of Parse.
Runs(p, f) == f = [k \in 0 .. Len(p) |-> IF k = 0 THEN ParseStart ELSE ParseStep(p, f[k - 1])]

\* The rounds of the loop up to the end of the pattern.
LEMMA ParseIsRun ==
  ASSUME NEW C, Structure \subseteq C, NEW p \in Seq(C), ~HasPart(p, <<Percent, Percent>>),
         ~HasPart(p, <<Open, Close>>)
  PROVE  \E f \in [0 .. Len(p) -> ParseStates(C, p)] :
           /\ f[0] = ParseStart
           /\ \A k \in 1 .. Len(p) : f[k] = ParseStep(p, f[k - 1])
           /\ Parse(p).pattern = p
           /\ Parse(p).items = Flush(f[Len(p)].items, f[Len(p)].text)
           /\ f[Len(p)].error => Parse(p).error
<1> DEFINE L == Len(p)
           T == ParseStates(C, p)
           h == [k \in 1 .. L |-> [s \in T |-> ParseStep(p, s)]]
           c == CHOOSE f : Runs(p, f)
<1>1. L \in Nat
  BY LenProperties
<1>2. ParseStart \in T
  <2>1. <<>> \in Seq(C) /\ <<>> \in Seq(Items(C)) /\ 1 \in 1 .. L + 1
    BY <1>1
  <2> QED BY <2>1 DEF ParseStart, ParseStates
<1>3. h \in [1 .. L -> [T -> T]]
  BY ParseStepSpells
<1> HIDE DEF T
<1>4. PICK g \in [0 .. L -> T] : \A k \in 0 .. L : g[k] = IF k = 0 THEN ParseStart ELSE h[k][g[k - 1]]
  <2>1. PICK n, t, s, r : n = L /\ t = T /\ s = ParseStart /\ r = h
    OBVIOUS
  <2>2. n \in Nat /\ s \in t /\ r \in [1 .. n -> [t -> t]]
    BY <2>1, <1>1, <1>2, <1>3
  <2>3. \E g \in [0 .. n -> t] : Recursive(g, s, r, n)
    BY <2>2, Recursion
  <2> QED BY <2>1, <2>3 DEF Recursive
<1>5. \A k \in 1 .. L : h[k][g[k - 1]] = ParseStep(p, g[k - 1])
  BY <1>1, SMTT(60)
<1> HIDE DEF h
<1>6. \A k \in 0 .. L : g[k] = IF k = 0 THEN ParseStart ELSE ParseStep(p, g[k - 1])
  BY <1>1, <1>4, <1>5
<1>7. Runs(p, g)
  BY <1>6 DEF Runs
<1>8. Runs(p, c)
  BY <1>7
<1>9. DOMAIN c = 0 .. L /\ \A k \in 0 .. L : c[k] = IF k = 0 THEN ParseStart ELSE ParseStep(p, c[k - 1])
  <2> HIDE DEF c
  <2> QED BY <1>8 DEF Runs
<1>10. \A k \in 0 .. L : c[k] = g[k]
  <2> DEFINE S == {k \in Nat : k <= L => c[k] = g[k]}
  <2>1. 0 \in S
    BY <1>1, <1>6, <1>9
  <2>2. ASSUME NEW k \in Nat, k \in S PROVE k + 1 \in S
    <3> SUFFICES ASSUME k + 1 <= L PROVE c[k + 1] = g[k + 1]
      OBVIOUS
    <3>1. PICK i : i = k + 1
      OBVIOUS
    <3>2. i \in 0 .. L /\ i # 0 /\ i - 1 = k /\ k <= L
      BY <3>1, <1>1
    <3>3. c[k] = g[k]
      BY <2>2, <3>2
    <3> QED BY <3>1, <3>2, <3>3, <1>6, <1>9
  <2> HIDE DEF S
  <2>3. \A k \in Nat : k \in S
    BY <2>1, <2>2, Induct
  <2> QED BY <2>3, <1>1 DEF S
<1>11. /\ Parse(p).pattern = p /\ Parse(p).items = Flush(c[L].items, c[L].text)
       /\ c[L].error => Parse(p).error
  <2>1. Parse(p) = [pattern |-> p, items |-> Flush(c[L].items, c[L].text),
                    error |-> c[L].error \/ \E k \in DOMAIN Flush(c[L].items, c[L].text) :
                                /\ Flush(c[L].items, c[L].text)[k][1] = 1
                                /\ Flush(c[L].items, c[L].text)[k][2] \notin ItemNames]
    BY DEF Parse, Runs
  <2> HIDE DEF c
  <2>2. Parse(p).pattern = p /\ Parse(p).items = Flush(c[L].items, c[L].text)
    BY <2>1
  <2>3. Parse(p).error = (c[L].error \/ \E k \in DOMAIN Flush(c[L].items, c[L].text) :
                                /\ Flush(c[L].items, c[L].text)[k][1] = 1
                                /\ Flush(c[L].items, c[L].text)[k][2] \notin ItemNames)
    BY <2>1
  <2>4. c[L].error => Parse(p).error
    BY Zenon, <2>3
  <2> QED BY <2>2, <2>4
<1> HIDE DEF c
<1>12. 0 \in 0 .. L /\ L \in 0 .. L /\ \A k \in 1 .. L : k \in 0 .. L /\ k # 0
  BY <1>1
<1>13. g[0] = ParseStart /\ c[L] = g[L] /\ \A k \in 1 .. L : g[k] = ParseStep(p, g[k - 1])
  BY <1>6, <1>10, <1>12
<1> QED BY <1>4, <1>11, <1>13 DEF T

\* The items of a pattern that is parsed without error spell it.
LEMMA ParseSpells ==
  ASSUME NEW C, Structure \subseteq C, NEW p \in Seq(C), ~HasPart(p, <<Percent, Percent>>),
         ~HasPart(p, <<Open, Close>>), ~Parse(p).error
  PROVE  Written(Parse(p).items) = p
<1>1. PICK f \in [0 .. Len(p) -> ParseStates(C, p)] :
           /\ f[0] = ParseStart
           /\ \A k \in 1 .. Len(p) : f[k] = ParseStep(p, f[k - 1])
           /\ Parse(p).items = Flush(f[Len(p)].items, f[Len(p)].text)
           /\ f[Len(p)].error => Parse(p).error
  BY ParseIsRun
<1> DEFINE L == Len(p)
           S == {k \in Nat : k <= L => Spelled(p, f[k]) /\ (f[k].i > k \/ f[k].i = L + 1)}
<1>2. L \in Nat
  BY LenProperties
<1>3. 0 \in S
  <2>1. ParseStart.i = 1 /\ ParseStart.items = <<>> /\ ParseStart.text = <<>>
    BY DEF ParseStart
  <2>2. Written(<<>>) = <<>>
    <3>1. [k \in DOMAIN <<>> |-> ItemText(<<>>[k])] = <<>>
      OBVIOUS
    <3> QED BY <3>1 DEF Written, FlattenSeq
  <2>3. <<>> \in Seq(C) /\ <<>> \o <<>> = <<>>
    BY ConcatEmptySeq
  <2>4. SubSeq(p, 1, 0) = <<>>
    BY SubSeqEmpty
  <2>5. Spelled(p, ParseStart)
    <3>1. ParseStart.i - 1 = 0
      BY <2>1
    <3> QED BY <2>1, <2>2, <2>3, <2>4, <3>1 DEF Spelled
  <2> QED BY <1>1, <2>1, <2>5
<1>4. ASSUME NEW k \in Nat, k \in S PROVE k + 1 \in S
  <2>1. SUFFICES ASSUME k + 1 <= L PROVE Spelled(p, f[k + 1]) /\ (f[k + 1].i > k + 1 \/ f[k + 1].i = L + 1)
    OBVIOUS
  <2>2. PICK n, s, t : n = k + 1 /\ s = f[k] /\ t = f[n]
    OBVIOUS
  <2>3. n \in 1 .. L /\ n - 1 = k /\ k \in 0 .. L /\ n \in 0 .. L /\ k <= L
    BY <2>1, <2>2, <1>2
  <2>4. s \in ParseStates(C, p) /\ t \in ParseStates(C, p) /\ t = ParseStep(p, s)
    BY <2>2, <2>3, <1>1
  <2>5. Spelled(p, s) /\ (s.i > k \/ s.i = L + 1)
    BY <1>4, <2>2, <2>3
  <2>6. Spelled(p, t) /\ (t.i > s.i \/ (s.i = L + 1 /\ t.i = s.i))
    BY <2>4, <2>5, ParseStepSpells
  <2>7. s.i \in 1 .. L + 1 /\ t.i \in 1 .. L + 1
    BY <2>4 DEF ParseStates
  <2>8. t.i > n \/ t.i = L + 1
    BY <2>2, <2>5, <2>6, <2>7, <1>2
  <2> QED BY <2>2, <2>6, <2>8
<1> HIDE DEF S
<1>5. \A k \in Nat : k \in S
  BY <1>3, <1>4, Induct
<1>6. L \in S /\ L \in 0 .. L /\ L <= L
  BY <1>5, <1>2
<1>7. PICK s : s = f[L]
  OBVIOUS
<1>8. s \in ParseStates(C, p) /\ Spelled(p, s) /\ (s.i > L \/ s.i = L + 1) /\ ~s.error
  BY <1>1, <1>6, <1>7 DEF S
<1>9. s.i = L + 1 /\ s.items \in Seq(Items(C)) /\ s.text \in Seq(C)
  BY <1>8, <1>2 DEF ParseStates
<1>10. Written(Flush(s.items, s.text)) = Written(s.items) \o s.text
  BY <1>9, FlushFacts
<1>11. Written(s.items) \o s.text = SubSeq(p, 1, L)
  <2>1. s.i - 1 = L
    BY <1>9, <1>2
  <2> QED BY <2>1, <1>8 DEF Spelled
<1>12. SubSeq(p, 1, L) = p
  BY SubSeqFull
<1> QED BY <1>1, <1>7, <1>10, <1>11, <1>12

\* The formatter by itself is the one of a pattern.
FormatterInv == scratch = NoFormatter \/ \E p \in Patterns : scratch = Parse(p)

\* The items of a LogFormatter without error spell its pattern, if it has
\* neither "%%" nor "{}" (LogFormatter::init).
THEOREM LogPatternSpelled == Spec => []PatternSpelled
<1>1. Init => FormatterInv
  BY DEF Init, LogInit, FormatterInv
<1>2. FormatterInv /\ [Next]_vars => FormatterInv'
  <2> SUFFICES ASSUME FormatterInv, [Next]_vars PROVE FormatterInv'
    OBVIOUS
  <2>1. CASE scratch' = scratch
    BY <2>1 DEF FormatterInv, NoFormatter
  <2>2. CASE MakeFormatter
    BY <2>2 DEF MakeFormatter, FormatterInv
  <2>3. CASE DropFormatter
    BY <2>3 DEF DropFormatter, FormatterInv, NoFormatter
  <2>4. CASE Quiet
    BY <2>4, <2>1 DEF Quiet, logVars
  <2>5. ASSUME NEW l \in Loaders, ApplyOp(l) PROVE scratch' = scratch
    BY <2>5 DEF ApplyOp
  <2>6. ASSUME NEW w \in Writers, NEW n, LogEvent(w, n, 3) PROVE scratch' = scratch
    BY <2>6 DEF LogEvent
  <2>7. ASSUME NEW w \in Writers, CheckLevel(w) \/ LockLogger(w) \/ WriteEvent(w)
         PROVE  scratch' = scratch
    BY <2>7 DEF CheckLevel, LockLogger, WriteEvent
  <2>8. CASE Tick
    BY <2>8, <2>1 DEF Tick
  <2>9. CASE UNCHANGED vars
    BY <2>9, <2>1 DEF vars, logVars
  <2> QED BY <2>1, <2>2, <2>3, <2>4, <2>5, <2>6, <2>7, <2>8, <2>9 DEF Next
<1>3. FormatterInv => PatternSpelled
  <2> SUFFICES ASSUME FormatterInv, ~scratch.error, ~HasPart(scratch.pattern, <<Percent, Percent>>),
                      ~HasPart(scratch.pattern, <<Open, Close>>)
               PROVE  Written(scratch.items) = scratch.pattern
    BY DEF PatternSpelled
  <2>1. CASE scratch = NoFormatter
    <3>1. scratch.items = <<>> /\ scratch.pattern = <<>>
      BY <2>1 DEF NoFormatter
    <3>2. [k \in DOMAIN <<>> |-> ItemText(<<>>[k])] = <<>>
      OBVIOUS
    <3> QED BY <3>1, <3>2 DEF Written, FlattenSeq
  <2>2. ASSUME NEW p \in Patterns, scratch = Parse(p) PROVE Written(scratch.items) = scratch.pattern
    <3> DEFINE C == Range(p) \cup Structure
    <3>1. p \in Seq(Range(p))
      BY PatternsAssumption DEF PatternsAssumption
    <3>2. p \in Seq(C)
      BY <3>1
    <3>3. scratch.pattern = p
      BY <2>2 DEF Parse
    <3>4. Structure \subseteq C
      OBVIOUS
    <3> HIDE DEF C
    <3>5. Written(Parse(p).items) = p
      BY <2>2, <3>2, <3>3, <3>4, ParseSpells
    <3> QED BY <2>2, <3>3, <3>5
  <2> QED BY <2>1, <2>2 DEF FormatterInv
<1> QED BY <1>1, <1>2, <1>3, PTL DEF Spec, vars
=============================================================================
