------------------------------- MODULE Config -------------------------------
(***************************************************************************)
(* Config and ConfigVar (config.h, config.cpp): variables that code        *)
(* registers with Lookup, documents that threads load into them, and the   *)
(* listeners that a variable calls before it changes.  A document is the   *)
(* sequence of its nodes below the root, each with its name, in the order  *)
(* of the recursion; the node, a scalar, a sequence or a map, has the      *)
(* value that FromStr gives for its text.                                  *)
(***************************************************************************)
EXTENDS Integers, Sequences, FiniteSets, SequencesExt

CONSTANTS
  Loaders,      \* threads that load documents
  Docs,         \* the documents
  Vars,         \* names of variables, sequences of words
  DefaultOf,    \* [Vars -> default values]
  TypeOf,       \* [Vars -> the values their FromStr gives]
  Valid,        \* the words with the characters a-z, 0-9 and _
  Plain,        \* the variable the Listeners listen to
  Listeners,    \* as numbers: m_cbs is a map, ordered by key
  MaxLoads      \* bound on documents loaded

VARIABLES
  val,       \* m_val of the variables in GetDatas()
  cbs,       \* m_cbs of Plain
  told,      \* history: the last <<old, new>> a listener was called with
  load,      \* the loaders
  loads,     \* documents loaded so far
  raced      \* history: the variables that two threads have set at once

configVars == <<val, cbs, told, load, loads, raced>>

NoLoad == [pc |-> "idle", todo |-> <<>>, new |-> 0, calls |-> {}, ops |-> <<>>]

ConfigInit ==
  /\ val = [v \in {} |-> 0]
  /\ cbs = {} /\ told = [i \in Listeners |-> <<>>]
  /\ load = [l \in Loaders |-> NoLoad]
  /\ loads = 0 /\ raced = {}

SetLoad(l, r) == load' = [load EXCEPT ![l] = r]
Key(l) == load[l].todo[1].key
\* A loader holds the read lock of a variable while it calls its listeners.
Holds(l, v) == load[l].pc = "call" /\ Key(l) = v
Unlocked(v) == \A l \in Loaders : ~Holds(l, v)
Setting(l, v) == load[l].pc \in {"call", "write"} /\ Key(l) = v

\* Lookup with a default creates a variable; what was loaded earlier is lost.
Lookup(v) ==
  /\ v \notin DOMAIN val
  /\ val' = [u \in DOMAIN val \cup {v} |-> IF u = v THEN DefaultOf[v] ELSE val[u]]
  /\ UNCHANGED <<cbs, told, load, loads, raced>>

\* ListAllMember without the root's entry: a member whose name, which begins
\* with the names of the maps it is in, has other characters is left out.
ListAllMember(doc) == SelectSeq(doc, LAMBDA m : Range(m.key) \subseteq Valid)

LoadFromYaml(l, doc) ==
  /\ load[l].pc = "idle" /\ loads < MaxLoads
  /\ loads' = loads + 1
  /\ SetLoad(l, [NoLoad EXCEPT !.pc = "next", !.todo = ListAllMember(doc)])
  /\ UNCHANGED <<val, cbs, told, raced>>

\* The value that fromString converts the node to: none if FromStr throws,
\* which fromString catches.
Converted(v, node) == IF node.val \in TypeOf[v] THEN {node.val} ELSE {}

\* The value that the next member changes its variable to: none if LookupBase
\* finds no variable, or if it has the value already.
NewValue(l) ==
  IF Key(l) \in DOMAIN val THEN Converted(Key(l), load[l].todo[1].node) \ {val[Key(l)]} ELSE {}

\* A member that changes nothing.
SkipKey(l) ==
  /\ load[l].pc = "next" /\ load[l].todo # <<>> /\ NewValue(l) = {}
  /\ SetLoad(l, [load[l] EXCEPT !.todo = Tail(@)])
  /\ UNCHANGED <<val, cbs, told, loads, raced>>

\* setValue takes the read lock; new is not the value.  ops is what a listener
\* with several steps will do.
SetValue(l, new, ops) ==
  /\ load[l].pc = "next"
  /\ SetLoad(l, [load[l] EXCEPT !.pc = "call", !.new = new, !.ops = ops,
                    !.calls = IF Key(l) = Plain THEN cbs ELSE {}])
  /\ raced' = IF \E m \in Loaders \ {l} : Setting(m, Key(l)) THEN raced \cup {Key(l)} ELSE raced
  /\ UNCHANGED <<val, cbs, told, loads>>

LoadDone(l) ==
  /\ load[l].pc = "next" /\ load[l].todo = <<>>
  /\ SetLoad(l, NoLoad)
  /\ UNCHANGED <<val, cbs, told, loads, raced>>

\* The first of the listeners that are still to be called, and the rest.
FirstOf(calls) == {i \in calls : \A j \in calls : i <= j}
\* Only the first listener is called.
CallOneListener(l) ==
  /\ load[l].pc = "call"
  /\ \E i \in FirstOf(load[l].calls) :
       /\ told' = [told EXCEPT ![i] = <<val[Plain], load[l].new>>]
       /\ SetLoad(l, [load[l] EXCEPT !.calls = {}])
  /\ UNCHANGED <<val, cbs, loads, raced>>
CallListener(l) ==
  /\ load[l].pc = "call"
  /\ \E i \in FirstOf(load[l].calls) :
       /\ told' = [told EXCEPT ![i] = <<val[Plain], load[l].new>>]
       /\ SetLoad(l, [load[l] EXCEPT !.calls = @ \ {i}])
  /\ UNCHANGED <<val, cbs, loads, raced>>
\* The read lock is released, and the value is written under the write lock.
Called(l) ==
  /\ load[l].pc = "call" /\ load[l].calls = {} /\ load[l].ops = <<>>
  /\ SetLoad(l, [load[l] EXCEPT !.pc = "write"])
  /\ UNCHANGED <<val, cbs, told, loads, raced>>
WriteValue(l) ==
  /\ load[l].pc = "write" /\ Unlocked(Key(l))
  /\ val' = [val EXCEPT ![Key(l)] = load[l].new]
  /\ SetLoad(l, [load[l] EXCEPT !.pc = "next", !.new = 0, !.todo = Tail(@)])
  /\ UNCHANGED <<cbs, told, loads, raced>>

\* A new listener, which has seen the value.  What it has seen does not count
\* (<<>>) when it comes between the calls of listeners and the write.
AddListener(i) ==
  /\ Plain \in DOMAIN val /\ Unlocked(Plain) /\ i \notin cbs
  /\ \A j \in cbs : j < i
  /\ cbs' = cbs \cup {i}
  /\ told' = [told EXCEPT ![i] = IF \E l \in Loaders : Setting(l, Plain) THEN <<>> ELSE <<val[Plain], val[Plain]>>]
  /\ UNCHANGED <<val, load, loads, raced>>
DelListener(i) ==
  /\ Unlocked(Plain) /\ i \in cbs /\ cbs' = cbs \ {i}
  /\ told' = [told EXCEPT ![i] = <<>>]
  /\ UNCHANGED <<val, load, loads, raced>>
ClearListener ==
  /\ Unlocked(Plain) /\ cbs # {} /\ cbs' = {}
  /\ told' = [i \in Listeners |-> <<>>]
  /\ UNCHANGED <<val, load, loads, raced>>
=============================================================================
