-------------------------------- MODULE Log --------------------------------
(***************************************************************************)
(* The loggers (log.h, log.cpp), their configuration through the variable  *)
(* "logs", and threads that log.  A LogDefine has name, level, formatter   *)
(* (<<>> for none) and appenders; std::set<LogDefine> holds one of a name. *)
(***************************************************************************)
EXTENDS Config, LogFormatter

CONSTANTS
  Logs,          \* the name of the variable
  LoggerNames,   \* sequence of the names of loggers, in their order
  Writers,       \* threads that log
  Patterns,      \* patterns from which a LogFormatter is made
  DefaultPattern,
  MaxEvents, MaxSeconds   \* bounds on events and on time

VARIABLES
  loggers,   \* m_loggers; "root" is one of them
  stream,    \* <<logger, i>> -> m_filestream and m_lastTime of its i-th appender, a file's
  file,      \* name of a file that was opened -> the events in it
  writer,    \* the writers
  now,       \* time(0)
  events,    \* events written so far
  scratch,   \* a LogFormatter by itself
  down       \* the process has ended

logVars == <<loggers, stream, file, writer, now, events, scratch, down>>

DEBUG == 1
Silent == 100
Stdout == [type |-> 2, file |-> "none", own |-> FALSE, fmt |-> DefaultPattern]
NewLogger == [level |-> DEBUG, fmt |-> DefaultPattern, appenders |-> <<>>]
\* A FileLogAppender: pos is the stream's place in its file, buf what it has
\* not given to the file yet; (history) wrote is what the appender has logged,
\* and alone that since it opened the file no other appender had it open.
NoStream == [file |-> "none", last |-> 0, pos |-> 0, buf |-> <<>>, wrote |-> <<>>, alone |-> TRUE]
NoWrite == [pc |-> "idle", name |-> "none", level |-> 0, i |-> 0, held |-> {}]
NoFormatter == [pattern |-> <<>>, items |-> <<>>, error |-> FALSE]

LogInit ==
  /\ loggers = [n \in {"root"} |-> [NewLogger EXCEPT !.appenders = <<Stdout>>]]
  /\ stream = [a \in {} |-> NoStream] /\ file = [f \in {} |-> <<>>]
  /\ writer = [w \in Writers |-> NoWrite]
  /\ now = 1 /\ events = 0 /\ scratch = NoFormatter /\ down = FALSE

\* getLogger creates the logger that is not there.
GetLogger(n) == IF n \in DOMAIN loggers THEN loggers[n] ELSE NewLogger
PutLogger(n, r) == loggers' = [m \in DOMAIN loggers \cup {n} |-> IF m = n THEN r ELSE loggers[m]]

(***************************************************************************)
(* The listener of "logs": the calls it makes, one after the other.        *)
(***************************************************************************)
IsValid(pattern) == pattern # <<>> /\ ~Parse(pattern).error
\* Names that are defined in set s.
Defined(s) == {d.name : d \in s}
DefOf(s, n) == CHOOSE d \in s : d.name = n

\* A std::set<LogDefine>: one definition of a name, each with its list of appenders.
LogSet(s) ==
  /\ Defined(s) \subseteq Range(LoggerNames)
  /\ \A d, e \in s : d.name = e.name => d = e
  /\ \A d \in s : d.appenders \in Seq(Range(d.appenders))
\* "logs" is registered without definitions, FromStr gives sets of definitions,
\* and a name has one place in their order.
ASSUME LogsAssumption ==
  /\ DefaultOf[Logs] = {} /\ \A s \in TypeOf[Logs] : LogSet(s)
  /\ LoggerNames \in Seq(Range(LoggerNames))
  /\ \A i, j \in DOMAIN LoggerNames : LoggerNames[i] = LoggerNames[j] => i = j

\* A new or a changed definition.  For one that has not changed the pointer to
\* the logger is null.
OpsFor(old, new, n) ==
  LET d == DefOf(new, n)
  IN IF n \notin Defined(new) THEN <<>>
     ELSE IF d \in old THEN <<[op |-> "crash", name |-> n]>>
     ELSE <<[op |-> "level", name |-> n, arg |-> d.level]>>
          \o (IF d.formatter = <<>> THEN <<>> ELSE <<[op |-> "formatter", name |-> n, arg |-> d.formatter]>>)
          \o <<[op |-> "clear", name |-> n]>>
          \o [i \in DOMAIN d.appenders |-> [op |-> "add", name |-> n, arg |-> d.appenders[i]]]
OpsRemoved(old, new, n) ==
  IF n \in Defined(old) \ Defined(new)
    THEN <<[op |-> "level", name |-> n, arg |-> Silent], [op |-> "clear", name |-> n]>>
  ELSE <<>>
\* A logger that is gone keeps its level and its appenders.
LogChangedKeeps(old, new) ==
  FlattenSeq([i \in DOMAIN LoggerNames |-> OpsFor(old, new, LoggerNames[i])])
LogChanged(old, new) ==
  FlattenSeq([i \in DOMAIN LoggerNames |-> OpsFor(old, new, LoggerNames[i])])
  \o FlattenSeq([i \in DOMAIN LoggerNames |-> OpsRemoved(old, new, LoggerNames[i])])

\* setValue for the next member; the listener of "logs" is LogChanged.
SetKey(l) ==
  /\ load[l].pc = "next" /\ load[l].todo # <<>>
  /\ \E x \in NewValue(l) :
       SetValue(l, x, IF Key(l) = Logs THEN LogChanged(val[Logs], x) ELSE <<>>)

SetLevel(n, level) == PutLogger(n, [GetLogger(n) EXCEPT !.level = level])
\* Logger::setFormatter: the appenders without one of their own get it too.
SetFormatter(n, pattern) ==
  LET r == GetLogger(n)
  IN PutLogger(n, IF ~IsValid(pattern) THEN r
                  ELSE [r EXCEPT !.fmt = pattern,
                          !.appenders = [i \in DOMAIN r.appenders |->
                             IF r.appenders[i].own THEN r.appenders[i]
                             ELSE [r.appenders[i] EXCEPT !.fmt = pattern]]])
ClearAppender(n) == PutLogger(n, [GetLogger(n) EXCEPT !.appenders = <<>>])
AddAppender(n, a) ==
  LET own == IsValid(a.formatter)
      r == GetLogger(n)
  IN PutLogger(n, [r EXCEPT !.appenders =
       Append(@, [type |-> a.type, file |-> a.file, own |-> own, fmt |-> IF own THEN a.formatter ELSE r.fmt])])

(***************************************************************************)
(* The streams of file appenders.  A stream has a buffer and a place of    *)
(* its own in the file, an ofstream that is opened without ios::app; the   *)
(* events have one length, and 0 is in a file where nothing was written.   *)
(***************************************************************************)
\* What flushing stream r makes of its file, which holds c.
Flushed(c, r) ==
  LET end == r.pos + Len(r.buf)
  IN IF r.buf = <<>> THEN c
     ELSE [i \in 1 .. IF end > Len(c) THEN end ELSE Len(c) |->
             IF i \in r.pos + 1 .. end THEN r.buf[i - r.pos]
             ELSE IF i <= Len(c) THEN c[i] ELSE 0]
\* The other streams that have file f open.
Sharing(a, f) == {b \in DOMAIN stream \ {a} : stream[b].file = f}

\* The constructor of a FileLogAppender opens, and so empties, its file.
OpenStream(a, f) ==
  /\ stream' = [b \in DOMAIN stream \cup {a} |->
       IF b = a THEN [NoStream EXCEPT !.file = f, !.alone = (Sharing(a, f) = {})]
       ELSE IF stream[b].file = f THEN [stream[b] EXCEPT !.alone = FALSE] ELSE stream[b]]
  /\ file' = [g \in DOMAIN file \cup {f} |-> IF g = f THEN <<>> ELSE file[g]]
\* Appenders that go flush their streams, the first one first.
CloseStreams(n) ==
  LET gone == {a \in DOMAIN stream : a[1] = n}
      inOrder(f) == SetToSortSeq({a \in gone : stream[a].file = f}, LAMBDA a, b : a[2] < b[2])
  IN /\ stream' = [a \in DOMAIN stream \ gone |-> stream[a]]
     /\ file' = [f \in DOMAIN file |->
          IF \A a \in gone : stream[a].file # f THEN file[f]
          ELSE FoldLeft(LAMBDA c, a : Flushed(c, stream[a]), file[f], inOrder(f))]

\* The mutexes of loggers that writers hold.
Held == UNION {writer[w].held : w \in Writers}
ApplyOp(l) ==
  LET o == load[l].ops[1]
  IN /\ ~down /\ load[l].pc = "call" /\ load[l].ops # <<>>
     /\ o.op \in {"formatter", "clear", "add"} => o.name \notin Held
     /\ SetLoad(l, [load[l] EXCEPT !.ops = Tail(@)])
     /\ CASE o.op = "level" -> SetLevel(o.name, o.arg)
          [] o.op = "formatter" -> SetFormatter(o.name, o.arg)
          [] o.op = "clear" -> ClearAppender(o.name)
          [] o.op = "add" -> AddAppender(o.name, o.arg)
          [] o.op = "crash" -> UNCHANGED loggers
     /\ IF o.op = "add" /\ o.arg.type = 1
          THEN OpenStream(<<o.name, Len(GetLogger(o.name).appenders) + 1>>, o.arg.file)
        ELSE IF o.op = "clear" THEN CloseStreams(o.name)
        ELSE UNCHANGED <<stream, file>>
     /\ down' = (o.op = "crash")
     /\ UNCHANGED <<val, cbs, told, loads, raced, writer, now, events, scratch>>

(***************************************************************************)
(* Logging.                                                                *)
(***************************************************************************)
SetWriter(w, r) == writer' = [writer EXCEPT ![w] = r]
\* The macro reads the level without the lock and makes the event.
LogEvent(w, n, level) ==
  /\ writer[w].pc = "idle" /\ events < MaxEvents
  /\ GetLogger(n).level <= level
  /\ PutLogger(n, GetLogger(n))
  /\ SetWriter(w, [NoWrite EXCEPT !.pc = "log", !.name = n, !.level = level])
  /\ events' = events + 1
  /\ UNCHANGED <<stream, file, now, scratch, down>>
\* Logger::log reads the level again ...
CheckLevel(w) ==
  /\ writer[w].pc = "log"
  /\ SetWriter(w, IF loggers[writer[w].name].level <= writer[w].level
                    THEN [writer[w] EXCEPT !.pc = "lock"] ELSE NoWrite)
  /\ UNCHANGED <<loggers, stream, file, now, events, scratch, down>>
\* ... and takes the mutex, which it keeps while the root logs for a logger
\* without appenders.
LockLogger(w) ==
  LET r == writer[w]
      more == [r EXCEPT !.held = @ \cup {r.name}]
  IN /\ r.pc = "lock" /\ r.name \notin Held
     /\ SetWriter(w, IF loggers[r.name].appenders # <<>> THEN [more EXCEPT !.pc = "write", !.i = 1]
                       ELSE IF r.name # "root" THEN [more EXCEPT !.pc = "log", !.name = "root"]
                       ELSE NoWrite)
     /\ UNCHANGED <<loggers, stream, file, now, events, scratch, down>>

\* The file is opened again for every event.
EveryTime(r, t) == TRUE
\* FileLogAppender::log opens the file again, which empties it, for the first
\* event of a second.
NewSecond(r, t) == r.last # t
\* The stream of a with event e in its buffer.
Logged(a, e) ==
  LET r == stream[a]
      open == IF ~NewSecond(r, e.sec) THEN r
              ELSE [r EXCEPT !.last = e.sec, !.pos = 0, !.buf = <<>>, !.alone = (Sharing(a, r.file) = {})]
  IN [open EXCEPT !.buf = Append(@, e), !.wrote = Append(@, e)]
\* The buffer goes to the file now (with std::endl, or when it is full) or later.
FileLog(a, e) ==
  LET r == Logged(a, e)
      c == IF NewSecond(stream[a], e.sec) THEN <<>> ELSE file[r.file]
  IN \/ /\ stream' = [stream EXCEPT ![a] = r]
        /\ file' = [file EXCEPT ![r.file] = c]
     \/ /\ stream' = [stream EXCEPT ![a] = [r EXCEPT !.pos = @ + Len(r.buf), !.buf = <<>>]]
        /\ file' = [file EXCEPT ![r.file] = Flushed(c, r)]
\* The next appender of the logger logs the event; one of the console has no stream.
WriteEvent(w) ==
  LET r == writer[w]
      a == <<r.name, r.i>>
  IN /\ r.pc = "write"
     /\ IF a \in DOMAIN stream THEN FileLog(a, [by |-> w, sec |-> now]) ELSE UNCHANGED <<stream, file>>
     /\ SetWriter(w, IF r.i < Len(loggers[r.name].appenders) THEN [r EXCEPT !.i = @ + 1] ELSE NoWrite)
     /\ UNCHANGED <<loggers, now, events, scratch, down>>

Tick ==
  /\ now < MaxSeconds /\ now' = now + 1
  /\ UNCHANGED <<loggers, stream, file, writer, events, scratch, down>>

\* A pattern is a string.
ASSUME PatternsAssumption == \A p \in Patterns : p \in Seq(Range(p))
\* A LogFormatter by itself, looked at before anything else happens.
MakeFormatter ==
  /\ scratch = NoFormatter /\ loads = 0 /\ events = 0 /\ now = 1 /\ val = [v \in {} |-> 0]
  /\ \E p \in Patterns : scratch' = Parse(p)
  /\ UNCHANGED <<loggers, stream, file, writer, now, events, down>>
DropFormatter ==
  /\ scratch # NoFormatter /\ scratch' = NoFormatter
  /\ UNCHANGED <<loggers, stream, file, writer, now, events, down>>

\* A step of the configuration that the loggers do not notice, and a step of
\* theirs.  A thread that logs and one that changes listeners of Plain share
\* nothing: no run has both.
Alive == ~down /\ scratch = NoFormatter
Quiet == Alive /\ UNCHANGED logVars
Own == Alive /\ UNCHANGED configVars
Next ==
  \/ MakeFormatter /\ Own
  \/ DropFormatter /\ UNCHANGED configVars
  \/ \E v \in Vars : Lookup(v) /\ Quiet
  \/ \E l \in Loaders, doc \in Docs : LoadFromYaml(l, doc) /\ Quiet
  \/ \E l \in Loaders : SkipKey(l) /\ Quiet
  \/ \E l \in Loaders : SetKey(l) /\ Quiet
  \/ \E l \in Loaders : LoadDone(l) /\ Quiet
  \/ \E l \in Loaders : CallListener(l) /\ Quiet
  \/ \E l \in Loaders : ApplyOp(l)
  \/ \E l \in Loaders : Called(l) /\ Quiet
  \/ \E l \in Loaders : WriteValue(l) /\ Quiet
  \/ \E i \in Listeners : events = 0 /\ AddListener(i) /\ Quiet
  \/ \E i \in Listeners : DelListener(i) /\ Quiet
  \/ ClearListener /\ Quiet
  \/ \E w \in Writers, n \in Range(LoggerNames) : cbs = {} /\ LogEvent(w, n, 3) /\ Own
  \/ \E w \in Writers : CheckLevel(w) /\ Own
  \/ \E w \in Writers : LockLogger(w) /\ Own
  \/ \E w \in Writers : WriteEvent(w) /\ Own
  \/ Tick /\ Own
Init == ConfigInit /\ LogInit
Spec == Init /\ [][Next]_<<configVars, logVars>>

(***************************************************************************)
(* Properties.                                                             *)
(***************************************************************************)
\* When nobody is setting it, the variable has the value that setValue told
\* its listeners last; unless two threads set it at once: then each tells the
\* listeners of a change from the same old value, and the one that writes last
\* need not be the one that told them last.  A listener that is added between
\* the calls and the write misses the change.
ListenersAgree ==
  (Plain \in (DOMAIN val \ raced) /\ \A l \in Loaders : ~Setting(l, Plain)) =>
    \A i \in cbs : told[i] # <<>> => told[i][2] = val[Plain]

\* When nobody sets "logs", every logger in it has the level, the formatter and
\* the appenders defined there, and one that is no longer in it is silent.
\* An appender whose formatter is missing or wrong has its logger's.
LoggersAsConfigured ==
  (Logs \in (DOMAIN val \ raced) /\ ~down /\ \A l \in Loaders : ~Setting(l, Logs)) =>
    /\ \A d \in val[Logs] :
         LET r == loggers[d.name]
         IN /\ d.name \in DOMAIN loggers /\ r.level = d.level
            /\ IsValid(d.formatter) => r.fmt = d.formatter
            /\ Len(r.appenders) = Len(d.appenders)
            /\ \A i \in DOMAIN r.appenders :
                 /\ r.appenders[i].type = d.appenders[i].type /\ r.appenders[i].file = d.appenders[i].file
                 /\ r.appenders[i].fmt = IF IsValid(d.appenders[i].formatter) THEN d.appenders[i].formatter ELSE r.fmt
    /\ \A n \in DOMAIN loggers \ (Defined(val[Logs]) \cup {"root"}) :
         loggers[n].appenders = <<>> /\ loggers[n].level \in {DEBUG, Silent}

\* If no other appender has had the file open since a file appender opened it
\* last, the file and the stream's buffer hold what the appender wrote in the
\* second of its last event, all of it and in that order; what it wrote in
\* earlier seconds is gone.  Two appenders of one file empty it and write over
\* each other.
FileHoldsSecond ==
  \A a \in DOMAIN stream :
    LET r == stream[a]
        n == Len(r.wrote)
    IN r.alone =>
         \E k \in 0 .. n :
           /\ file[r.file] \o r.buf = SubSeq(r.wrote, k + 1, n)
           /\ \A i \in 1 .. n : i > k <=> r.wrote[i].sec = r.wrote[n].sec

\* The items of a LogFormatter without error spell its pattern, if the pattern
\* has no "%%", which init takes apart, and no "{}".
PatternSpelled ==
  ~scratch.error /\ ~HasPart(scratch.pattern, <<Percent, Percent>>) /\ ~HasPart(scratch.pattern, <<Open, Close>>)
    => Written(scratch.items) = scratch.pattern
=============================================================================
