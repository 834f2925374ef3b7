-------------------------------- MODULE SyncLogger --------------------------------
(***************************************************************************)
(* Logger, LineLogger, LogMessage and BaseSink::Log                        *)
(* (src/common/log/logger_impl.h, line_logger.h, log_message.h,            *)
(* sinks/base_sink.h): threads that log through loggers that share sinks.  *)
(*                                                                         *)
(* A log statement builds a LineLogger inside the logger ("local"), moves  *)
(* it to the caller ("line"), streams into it, and destroys it at the end  *)
(* of the statement; the destructor formats the message and hands it to    *)
(* every sink under the lock of that sink.                                 *)
(***************************************************************************)
EXTENDS Integers, Sequences, FiniteSets

CONSTANTS
  Threads,
  Loggers,
  Sinks,
  SinksOf,       \* sinks_: the sinks of every logger, in their order
  Styles,        \* the call styles used: "stream", "message", "format", "force"
  MessageLevels, \* levels of log statements
  LoggerLevels,  \* levels given to set_level; a logger starts at kInfo
  MaxCalls,      \* bound: log statements of every thread
  MaxSets,       \* bound: calls of set_level, set_formatter and set_pattern
  MaxFaults      \* bound: exceptions of formatters and sinks

kInfo == 2
kOff == 7
Level == 0..kOff

ASSUME ParameterAssumption ==
  /\ SinksOf \in [Loggers -> Seq(Sinks)]
  /\ Styles \subseteq {"stream", "message", "format", "force"}
  /\ MessageLevels \subseteq Level /\ LoggerLevels \subseteq Level
  /\ MaxCalls \in [Threads -> Nat]
  /\ {MaxSets, MaxFaults} \subseteq Nat

VARIABLES
  level,      \* level_ of every logger
  formatter,  \* formatter_ of every logger: how many it had before
  pc,         \* where a thread is in its log statement
  style,      \* the call style of its statement
  logger,     \* callback_logger_ of its statement
  local,      \* the LineLogger inside the logger's function
  line,       \* the LineLogger of the caller
  dying,      \* which of the two is being destroyed
  format,     \* the formatter of the message a thread is logging
  next,       \* index of the sink _LogMsg hands the message to
  threw,      \* a SimpleException is on its way to the caller
  holder,     \* mutex_ of every sink: the threads that have it
  out,        \* what every sink was given
  said,       \* history: level, text and permission of every statement
  terminated, \* std::terminate was called
  sets, faults

loggerVars == <<level, formatter>>
controlVars == <<pc, style, logger, dying, format, next, threw>>
objectVars == <<local, line>>
sinkVars == <<holder, out>>
boundVars == <<sets, faults>>
vars == <<loggerVars, controlVars, objectVars, sinkVars, said, terminated, boundVars>>

Part == {"head", "half", "tail"}
Object == [level : Level, text : Seq(Part), enabled : BOOLEAN]
NewLine(l, e) == [level |-> l, text |-> <<>>, enabled |-> e]
None == NewLine(kOff, FALSE)

Init ==
  /\ level = [g \in Loggers |-> kInfo]
  /\ formatter = [g \in Loggers |-> 0]
  /\ pc = [t \in Threads |-> "idle"]
  /\ style = [t \in Threads |-> "stream"]
  /\ logger = [t \in Threads |-> CHOOSE g \in Loggers : TRUE]
  /\ local = [t \in Threads |-> None]
  /\ line = [t \in Threads |-> None]
  /\ dying = [t \in Threads |-> "line"]
  /\ format = [t \in Threads |-> 0]
  /\ next = [t \in Threads |-> 1]
  /\ threw = [t \in Threads |-> FALSE]
  /\ holder = [s \in Sinks |-> {}]
  /\ out = [s \in Sinks |-> <<>>]
  /\ said = [t \in Threads |-> <<>>]
  /\ terminated = FALSE /\ sets = 0 /\ faults = 0

Goto(t, l) == pc' = [pc EXCEPT ![t] = l]
CallOf(t) == Len(said[t])

-----------------------------------------------------------------------------
(* The logger's side of a statement                                        *)

ShouldLog(g, l) == l >= level[g]

\* trace() ... critical() and ForceLog.
Call(t, g, l, y) ==
  /\ pc[t] = "idle"
  /\ CallOf(t) < MaxCalls[t]
  /\ LET e == y = "force" \/ ShouldLog(g, l)
     IN  /\ local' = [local EXCEPT ![t] = NewLine(l, e)]
         /\ said' = [said EXCEPT ![t] =
              Append(@, [logger |-> g, level |-> l, text |-> <<>>, enabled |-> e])]
  /\ logger' = [logger EXCEPT ![t] = g]
  /\ style' = [style EXCEPT ![t] = y]
  /\ Goto(t, IF y = "stream" THEN "return" ELSE "write")
  /\ UNCHANGED <<loggerVars, line, dying, format, next, threw, sinkVars, terminated, boundVars>>

\* operator<< and write: a disabled LineLogger takes nothing.
Put(o, p) == IF o.enabled THEN [o EXCEPT !.text = Append(@, p)] ELSE o

Say(t, p) == said' = [said EXCEPT ![t][CallOf(t)] = Put(@, p)]

\* The first piece of text.  "format" falls off the end of a function that
\* returns a LineLogger: its local is destroyed like any other.
WriteText(t) ==
  /\ pc[t] = "write"
  /\ local' = [local EXCEPT ![t] = Put(@, "head")]
  /\ Say(t, "head")
  /\ IF style[t] = "format"
       THEN dying' = [dying EXCEPT ![t] = "local"] /\ Goto(t, "destroy")
       ELSE Goto(t, "return") /\ UNCHANGED dying
  /\ UNCHANGED <<loggerVars, style, logger, format, next, threw, line, sinkVars, terminated, boundVars>>

\* write throws a SimpleException after a FormatError: the local, with the text
\* formatted so far, is destroyed on the way out.
WriteThrows(t) ==
  /\ pc[t] = "write"
  /\ style[t] \in {"format", "force"}
  /\ local[t].enabled
  /\ local' = [local EXCEPT ![t] = Put(@, "half")]
  /\ Say(t, "half")
  /\ threw' = [threw EXCEPT ![t] = TRUE]
  /\ dying' = [dying EXCEPT ![t] = "local"]
  /\ Goto(t, "destroy")
  /\ UNCHANGED <<loggerVars, style, logger, format, next, line, sinkVars, terminated, boundVars>>

\* What the move constructor leaves behind.
MovedFrom == None

\* return logger: the copy is elided, or the move constructor runs and the local
\* is destroyed.
Elide(t) ==
  /\ line' = [line EXCEPT ![t] = local[t]]
  /\ local' = [local EXCEPT ![t] = None]
  /\ Goto(t, "caller")
  /\ UNCHANGED dying

\* Slip: the object moved from is not disabled.
MoveKeepsEnabled(t) ==
  /\ line' = [line EXCEPT ![t] = local[t]]
  /\ local' = [local EXCEPT ![t] = [MovedFrom EXCEPT !.enabled = local[t].enabled]]
  /\ dying' = [dying EXCEPT ![t] = "local"]
  /\ Goto(t, "destroy")

\* Slip: the level is read after the other message was cleared.
MoveAfterClear(t) ==
  /\ line' = [line EXCEPT ![t] = [local[t] EXCEPT !.level = MovedFrom.level]]
  /\ local' = [local EXCEPT ![t] = MovedFrom]
  /\ dying' = [dying EXCEPT ![t] = "local"]
  /\ Goto(t, "destroy")

Move(t) ==
  /\ line' = [line EXCEPT ![t] = local[t]]
  /\ local' = [local EXCEPT ![t] = MovedFrom]
  /\ dying' = [dying EXCEPT ![t] = "local"]
  /\ Goto(t, "destroy")

Return(t) ==
  /\ pc[t] = "return"
  /\ Elide(t) \/ Move(t)
  /\ UNCHANGED <<loggerVars, style, logger, format, next, threw, sinkVars, said, terminated, boundVars>>

-----------------------------------------------------------------------------
(* The caller's side                                                       *)

\* << after the call, at most one piece; then the end of the statement.
Stream(t) ==
  /\ pc[t] = "caller"
  /\ "tail" \notin {said[t][CallOf(t)].text[i] : i \in DOMAIN said[t][CallOf(t)].text}
  /\ line' = [line EXCEPT ![t] = Put(@, "tail")]
  /\ Say(t, "tail")
  /\ line[t].enabled
  /\ UNCHANGED <<loggerVars, controlVars, local, sinkVars, terminated, boundVars>>

EndStatement(t) ==
  /\ pc[t] = "caller"
  /\ dying' = [dying EXCEPT ![t] = "line"]
  /\ Goto(t, "destroy")
  /\ UNCHANGED <<loggerVars, style, logger, format, next, threw, objectVars, sinkVars, said, terminated, boundVars>>

-----------------------------------------------------------------------------
(* ~LineLogger, Logger::_LogMsg and BaseSink::Log                          *)

Dying(t) == IF dying[t] = "local" THEN local[t] ELSE line[t]
Target(t) == SinksOf[logger[t]][next[t]]

\* The destructor is through: the object is gone, and an exception in flight is
\* with the caller.
Destroyed(t) ==
  /\ local' = IF dying[t] = "local" THEN [local EXCEPT ![t] = None] ELSE local
  /\ line' = IF dying[t] = "line" THEN [line EXCEPT ![t] = None] ELSE line
  /\ format' = [format EXCEPT ![t] = 0]
  /\ next' = [next EXCEPT ![t] = 1]
  /\ threw' = [threw EXCEPT ![t] = FALSE]
  /\ Goto(t, CASE dying[t] = "line" \/ threw[t] -> "idle"
               [] style[t] = "format" /\ dying[t] = "local" /\ ~threw[t] -> "garbage"
               [] OTHER -> "caller")

\* The destructor of a disabled LineLogger does nothing.
Destroy(t) ==
  /\ pc[t] = "destroy"
  /\ IF Dying(t).enabled
       THEN Goto(t, "format") /\ UNCHANGED <<objectVars, format, next, threw>>
       ELSE Destroyed(t)
  /\ UNCHANGED <<loggerVars, style, logger, dying, sinkVars, said, terminated, boundVars>>

\* The message is formatted once, for all sinks.
Format(t) ==
  /\ pc[t] = "format"
  /\ IF SinksOf[logger[t]] = <<>>
       THEN Destroyed(t)
       ELSE /\ format' = [format EXCEPT ![t] = formatter[logger[t]]]
            /\ Goto(t, "lock")
            /\ UNCHANGED <<objectVars, next, threw>>
  /\ UNCHANGED <<loggerVars, style, logger, dying, sinkVars, said, terminated, boundVars>>

\* Slip: no lock_guard.
LockNothing(t) ==
  /\ pc[t] = "lock"
  /\ Goto(t, "sink")
  /\ UNCHANGED <<loggerVars, style, logger, dying, format, next, threw, objectVars, sinkVars, said, terminated, boundVars>>

Lock(t) ==
  /\ pc[t] = "lock"
  /\ holder[Target(t)] = {}
  /\ holder' = [holder EXCEPT ![Target(t)] = {t}]
  /\ Goto(t, "sink")
  /\ UNCHANGED <<loggerVars, style, logger, dying, format, next, threw, objectVars, out, said, terminated, boundVars>>

Written(t) == [thread |-> t, call |-> CallOf(t),
               level |-> Dying(t).level, text |-> Dying(t).text,
               format |-> format[t]]

SinkIt(t) ==
  /\ pc[t] = "sink"
  /\ out' = [out EXCEPT ![Target(t)] = Append(@, Written(t))]
  /\ Goto(t, "unlock")
  /\ UNCHANGED <<loggerVars, style, logger, dying, format, next, threw, objectVars, holder, said, terminated, boundVars>>

\* An exception of the formatter or of a sink leaves _LogMsg and with it a destructor.
LogMsgThrows(t) ==
  /\ pc[t] \in {"format", "sink"}
  /\ faults < MaxFaults
  /\ faults' = faults + 1
  /\ terminated' = TRUE
  /\ UNCHANGED <<loggerVars, controlVars, objectVars, sinkVars, said, sets>>

\* Slip: one sink too many.
NextSinkTooFar(t) ==
  /\ IF next[t] <= Len(SinksOf[logger[t]])
       THEN /\ next' = [next EXCEPT ![t] = @ + 1]
            /\ Goto(t, "lock")
            /\ UNCHANGED <<objectVars, format, threw>>
       ELSE Destroyed(t)
  /\ UNCHANGED <<loggerVars, style, logger, dying, out, said, terminated, boundVars>>

NextSink(t) ==
  /\ IF next[t] < Len(SinksOf[logger[t]])
       THEN /\ next' = [next EXCEPT ![t] = @ + 1]
            /\ Goto(t, "lock")
            /\ UNCHANGED <<objectVars, format, threw>>
       ELSE Destroyed(t)
  /\ UNCHANGED <<loggerVars, style, logger, dying, out, said, terminated, boundVars>>

\* Slip: the locks are kept until the message is in every sink.
UnlockAtEnd(t) ==
  /\ pc[t] = "unlock"
  /\ holder' = IF next[t] < Len(SinksOf[logger[t]])
                 THEN holder ELSE [s \in Sinks |-> holder[s] \ {t}]
  /\ NextSink(t)

Unlock(t) ==
  /\ pc[t] = "unlock"
  /\ holder' = [holder EXCEPT ![Target(t)] = {}]
  /\ NextSink(t)

\* The LineLogger that was never returned is destroyed: what enabled_ is decides
\* whether that does nothing or follows a wild pointer.
DestroyGarbage(t) ==
  /\ pc[t] = "garbage"
  /\ Goto(t, "idle")
  /\ terminated' \in BOOLEAN
  /\ UNCHANGED <<loggerVars, style, logger, dying, format, next, threw, objectVars, sinkVars, said, boundVars>>

-----------------------------------------------------------------------------

SetLevel(g, l) ==
  /\ sets < MaxSets
  /\ sets' = sets + 1
  /\ level' = [level EXCEPT ![g] = l]
  /\ UNCHANGED <<formatter, controlVars, objectVars, sinkVars, said, terminated, faults>>

\* set_formatter and set_pattern replace the pointer without a lock: a formatter
\* that nobody else keeps dies while a thread is in its format().
SetFormatter(g) ==
  /\ sets < MaxSets
  /\ sets' = sets + 1
  /\ formatter' = [formatter EXCEPT ![g] = @ + 1]
  /\ \/ UNCHANGED terminated
     \/ /\ \E t \in Threads : pc[t] = "format" /\ logger[t] = g
        /\ terminated' = TRUE
  /\ UNCHANGED <<level, controlVars, objectVars, sinkVars, said, faults>>

\* What a thread does on its own once it is in a statement.
Step(t) ==
  \/ WriteText(t) \/ WriteThrows(t) \/ Return(t) \/ EndStatement(t)
  \/ Destroy(t) \/ Format(t) \/ Lock(t) \/ SinkIt(t) \/ Unlock(t) \/ DestroyGarbage(t)

Finished == /\ \A t \in Threads : pc[t] = "idle" /\ CallOf(t) = MaxCalls[t]
            /\ UNCHANGED vars

Next ==
  \/ /\ ~terminated
     /\ \/ \E t \in Threads, g \in Loggers, l \in MessageLevels, y \in Styles : Call(t, g, l, y)
        \/ \E t \in Threads : Step(t) \/ Stream(t) \/ LogMsgThrows(t)
        \/ \E g \in Loggers, l \in LoggerLevels : SetLevel(g, l)
        \/ \E g \in Loggers : SetFormatter(g)
  \/ terminated /\ UNCHANGED vars
  \/ Finished

\* A thread in a statement is scheduled in the end.
Fairness == \A t \in Threads : WF_vars(~terminated /\ Step(t))

Spec == Init /\ [][Next]_vars
FairSpec == Spec /\ Fairness

-----------------------------------------------------------------------------
(* Properties                                                              *)

Calls == UNION {{t} \X (1..CallOf(t)) : t \in Threads}
Over(t, n) == n < CallOf(t) \/ pc[t] = "idle"
Entries(s, t, n) == {i \in DOMAIN out[s] : out[s][i].thread = t /\ out[s][i].call = n}

\* Every variable has its type.
TypeOK ==
  /\ level \in [Loggers -> Level]
  /\ formatter \in [Loggers -> 0..MaxSets] /\ format \in [Threads -> 0..MaxSets]
  /\ pc \in [Threads -> {"idle", "write", "return", "caller", "destroy", "format",
                         "lock", "sink", "unlock", "garbage"}]
  /\ style \in [Threads -> {"stream", "message", "format", "force"}]
  /\ logger \in [Threads -> Loggers]
  /\ local \in [Threads -> Object] /\ line \in [Threads -> Object]
  /\ dying \in [Threads -> {"local", "line"}]
  /\ \A t \in Threads : next[t] = 1 \/ next[t] \in DOMAIN SinksOf[logger[t]]
  /\ threw \in [Threads -> BOOLEAN]
  /\ holder \in [Sinks -> SUBSET Threads]
  /\ out \in [Sinks -> Seq([thread : Threads, call : Nat, level : Level, text : Seq(Part), format : 0..MaxSets])]
  /\ said \in [Threads -> Seq([logger : Loggers, level : Level, text : Seq(Part), enabled : BOOLEAN])]
  /\ terminated \in BOOLEAN

\* A statement that is over is in every sink of its logger exactly once if it was
\* enabled when it began and in no sink if it was not, however its LineLogger was
\* moved, whether or not it threw, and whatever the level of the logger is by now.
WrittenOnce ==
  \A c \in Calls, s \in Sinks :
    LET w == said[c[1]][c[2]]
        to == \E i \in DOMAIN SinksOf[w.logger] : SinksOf[w.logger][i] = s
        n == Cardinality(Entries(s, c[1], c[2]))
    IN  /\ n <= IF w.enabled /\ to THEN 1 ELSE 0
        /\ Over(c[1], c[2]) /\ w.enabled /\ to /\ ~terminated => n = 1

\* A message reaches every sink with the level of its statement and all the text
\* the caller put in, before and after the LineLogger changed hands, and all its
\* sinks show it in one format.
WrittenAsSaid ==
  \A s \in Sinks : \A i \in DOMAIN out[s] :
    LET r == out[s][i]
        w == said[r.thread][r.call]
    IN  /\ r.level = w.level /\ r.text = w.text
        /\ \A u \in Sinks : \A j \in Entries(u, r.thread, r.call) : out[u][j] = r

\* "no locking needed by the implementators" (base_sink.h:34): two threads are
\* never in SinkIt of one sink.
NoOverlap ==
  \A t, u \in Threads :
    t # u /\ pc[t] = "sink" /\ pc[u] = "sink" => Target(t) # Target(u)

\* Loggers with the same sinks in different orders do not block each other: every
\* statement comes to its end.
CallsReturn == \A t \in Threads : pc[t] # "idle" ~> (pc[t] = "idle" \/ terminated)
=============================================================================
