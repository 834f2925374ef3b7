--------------------------- MODULE SyncLoggerProofs ---------------------------
(***************************************************************************)
(* Theorems about SyncLogger, for every number of threads, loggers and     *)
(* sinks, every assignment of sinks to loggers and every bound.            *)
(***************************************************************************)
EXTENDS SyncLogger, FiniteSetTheorems, SequenceTheorems, TLAPS

-----------------------------------------------------------------------------
(* The inductive invariant                                                 *)

\* The counters behind the types: a formatter is as new as the calls that set
\* one, and a thread is at its first sink unless it is handing a message around.
Counters ==
  /\ sets \in 0..MaxSets /\ faults \in 0..MaxFaults
  /\ \A g \in Loggers : formatter[g] <= sets
  /\ next \in [Threads -> Nat]
  /\ \A t \in Threads :
       IF pc[t] \in {"lock", "sink", "unlock"}
         THEN next[t] \in DOMAIN SinksOf[logger[t]]
         ELSE next[t] = 1

Current(t) == said[t][CallOf(t)]
Holds(o, w) == o.level = w.level /\ o.text = w.text /\ o.enabled = w.enabled

\* The destructor that is running is the last of its statement: what it does not
\* write is not written.
Last(t) == dying[t] = "local" => threw[t] \/ style[t] = "format"

\* What the caller said is in one LineLogger, and which one follows from where
\* the thread is; another one may be there to be destroyed, and is disabled.
CarriedBy(t) ==
  /\ pc[t] # "idle" => CallOf(t) > 0 /\ Current(t).logger = logger[t]
  /\ pc[t] \in {"write", "return"} => Holds(local[t], Current(t))
  /\ pc[t] = "caller" => Holds(line[t], Current(t))
  /\ pc[t] \in {"return", "caller"} => style[t] # "format"
  /\ pc[t] \notin {"destroy", "format", "lock", "sink", "unlock"} => ~threw[t]
  /\ pc[t] = "destroy" =>
       \/ Last(t) /\ Holds(Dying(t), Current(t))
       \/ ~Last(t) /\ ~local[t].enabled /\ Holds(line[t], Current(t))
  /\ pc[t] \in {"format", "lock", "sink", "unlock"} =>
       Last(t) /\ Holds(Dying(t), Current(t)) /\ Current(t).enabled
Carried == \A t \in Threads : CarriedBy(t)

\* A thread that is in a sink, or was and has not left, has its lock alone.
Locked ==
  \A t \in Threads : pc[t] \in {"sink", "unlock"} => holder[Target(t)] = {t}

\* A line in a sink is of a statement that was made, with its level and text;
\* if the statement is still running its text is complete, and the line is in
\* the format the thread is using.
GoodLine(r) ==
  /\ r.call \in 1..CallOf(r.thread)
  /\ r.level = said[r.thread][r.call].level
  /\ r.text = said[r.thread][r.call].text
  /\ r.call = CallOf(r.thread) =>
       /\ pc[r.thread] \in {"lock", "sink", "unlock", "garbage", "idle"}
       /\ pc[r.thread] \in {"lock", "sink", "unlock"} => r.format = format[r.thread]

\* Every line in a sink is like that, and all lines of a statement are the same.
Recorded ==
  /\ \A s \in Sinks : \A i \in DOMAIN out[s] : GoodLine(out[s][i])
  /\ \A s, u \in Sinks : \A i \in DOMAIN out[s], j \in DOMAIN out[u] :
       out[s][i].thread = out[u][j].thread /\ out[s][i].call = out[u][j].call
         => out[s][i] = out[u][j]

IInv == TypeOK /\ Counters /\ Carried /\ Locked /\ Recorded

\* No logger has one sink twice.
SinksDiffer ==
  \A g \in Loggers : \A i, j \in DOMAIN SinksOf[g] : SinksOf[g][i] = SinksOf[g][j] => i = j

\* How many of the logger's sinks the last statement of t has been through, and
\* how many the n-th has.
Far(t) ==
  IF pc[t] \in {"idle", "garbage"} THEN Len(SinksOf[Current(t).logger])
  ELSE IF pc[t] \in {"lock", "sink"} THEN next[t] - 1
  ELSE IF pc[t] = "unlock" THEN next[t]
  ELSE 0
Reached(t, n) == IF n < CallOf(t) THEN Len(SinksOf[said[t][n].logger]) ELSE Far(t)

\* A sink has exactly one line of a statement that was enabled and has been
\* through it, and none of any other.
Given(t, n, s) ==
  said[t][n].enabled /\ \E i \in 1..Reached(t, n) : SinksOf[said[t][n].logger][i] = s
OnceIn(t, n, s) ==
  IF Given(t, n, s) THEN \E k : Entries(s, t, n) = {k} ELSE Entries(s, t, n) = {}
Once == \A t \in Threads : \A n \in 1..CallOf(t) : \A s \in Sinks : OnceIn(t, n, s)

-----------------------------------------------------------------------------
(* Facts about the operators                                               *)

\* The record of a statement in said.
Statement == [logger : Loggers, level : Level, text : Seq(Part), enabled : BOOLEAN]

\* Where a thread can be in a statement.
Places == {"idle", "write", "return", "caller", "destroy", "format", "lock", "sink", "unlock",
           "garbage"}

\* What a sink is given.
Record == [thread : Threads, call : Nat, level : Level, text : Seq(Part), format : 0..MaxSets]

\* What the constants are.
LEMMA BoundTypes ==
  /\ SinksOf \in [Loggers -> Seq(Sinks)]
  /\ MessageLevels \subseteq Level /\ LoggerLevels \subseteq Level
  /\ Styles \subseteq {"stream", "message", "format", "force"}
  /\ MaxSets \in Nat /\ MaxFaults \in Nat /\ kInfo \in Level /\ kOff \in Level
BY ParameterAssumption DEF kInfo, kOff, Level

\* A piece of text changes the text of an enabled object and nothing else.
LEMMA PutObject ==
  ASSUME NEW o \in Object, NEW p \in Part
  PROVE  /\ Put(o, p) \in Object
         /\ Put(o, p).level = o.level /\ Put(o, p).enabled = o.enabled
         /\ Put(o, p).text = IF o.enabled THEN Append(o.text, p) ELSE o.text
<1>1. Append(o.text, p) \in Seq(Part)
  BY DEF Object
<1> QED
  BY <1>1 DEF Put, Object

\* A part of a line is appended to a statement whose level is enabled.
LEMMA PutStatement ==
  ASSUME NEW w \in Statement, NEW p \in Part
  PROVE  /\ Put(w, p) \in Statement
         /\ Put(w, p).logger = w.logger
         /\ Put(w, p).level = w.level /\ Put(w, p).enabled = w.enabled
         /\ Put(w, p).text = IF w.enabled THEN Append(w.text, p) ELSE w.text
<1>1. Append(w.text, p) \in Seq(Part)
  BY DEF Statement
<1> QED
  BY <1>1 DEF Put, Statement

\* The same piece put into an object and into the record it holds leaves them alike.
LEMMA PutHolds ==
  ASSUME NEW o \in Object, NEW w \in Statement, NEW p \in Part, Holds(o, w)
  PROVE  Holds(Put(o, p), Put(w, p))
BY PutObject, PutStatement DEF Holds

\* Say changes the last statement of its thread.
LEMMA SaySays ==
  ASSUME said \in [Threads -> Seq(Statement)],
         NEW t \in Threads, NEW p \in Part, CallOf(t) > 0, Say(t, p)
  PROVE  /\ said' \in [Threads -> Seq(Statement)]
         /\ \A u \in Threads : CallOf(u)' = CallOf(u)
         /\ said'[t][CallOf(t)] = Put(Current(t), p)
         /\ \A u \in Threads \ {t} : said'[u] = said[u]
         /\ \A u \in Threads : \A n \in 1..CallOf(u) :
              u # t \/ n # CallOf(t) => said'[u][n] = said[u][n]
<1> DEFINE e == Put(Current(t), p)
<1>1. said[t] \in Seq(Statement) /\ CallOf(t) \in 1..Len(said[t])
  BY DEF CallOf
<1>2. Current(t) \in Statement
  BY <1>1, ElementOfSeq DEF Current
<1>3. e \in Statement
  BY <1>2, PutStatement
<1>4. said' = [said EXCEPT ![t] = [said[t] EXCEPT ![CallOf(t)] = e]]
  BY DEF Say, Current
<1> HIDE DEF e
<1>5. /\ [said[t] EXCEPT ![CallOf(t)] = e] \in Seq(Statement)
      /\ Len([said[t] EXCEPT ![CallOf(t)] = e]) = Len(said[t])
      /\ \A j \in 1..Len(said[t]) :
           [said[t] EXCEPT ![CallOf(t)] = e][j] = IF j = CallOf(t) THEN e ELSE said[t][j]
  BY <1>1, <1>3, ExceptSeq
<1>6. /\ said'[t] \in Seq(Statement) /\ Len(said'[t]) = Len(said[t])
      /\ \A j \in 1..Len(said[t]) : said'[t][j] = IF j = CallOf(t) THEN e ELSE said[t][j]
      /\ \A u \in Threads \ {t} : said'[u] = said[u]
      /\ said' \in [Threads -> Seq(Statement)]
  BY <1>4, <1>5
<1>7. \A u \in Threads : CallOf(u)' = CallOf(u)
  BY <1>6 DEF CallOf
<1>8. said'[t][CallOf(t)] = e
  BY <1>1, <1>6
<1>9. ASSUME NEW u \in Threads, NEW n \in 1..CallOf(u), u # t \/ n # CallOf(t)
      PROVE  said'[u][n] = said[u][n]
  BY <1>6, <1>9 DEF CallOf
<1> QED
  BY <1>6, <1>7, <1>8, <1>9 DEF e

\* What a destructor does to the variables of its thread, and only to them.
LEMMA DestroyedTypes ==
  ASSUME TypeOK, Counters, NEW t \in Threads, Destroyed(t)
  PROVE  /\ local' \in [Threads -> Object] /\ line' \in [Threads -> Object]
         /\ format' \in [Threads -> 0..MaxSets] /\ threw' \in [Threads -> BOOLEAN]
         /\ pc' \in [Threads -> {"idle", "write", "return", "caller", "destroy", "format",
                                 "lock", "sink", "unlock", "garbage"}]
         /\ next' \in [Threads -> Nat] /\ next'[t] = 1 /\ ~threw'[t]
         /\ pc'[t] \in {"idle", "garbage", "caller"}
         /\ pc'[t] = "caller" => ~Last(t) /\ line' = line
         /\ \A u \in Threads \ {t} :
              /\ local'[u] = local[u] /\ line'[u] = line[u] /\ format'[u] = format[u]
              /\ threw'[u] = threw[u] /\ next'[u] = next[u] /\ pc'[u] = pc[u]
<1> USE BoundTypes
<1>1. None \in Object
  BY DEF None, NewLine, Object
<1>2. /\ local' \in [Threads -> Object] /\ line' \in [Threads -> Object]
      /\ \A u \in Threads \ {t} : local'[u] = local[u] /\ line'[u] = line[u]
  BY <1>1 DEF TypeOK, Destroyed
<1>3. /\ format' \in [Threads -> 0..MaxSets] /\ threw' \in [Threads -> BOOLEAN] /\ ~threw'[t]
      /\ \A u \in Threads \ {t} : format'[u] = format[u] /\ threw'[u] = threw[u]
  BY DEF TypeOK, Destroyed
<1>4. next' \in [Threads -> Nat] /\ next'[t] = 1 /\ \A u \in Threads \ {t} : next'[u] = next[u]
  BY DEF Counters, Destroyed
<1>5. PICK l \in {"idle", "garbage", "caller"} :
        pc' = [pc EXCEPT ![t] = l] /\ (l = "caller" => ~Last(t) /\ line' = line)
  BY DEF TypeOK, Destroyed, Goto, Last
<1>6. /\ pc' \in [Threads -> {"idle", "write", "return", "caller", "destroy", "format",
                              "lock", "sink", "unlock", "garbage"}]
      /\ pc'[t] = l /\ \A u \in Threads \ {t} : pc'[u] = pc[u]
  BY <1>5 DEF TypeOK
<1> QED
  BY <1>2, <1>3, <1>4, <1>5, <1>6

-----------------------------------------------------------------------------
(* Types                                                                   *)

\* A step of a log statement keeps the types: each action at a time.
LEMMA StatementTypes ==
  ASSUME TypeOK, Counters, Carried, NEW t \in Threads,
         \/ \E g \in Loggers, l \in MessageLevels, y \in Styles : Call(t, g, l, y)
         \/ Step(t) \/ Stream(t) \/ LogMsgThrows(t)
  PROVE  TypeOK' /\ Counters'
<1> USE BoundTypes
<1>0. /\ said \in [Threads -> Seq(Statement)]
      /\ \A p \in Part : Put(local[t], p) \in Object /\ Put(line[t], p) \in Object
  <2>1. local[t] \in Object /\ line[t] \in Object
    BY DEF TypeOK
  <2> QED
    BY <2>1, PutObject DEF TypeOK, Statement
<1>1. ASSUME NEW g \in Loggers, NEW l \in MessageLevels, NEW y \in Styles, Call(t, g, l, y)
      PROVE  TypeOK' /\ Counters'
  <2>1. PICK e \in BOOLEAN :
          /\ local' = [local EXCEPT ![t] = NewLine(l, e)]
          /\ said' = [said EXCEPT ![t] =
               Append(@, [logger |-> g, level |-> l, text |-> <<>>, enabled |-> e])]
    BY <1>1 DEF Call, ShouldLog
  <2>2. NewLine(l, e) \in Object
    BY DEF NewLine, Object
  <2>3. [logger |-> g, level |-> l, text |-> <<>>, enabled |-> e] \in Statement
    BY DEF Statement
  <2>4. local' \in [Threads -> Object] /\ said' \in [Threads -> Seq(Statement)]
    BY <1>0, <2>1, <2>2, <2>3 DEF TypeOK
  <2>5. /\ pc[t] = "idle" /\ next[t] = 1 /\ UNCHANGED next
        /\ logger' = [logger EXCEPT ![t] = g] /\ style' = [style EXCEPT ![t] = y]
        /\ UNCHANGED <<level, formatter, line, dying, format, threw, holder, out, terminated,
                       sets, faults>>
    BY <1>1 DEF Call, Goto, Counters, loggerVars, sinkVars, boundVars
  <2>8. PICK a \in {"return", "write"} : pc' = [pc EXCEPT ![t] = a]
    BY <1>1 DEF Call, Goto
  <2>9. /\ pc' \in [Threads -> Places] /\ logger' \in [Threads -> Loggers]
        /\ style' \in [Threads -> {"stream", "message", "format", "force"}]
    BY <2>5, <2>8 DEF TypeOK, Places
  <2>6. Counters'
    BY <2>5, <2>8 DEF Counters, TypeOK
  <2>7. \A u \in Threads : next'[u] = 1 \/ next'[u] \in DOMAIN SinksOf[logger'[u]]
    BY <2>5 DEF TypeOK
  <2> QED
    BY <2>4, <2>5, <2>6, <2>7, <2>9 DEF TypeOK, Statement, Places
<1>2. CASE WriteText(t)
  <2>1. CallOf(t) > 0 /\ "head" \in Part /\ Say(t, "head")
    BY <1>2 DEF WriteText, Carried, CarriedBy, Part
  <2>2. said' \in [Threads -> Seq(Statement)]
    BY <1>0, <2>1, SaySays
  <2>3. local' \in [Threads -> Object]
    BY <1>0, <1>2, <2>1 DEF WriteText, TypeOK
  <2>4. PICK l \in {"destroy", "return"} : pc' = [pc EXCEPT ![t] = l]
    BY <1>2 DEF WriteText, Goto
  <2>5. dying' \in [Threads -> {"local", "line"}]
    BY <1>2 DEF WriteText, TypeOK
  <2>6. /\ UNCHANGED <<level, formatter, style, logger, format, next, threw, line, holder, out,
                       terminated, sets, faults>>
        /\ pc[t] = "write"
    BY <1>2 DEF WriteText, loggerVars, sinkVars, boundVars
  <2>7. Counters'
    BY <2>4, <2>6 DEF Counters, TypeOK
  <2>8. pc' \in [Threads -> Places]
    BY <2>4 DEF TypeOK, Places
  <2> QED
    BY <2>2, <2>3, <2>5, <2>6, <2>7, <2>8 DEF TypeOK, Statement, Places
<1>3. CASE WriteThrows(t)
  <2>1. CallOf(t) > 0 /\ "half" \in Part /\ Say(t, "half")
    BY <1>3 DEF WriteThrows, Carried, CarriedBy, Part
  <2>2. said' \in [Threads -> Seq(Statement)]
    BY <1>0, <2>1, SaySays
  <2>3. local' \in [Threads -> Object]
    BY <1>0, <1>3, <2>1 DEF WriteThrows, TypeOK
  <2>4. /\ pc' = [pc EXCEPT ![t] = "destroy"] /\ pc[t] = "write"
        /\ dying' = [dying EXCEPT ![t] = "local"] /\ threw' = [threw EXCEPT ![t] = TRUE]
        /\ UNCHANGED <<level, formatter, style, logger, format, next, line, holder, out,
                       terminated, sets, faults>>
    BY <1>3 DEF WriteThrows, Goto, loggerVars, sinkVars, boundVars
  <2>5. Counters'
    BY <2>4 DEF Counters, TypeOK
  <2> QED
    BY <2>2, <2>3, <2>4, <2>5 DEF TypeOK, Statement
<1>4. CASE Return(t)
  <2>1. None \in Object /\ MovedFrom \in Object /\ local[t] \in Object
    BY DEF None, NewLine, Object, MovedFrom, TypeOK
  <2>2. local' = [local EXCEPT ![t] = None] /\ line' = [line EXCEPT ![t] = local[t]]
    BY <1>4 DEF Return, Elide, Move, MovedFrom
  <2>6. local' \in [Threads -> Object] /\ line' \in [Threads -> Object]
    BY <2>1, <2>2 DEF TypeOK
  <2>3. dying' \in [Threads -> {"local", "line"}]
    BY <1>4 DEF Return, Elide, Move, TypeOK
  <2>4. PICK l \in {"destroy", "caller"} :
        /\ pc' = [pc EXCEPT ![t] = l]
        /\ pc[t] = "return"
        /\ UNCHANGED <<level, formatter, style, logger, format, next, threw, holder, out, said,
                       terminated, sets, faults>>
    BY <1>4 DEF Return, Elide, Move, Goto, loggerVars, sinkVars, boundVars
  <2>5. Counters'
    BY <2>4 DEF Counters, TypeOK
  <2>7. pc' \in [Threads -> Places]
    BY <2>4 DEF TypeOK, Places
  <2> QED
    BY <2>3, <2>4, <2>5, <2>6, <2>7 DEF TypeOK, Places
<1>5. CASE Stream(t)
  <2>1. CallOf(t) > 0 /\ "tail" \in Part /\ Say(t, "tail")
    BY <1>5 DEF Stream, Carried, CarriedBy, Part
  <2>2. said' \in [Threads -> Seq(Statement)]
    BY <1>0, <2>1, SaySays
  <2>3. line' \in [Threads -> Object]
    BY <1>0, <1>5, <2>1 DEF Stream, TypeOK
  <2>4. UNCHANGED <<level, formatter, pc, style, logger, dying, format, next, threw, local,
                    holder, out, terminated, sets, faults>>
    BY <1>5 DEF Stream, loggerVars, controlVars, sinkVars, boundVars
  <2>5. Counters'
    BY <2>4 DEF Counters
  <2> QED
    BY <2>2, <2>3, <2>4, <2>5 DEF TypeOK, Statement
<1>6. CASE EndStatement(t)
  <2>1. /\ pc' = [pc EXCEPT ![t] = "destroy"] /\ pc[t] = "caller"
        /\ dying' = [dying EXCEPT ![t] = "line"]
        /\ UNCHANGED <<level, formatter, style, logger, format, next, threw, local, line,
                       holder, out, said, terminated, sets, faults>>
    BY <1>6 DEF EndStatement, Goto, loggerVars, objectVars, sinkVars, boundVars
  <2>2. Counters'
    BY <2>1 DEF Counters, TypeOK
  <2> QED
    BY <2>1, <2>2 DEF TypeOK
<1>7. CASE Destroy(t) \/ Format(t) \/ Unlock(t)
  <2>1. UNCHANGED <<level, formatter, style, logger, dying, out, said, terminated, sets, faults>>
    BY <1>7 DEF Destroy, Format, Unlock, NextSink, loggerVars, sinkVars, boundVars
  <2>2. holder' \in [Sinks -> SUBSET Threads]
    BY <1>7 DEF Destroy, Format, Unlock, sinkVars, TypeOK
  <2>3. CASE Destroyed(t)
    <3>1. /\ local' \in [Threads -> Object] /\ line' \in [Threads -> Object]
          /\ format' \in [Threads -> 0..MaxSets] /\ threw' \in [Threads -> BOOLEAN]
          /\ pc' \in [Threads -> Places]
      BY <2>3, DestroyedTypes DEF Places
    <3>2. /\ next' \in [Threads -> Nat] /\ next'[t] = 1
          /\ pc'[t] \in {"idle", "garbage", "caller"}
          /\ \A u \in Threads \ {t} : next'[u] = next[u] /\ pc'[u] = pc[u]
      BY <2>3, DestroyedTypes
    <3>3. Counters'
      BY <2>1, <3>2 DEF Counters
    <3>4. \A u \in Threads : next'[u] = 1 \/ next'[u] \in DOMAIN SinksOf[logger'[u]]
      BY <2>1, <3>2 DEF TypeOK
    <3> QED
      BY <2>1, <2>2, <3>1, <3>3, <3>4 DEF TypeOK, Places
  <2>4. CASE ~Destroyed(t)
    <3>1. /\ format' \in [Threads -> 0..MaxSets]
          /\ UNCHANGED <<local, line, threw>>
      BY <1>7, <2>4 DEF Destroy, Format, Unlock, NextSink, objectVars, TypeOK
    <3>2. \/ pc' = [pc EXCEPT ![t] = "format"] /\ pc[t] = "destroy" /\ UNCHANGED next
          \/ /\ pc' = [pc EXCEPT ![t] = "lock"] /\ pc[t] = "format"
             /\ SinksOf[logger[t]] # <<>> /\ UNCHANGED next
          \/ /\ pc' = [pc EXCEPT ![t] = "lock"] /\ pc[t] = "unlock"
             /\ next[t] < Len(SinksOf[logger[t]]) /\ next' = [next EXCEPT ![t] = @ + 1]
      BY <1>7, <2>4 DEF Destroy, Format, Unlock, NextSink, Goto
    <3>3. next[t] \in Nat /\ SinksOf[logger[t]] \in Seq(Sinks) /\ pc[t] \in {"destroy", "format", "unlock"}
      BY <3>2 DEF Counters, TypeOK
    <3>4. /\ next' \in [Threads -> Nat]
          /\ \A u \in Threads \ {t} : next'[u] = next[u] /\ pc'[u] = pc[u]
          /\ IF pc'[t] \in {"lock", "sink", "unlock"}
               THEN next'[t] \in DOMAIN SinksOf[logger'[t]] ELSE next'[t] = 1
      <4>1. CASE next' = next
        <5>1. next[t] = 1 /\ next \in [Threads -> Nat]
          BY <3>3, <3>2, <4>1 DEF Counters
        <5>2. pc'[t] = "lock" => 1 \in DOMAIN SinksOf[logger[t]]
          BY <3>2, <3>3, <4>1, <5>1 DEF TypeOK
        <5>3. pc'[t] \in {"format", "lock"} /\ \A u \in Threads \ {t} : pc'[u] = pc[u]
          BY <3>2 DEF TypeOK
        <5> QED
          BY <2>1, <4>1, <5>1, <5>2, <5>3
      <4>2. CASE next' # next
        <5>1. /\ pc' = [pc EXCEPT ![t] = "lock"] /\ next' = [next EXCEPT ![t] = @ + 1]
              /\ next[t] < Len(SinksOf[logger[t]])
          BY <3>2, <4>2
        <5>2. next[t] + 1 \in DOMAIN SinksOf[logger[t]]
          BY <3>3, <5>1
        <5> QED
          BY <2>1, <3>3, <5>1, <5>2 DEF Counters, TypeOK
      <4> QED
        BY <4>1, <4>2
    <3>5. Counters'
      BY <2>1, <3>4 DEF Counters
    <3>6. \A u \in Threads : next'[u] = 1 \/ next'[u] \in DOMAIN SinksOf[logger'[u]]
      BY <2>1, <3>4 DEF TypeOK
    <3>7. pc' \in [Threads -> Places]
      BY <3>2 DEF TypeOK, Places
    <3> QED
      BY <2>1, <2>2, <3>1, <3>5, <3>6, <3>7 DEF TypeOK, Places
  <2> QED
    BY <2>3, <2>4
<1>8. CASE Lock(t) \/ SinkIt(t)
  <2>1. UNCHANGED <<level, formatter, style, logger, dying, format, next, threw, local, line,
                    said, terminated, sets, faults>>
    BY <1>8 DEF Lock, SinkIt, loggerVars, objectVars, boundVars
  <2>2. /\ pc[t] \in {"lock", "sink"}
        /\ \E l \in {"sink", "unlock"} : pc' = [pc EXCEPT ![t] = l]
    BY <1>8 DEF Lock, SinkIt, Goto
  <2>3. Counters'
    BY <2>1, <2>2 DEF Counters, TypeOK
  <2>4. holder' \in [Sinks -> SUBSET Threads]
    <3>1. CASE Lock(t)
      <4>1. holder' = [holder EXCEPT ![Target(t)] = {t}] /\ {t} \in SUBSET Threads
        BY <3>1 DEF Lock
      <4> QED
        BY <4>1 DEF TypeOK
    <3>2. CASE SinkIt(t)
      BY <3>2 DEF SinkIt, TypeOK
    <3> QED
      BY <1>8, <3>1, <3>2
  <2>5. Written(t) \in Record
    <3>1. Dying(t) \in Object /\ format[t] \in 0..MaxSets
      BY DEF Dying, TypeOK
    <3>2. CallOf(t) \in Nat
      BY <1>0 DEF CallOf
    <3> QED
      BY <3>1, <3>2 DEF Written, Object, Record
  <2>6. out' \in [Sinks -> Seq(Record)]
    <3>1. CASE Lock(t)
      BY <3>1 DEF Lock, TypeOK, Record
    <3>2. CASE SinkIt(t)
      <4>1. out' = [out EXCEPT ![Target(t)] = Append(@, Written(t))]
        BY <3>2 DEF SinkIt
      <4>2. out \in [Sinks -> Seq(Record)]
        BY DEF TypeOK, Record
      <4>3. ASSUME NEW s \in Sinks
            PROVE  out'[s] \in Seq(Record)
        BY <2>5, <4>1, <4>2
      <4> QED
        BY <4>1, <4>2, <4>3
    <3> QED
      BY <1>8, <3>1, <3>2
  <2>7. pc' \in [Threads -> Places]
    BY <2>2 DEF TypeOK, Places
  <2> QED
    BY <2>1, <2>3, <2>4, <2>6, <2>7 DEF TypeOK, Places, Record
<1>9. CASE DestroyGarbage(t)
  <2>1. /\ pc' = [pc EXCEPT ![t] = "idle"] /\ pc[t] = "garbage" /\ terminated' \in BOOLEAN
        /\ UNCHANGED <<level, formatter, style, logger, dying, format, next, threw, local, line,
                       holder, out, said, sets, faults>>
    BY <1>9 DEF DestroyGarbage, Goto, loggerVars, objectVars, sinkVars, boundVars
  <2>2. Counters'
    BY <2>1 DEF Counters, TypeOK
  <2> QED
    BY <2>1, <2>2 DEF TypeOK
<1>10. CASE LogMsgThrows(t)
  <2>1. /\ faults' = faults + 1 /\ faults < MaxFaults /\ terminated' = TRUE
        /\ UNCHANGED <<level, formatter, pc, style, logger, dying, format, next, threw, local,
                       line, holder, out, said, sets>>
    BY <1>10 DEF LogMsgThrows, loggerVars, controlVars, objectVars, sinkVars
  <2>2. Counters'
    BY <2>1 DEF Counters
  <2> QED
    BY <2>1, <2>2 DEF TypeOK
<1> QED
  BY <1>1, <1>2, <1>3, <1>4, <1>5, <1>6, <1>7, <1>8, <1>9, <1>10 DEF Step

\* So does a call of set_level or set_formatter.
LEMMA SettingTypes ==
  ASSUME TypeOK, Counters,
         \/ \E g \in Loggers, l \in LoggerLevels : SetLevel(g, l)
         \/ \E g \in Loggers : SetFormatter(g)
  PROVE  TypeOK' /\ Counters'
<1> USE BoundTypes
<1>1. /\ sets' = sets + 1 /\ sets < MaxSets /\ terminated' \in BOOLEAN
      /\ UNCHANGED <<pc, style, logger, dying, format, next, threw, local, line, holder, out,
                     said, faults>>
  BY DEF SetLevel, SetFormatter, controlVars, objectVars, sinkVars, TypeOK
<1>2. level' \in [Loggers -> Level]
  BY DEF SetLevel, SetFormatter, TypeOK
<1>3. \A g \in Loggers : formatter'[g] \in {formatter[g], formatter[g] + 1}
  BY DEF SetLevel, SetFormatter, TypeOK
<1>4. formatter' \in [Loggers -> 0..MaxSets] /\ \A g \in Loggers : formatter'[g] <= sets'
  <2>1. DOMAIN formatter' = Loggers /\ formatter' = [g \in Loggers |-> formatter'[g]]
    BY DEF SetLevel, SetFormatter, TypeOK
  <2>2. ASSUME NEW g \in Loggers
        PROVE  formatter'[g] \in 0..MaxSets /\ formatter'[g] <= sets'
    <3>1. formatter[g] \in Nat /\ formatter[g] <= sets /\ sets \in Nat
      BY DEF Counters, TypeOK
    <3>2. formatter'[g] \in {formatter[g], formatter[g] + 1}
      BY <1>3
    <3> QED
      BY <1>1, <3>1, <3>2
  <2> QED
    BY <2>1, <2>2
<1>5. Counters'
  BY <1>1, <1>4 DEF Counters
<1> QED
  BY <1>1, <1>2, <1>4, <1>5 DEF TypeOK

-----------------------------------------------------------------------------
(* What a thread does to the others                                        *)

\* The variables of a thread's own statement do not change.
Same(u) ==
  /\ pc'[u] = pc[u] /\ style'[u] = style[u] /\ logger'[u] = logger[u]
  /\ local'[u] = local[u] /\ line'[u] = line[u] /\ dying'[u] = dying[u]
  /\ format'[u] = format[u] /\ next'[u] = next[u] /\ threw'[u] = threw[u]
  /\ said'[u] = said[u]

\* A step of one thread leaves the statements of the others as they are.
LEMMA OthersKeep ==
  ASSUME TypeOK, Counters, Carried, NEW t \in Threads,
         \/ \E g \in Loggers, l \in MessageLevels, y \in Styles : Call(t, g, l, y)
         \/ Step(t) \/ Stream(t) \/ LogMsgThrows(t)
  PROVE  \A u \in Threads \ {t} : Same(u)
<1> SUFFICES ASSUME NEW u \in Threads, u # t
             PROVE  Same(u)
  OBVIOUS
<1>0. /\ said \in [Threads -> Seq(Statement)]
      /\ {"head", "half", "tail"} \subseteq Part
      /\ pc[t] # "idle" => CallOf(t) > 0
  BY DEF TypeOK, Statement, Part, Carried, CarriedBy
<1>1. CASE \E g \in Loggers, l \in MessageLevels, y \in Styles : Call(t, g, l, y)
  BY <1>1 DEF Call, Goto, TypeOK, Same
<1>2. CASE WriteText(t)
  <2>1. said'[u] = said[u]
    BY <1>0, <1>2, SaySays DEF WriteText
  <2> QED
    BY <1>2, <2>1 DEF WriteText, Goto, TypeOK, Same
<1>3. CASE WriteThrows(t)
  <2>1. said'[u] = said[u]
    BY <1>0, <1>3, SaySays DEF WriteThrows
  <2> QED
    BY <1>3, <2>1 DEF WriteThrows, Goto, TypeOK, Same
<1>4. CASE Stream(t)
  <2>1. said'[u] = said[u]
    BY <1>0, <1>4, SaySays DEF Stream
  <2> QED
    BY <1>4, <2>1 DEF Stream, controlVars, TypeOK, Same
<1>5. CASE Return(t)
  BY <1>5 DEF Return, Elide, Move, Goto, TypeOK, Same
<1>6. CASE EndStatement(t)
  BY <1>6 DEF EndStatement, Goto, objectVars, TypeOK, Same
<1>7. CASE Destroy(t) \/ Format(t) \/ Unlock(t)
  <2>1. UNCHANGED <<style, logger, dying, said>>
    BY <1>7 DEF Destroy, Format, Unlock, NextSink
  <2>2. CASE Destroyed(t)
    BY <2>1, <2>2, DestroyedTypes DEF Same
  <2>3. CASE ~Destroyed(t)
    <3>1. /\ UNCHANGED <<local, line, threw>>
          /\ format'[u] = format[u] /\ next'[u] = next[u] /\ pc'[u] = pc[u]
      BY <1>7, <2>3 DEF Destroy, Format, Unlock, NextSink, Goto, objectVars, TypeOK, Counters
    <3> QED
      BY <2>1, <3>1 DEF Same
  <2> QED
    BY <2>2, <2>3
<1>8. CASE Lock(t) \/ SinkIt(t) \/ DestroyGarbage(t)
  BY <1>8 DEF Lock, SinkIt, DestroyGarbage, Goto, objectVars, TypeOK, Same
<1>9. CASE LogMsgThrows(t)
  BY <1>9 DEF LogMsgThrows, controlVars, objectVars, Same
<1> QED
  BY <1>1, <1>2, <1>3, <1>4, <1>5, <1>6, <1>7, <1>8, <1>9 DEF Step

\* What is said of a statement stays true while its thread does nothing.
LEMMA SameCarried ==
  ASSUME NEW u \in Threads, CarriedBy(u), Same(u)
  PROVE  CarriedBy(u)'
<1>1. CallOf(u)' = CallOf(u) /\ Current(u)' = Current(u)
  BY DEF Same, CallOf, Current
<1>2. Dying(u)' = Dying(u) /\ (Last(u)' <=> Last(u))
  BY DEF Same, Dying, Last
<1> QED
  BY <1>1, <1>2 DEF Same, CarriedBy

-----------------------------------------------------------------------------
(* What the caller said                                                    *)

\* What a thread carries of its statement is what its calls said.
LEMMA CarriedPreserved ==
  ASSUME TypeOK, Counters, Carried, NEW t \in Threads,
         \/ \E g \in Loggers, l \in MessageLevels, y \in Styles : Call(t, g, l, y)
         \/ Step(t) \/ Stream(t) \/ LogMsgThrows(t)
  PROVE  Carried'
<1> SUFFICES CarriedBy(t)'
  BY OthersKeep, SameCarried DEF Carried
<1> USE BoundTypes
<1>0. /\ said \in [Threads -> Seq(Statement)] /\ CallOf(t) \in Nat
      /\ pc[t] # "idle" => CallOf(t) > 0 /\ Current(t) \in Statement
      /\ local[t] \in Object /\ line[t] \in Object /\ CarriedBy(t)
      /\ {"head", "half", "tail"} \subseteq Part
  <2>1. said \in [Threads -> Seq(Statement)]
    BY DEF TypeOK, Statement
  <2>2. CallOf(t) \in Nat /\ (CallOf(t) > 0 => CallOf(t) \in 1..Len(said[t]))
    BY <2>1 DEF CallOf
  <2>3. CallOf(t) > 0 => Current(t) \in Statement
    BY <2>1, <2>2, ElementOfSeq DEF Current
  <2> QED
    BY <2>1, <2>2, <2>3 DEF Carried, CarriedBy, TypeOK, Part
<1>1. ASSUME NEW g \in Loggers, NEW l \in MessageLevels, NEW y \in Styles, Call(t, g, l, y)
      PROVE  CarriedBy(t)'
  <2>1. PICK e \in BOOLEAN :
          /\ local' = [local EXCEPT ![t] = NewLine(l, e)]
          /\ said' = [said EXCEPT ![t] =
               Append(@, [logger |-> g, level |-> l, text |-> <<>>, enabled |-> e])]
    BY <1>1 DEF Call, ShouldLog
  <2>2. [logger |-> g, level |-> l, text |-> <<>>, enabled |-> e] \in Statement
    BY DEF Statement
  <2>3. CallOf(t)' = CallOf(t) + 1
    BY <1>0, <2>1, <2>2 DEF CallOf
  <2>4. Current(t)' = [logger |-> g, level |-> l, text |-> <<>>, enabled |-> e]
    BY <1>0, <2>1, <2>2 DEF Current, CallOf
  <2>5. local'[t] = NewLine(l, e)
    BY <2>1 DEF TypeOK
  <2>6. Holds(local[t], Current(t))'
    BY <2>4, <2>5 DEF Holds, NewLine
  <2>7. /\ logger'[t] = g /\ pc'[t] \in {"return", "write"} /\ threw'[t] = threw[t]
        /\ pc'[t] = "return" => style'[t] = "stream"
        /\ pc[t] = "idle"
    BY <1>1 DEF Call, Goto, TypeOK
  <2> QED
    BY <1>0, <2>3, <2>4, <2>6, <2>7 DEF CarriedBy
<1>2. CASE WriteText(t) \/ WriteThrows(t)
  <2>1. PICK p \in Part : Say(t, p) /\ local' = [local EXCEPT ![t] = Put(@, p)]
    BY <1>0, <1>2 DEF WriteText, WriteThrows
  <2>2. pc[t] = "write" /\ Holds(local[t], Current(t)) /\ ~threw[t]
    BY <1>0, <1>2 DEF WriteText, WriteThrows, CarriedBy
  <2>3. CallOf(t)' = CallOf(t) /\ said'[t][CallOf(t)] = Put(Current(t), p)
    BY <1>0, <2>1, <2>2, SaySays
  <2>4. Current(t)' = Put(Current(t), p)
    BY <2>3 DEF Current
  <2>5. local'[t] = Put(local[t], p)
    BY <2>1 DEF TypeOK
  <2>6. Holds(local[t], Current(t))'
    <3>1. Holds(Put(local[t], p), Put(Current(t), p))
      BY <1>0, <2>1, <2>2, PutHolds
    <3> QED
      BY <2>4, <2>5, <3>1 DEF Holds
  <2>7. Current(t)'.logger = logger'[t]
    <3>1. Put(Current(t), p).logger = Current(t).logger
      BY <1>0, <2>1, <2>2, PutStatement
    <3>2. logger' = logger /\ Current(t).logger = logger[t]
      BY <1>0, <1>2, <2>2 DEF CarriedBy, WriteText, WriteThrows
    <3> QED
      BY <2>4, <3>1, <3>2
  <2>8. \/ /\ pc'[t] = "return" /\ style'[t] # "format" /\ threw'[t] = threw[t]
        \/ /\ pc'[t] = "destroy" /\ dying'[t] = "local"
           /\ threw'[t] \/ style'[t] = "format"
    BY <1>2 DEF WriteText, WriteThrows, Goto, TypeOK
  <2> QED
    BY <1>0, <2>2, <2>3, <2>6, <2>7, <2>8 DEF CarriedBy, Last, Dying
<1>3. CASE Stream(t)
  <2>1. Say(t, "tail") /\ line' = [line EXCEPT ![t] = Put(@, "tail")] /\ "tail" \in Part
    BY <1>0, <1>3 DEF Stream
  <2>2. pc[t] = "caller" /\ Holds(line[t], Current(t))
    BY <1>0, <1>3 DEF Stream, CarriedBy
  <2>3. CallOf(t)' = CallOf(t) /\ said'[t][CallOf(t)] = Put(Current(t), "tail")
    BY <1>0, <2>1, <2>2, SaySays
  <2>4. Current(t)' = Put(Current(t), "tail")
    BY <2>3 DEF Current
  <2>5. line'[t] = Put(line[t], "tail")
    BY <2>1 DEF TypeOK
  <2>6. Holds(line[t], Current(t))'
    <3>1. Holds(Put(line[t], "tail"), Put(Current(t), "tail"))
      BY <1>0, <2>1, <2>2, PutHolds
    <3> QED
      BY <2>4, <2>5, <3>1 DEF Holds
  <2>7. Current(t)'.logger = Current(t).logger
    BY <1>0, <2>1, <2>2, <2>4, PutStatement
  <2>8. UNCHANGED <<pc, style, logger, threw>>
    BY <1>3 DEF Stream, controlVars
  <2> QED
    BY <1>0, <2>2, <2>3, <2>6, <2>7, <2>8 DEF CarriedBy
<1>4. CASE Return(t)
  <2>1. said' = said /\ UNCHANGED <<style, logger, threw>> /\ pc[t] = "return"
    BY <1>4 DEF Return
  <2>2. CallOf(t)' = CallOf(t) /\ Current(t)' = Current(t)
    BY <2>1 DEF CallOf, Current
  <2>3. /\ line'[t] = local[t] /\ local'[t] = None
        /\ \/ pc'[t] = "caller"
           \/ pc'[t] = "destroy" /\ dying'[t] = "local"
    <3>1. /\ line' = [line EXCEPT ![t] = local[t]] /\ local' = [local EXCEPT ![t] = None]
          /\ \/ pc' = [pc EXCEPT ![t] = "caller"]
             \/ pc' = [pc EXCEPT ![t] = "destroy"] /\ dying' = [dying EXCEPT ![t] = "local"]
      BY <1>4 DEF Return, Elide, Move, Goto, MovedFrom
    <3>2. line'[t] = local[t] /\ local'[t] = None
      BY <3>1 DEF TypeOK
    <3>3. CASE pc' = [pc EXCEPT ![t] = "caller"]
      <4>1. pc'[t] = "caller"
        BY <3>3 DEF TypeOK
      <4> QED
        BY <3>2, <4>1
    <3>4. CASE pc' = [pc EXCEPT ![t] = "destroy"] /\ dying' = [dying EXCEPT ![t] = "local"]
      <4>1. pc'[t] = "destroy" /\ dying'[t] = "local"
        BY <3>4 DEF TypeOK
      <4> QED
        BY <3>2, <4>1
    <3> QED
      BY <3>1, <3>3, <3>4
  <2>4. ~None.enabled
    BY DEF None, NewLine
  <2> QED
    BY <1>0, <2>1, <2>2, <2>3, <2>4 DEF CarriedBy, Last, Holds
<1>5. CASE EndStatement(t)
  <2>1. /\ said' = said /\ UNCHANGED <<style, logger, threw, line>> /\ pc[t] = "caller"
        /\ pc'[t] = "destroy" /\ dying'[t] = "line"
    BY <1>5 DEF EndStatement, Goto, objectVars, TypeOK
  <2>2. CallOf(t)' = CallOf(t) /\ Current(t)' = Current(t)
    BY <2>1 DEF CallOf, Current
  <2> QED
    BY <1>0, <2>1, <2>2 DEF CarriedBy, Last, Dying, Holds
<1>6. CASE Destroy(t) \/ Format(t) \/ Unlock(t)
  <2>1. /\ UNCHANGED <<said, style, logger, dying>>
        /\ pc[t] \in {"destroy", "format", "unlock"}
    BY <1>6 DEF Destroy, Format, Unlock, NextSink
  <2>2. CallOf(t)' = CallOf(t) /\ Current(t)' = Current(t)
    BY <2>1 DEF CallOf, Current
  <2>3. CASE Destroyed(t)
    <3>1. /\ pc'[t] \in {"idle", "garbage", "caller"} /\ ~threw'[t]
          /\ pc'[t] = "caller" => ~Last(t) /\ line' = line
      BY <2>3, DestroyedTypes
    <3>2. ~Last(t) => style[t] # "format" /\ Holds(line[t], Current(t))
      BY <1>0, <2>1 DEF CarriedBy, Last
    <3> QED
      BY <1>0, <2>1, <2>2, <3>1, <3>2 DEF CarriedBy, Holds
  <2>4. CASE ~Destroyed(t)
    <3>1. /\ UNCHANGED <<local, line, threw>> /\ pc'[t] \in {"format", "lock"}
          /\ pc[t] = "destroy" => Dying(t).enabled
      BY <1>6, <2>4 DEF Destroy, Format, Unlock, NextSink, Goto, objectVars, TypeOK
    <3>2. Dying(t)' = Dying(t) /\ (Last(t)' <=> Last(t))
      BY <2>1, <3>1 DEF Dying, Last
    <3>3. pc[t] = "destroy" => Last(t)
      BY <1>0, <3>1 DEF CarriedBy, Dying, Last
    <3> QED
      BY <1>0, <2>1, <2>2, <3>1, <3>2, <3>3 DEF CarriedBy, Holds
  <2> QED
    BY <2>3, <2>4
<1>7. CASE Lock(t) \/ SinkIt(t)
  <2>1. /\ UNCHANGED <<said, style, logger, dying, local, line, threw>>
        /\ pc[t] \in {"lock", "sink"} /\ pc'[t] \in {"sink", "unlock"}
    BY <1>7 DEF Lock, SinkIt, Goto, objectVars, TypeOK
  <2>2. CallOf(t)' = CallOf(t) /\ Current(t)' = Current(t)
    BY <2>1 DEF CallOf, Current
  <2>3. Dying(t)' = Dying(t) /\ (Last(t)' <=> Last(t))
    BY <2>1 DEF Dying, Last
  <2> QED
    BY <1>0, <2>1, <2>2, <2>3 DEF CarriedBy
<1>8. CASE DestroyGarbage(t)
  <2>1. UNCHANGED <<said, threw>> /\ pc[t] = "garbage" /\ pc'[t] = "idle"
    BY <1>8 DEF DestroyGarbage, Goto, TypeOK
  <2> QED
    BY <1>0, <2>1 DEF CarriedBy
<1>9. CASE LogMsgThrows(t)
  BY <1>0, <1>9, SameCarried DEF LogMsgThrows, Same, controlVars, objectVars
<1> QED
  BY <1>1, <1>2, <1>3, <1>4, <1>5, <1>6, <1>7, <1>8, <1>9 DEF Step

-----------------------------------------------------------------------------
(* Locks                                                                   *)

\* A thread that is handing its message around is at one of the sinks.
LEMMA TargetIsSink ==
  ASSUME TypeOK, Counters, NEW t \in Threads, pc[t] \in {"lock", "sink", "unlock"}
  PROVE  Target(t) \in Sinks
<1>1. next[t] \in DOMAIN SinksOf[logger[t]] /\ SinksOf[logger[t]] \in Seq(Sinks)
  BY BoundTypes DEF Counters, TypeOK
<1> QED
  BY <1>1 DEF Target

\* A thread takes a lock that nobody has and gives back only its own.
LEMMA LockedPreserved ==
  ASSUME TypeOK, Counters, Carried, Locked, NEW t \in Threads,
         \/ \E g \in Loggers, l \in MessageLevels, y \in Styles : Call(t, g, l, y)
         \/ Step(t) \/ Stream(t) \/ LogMsgThrows(t)
  PROVE  Locked'
<1> SUFFICES ASSUME NEW u \in Threads, pc'[u] \in {"sink", "unlock"}
             PROVE  holder'[Target(u)'] = {u}
  BY DEF Locked
<1>1. u # t => /\ Target(u)' = Target(u) /\ holder[Target(u)] = {u} /\ Target(u) \in Sinks
               /\ pc[u] \in {"sink", "unlock"}
  <2>1. u # t => Same(u)
    BY OthersKeep
  <2> QED
    BY <2>1, TargetIsSink DEF Same, Target, Locked
<1>2. CASE Lock(t)
  <2>1. /\ holder' = [holder EXCEPT ![Target(t)] = {t}] /\ holder[Target(t)] = {}
        /\ Target(t)' = Target(t) /\ Target(t) \in Sinks
    BY <1>2, TargetIsSink DEF Lock, Target
  <2>2. CASE u = t
    BY <2>1, <2>2 DEF TypeOK
  <2>3. CASE u # t
    <3>1. Target(u) # Target(t)
      BY <1>1, <2>1, <2>3
    <3> QED
      BY <1>1, <2>1, <2>3, <3>1 DEF TypeOK
  <2> QED
    BY <2>2, <2>3
<1>3. CASE Unlock(t)
  <2>1. /\ holder' = [holder EXCEPT ![Target(t)] = {}] /\ holder[Target(t)] = {t}
        /\ pc'[t] \notin {"sink", "unlock"}
    <3>1. pc[t] = "unlock" /\ NextSink(t)
      BY <1>3 DEF Unlock
    <3>2. Destroyed(t) => pc'[t] \in {"idle", "garbage", "caller"}
      BY DestroyedTypes
    <3>3. ~Destroyed(t) => pc'[t] = "lock"
      BY <3>1 DEF NextSink, Goto, TypeOK
    <3>4. holder[Target(t)] = {t}
      BY <3>1 DEF Locked
    <3> QED
      BY <1>3, <3>2, <3>3, <3>4 DEF Unlock
  <2>2. u # t /\ Target(u) # Target(t)
    BY <1>1, <2>1
  <2> QED
    BY <1>1, <2>1, <2>2 DEF TypeOK
<1>4. CASE SinkIt(t)
  <2>1. UNCHANGED <<holder, logger, next>> /\ pc[t] = "sink"
    BY <1>4 DEF SinkIt
  <2> QED
    BY <1>1, <2>1 DEF Locked, Target
<1>5. CASE LogMsgThrows(t)
  BY <1>5 DEF LogMsgThrows, controlVars, sinkVars, Locked, Target
<1>6. CASE Destroy(t) \/ Format(t)
  <2>1. UNCHANGED holder /\ pc'[t] \notin {"sink", "unlock"}
    <3>1. CASE Destroyed(t)
      BY <1>6, <3>1, DestroyedTypes DEF Destroy, Format, sinkVars
    <3>2. CASE ~Destroyed(t)
      BY <1>6, <3>2 DEF Destroy, Format, Goto, sinkVars, TypeOK
    <3> QED
      BY <3>1, <3>2
  <2> QED
    BY <1>1, <2>1
<1>7. CASE \/ \E g \in Loggers, l \in MessageLevels, y \in Styles : Call(t, g, l, y)
           \/ WriteText(t) \/ WriteThrows(t) \/ Return(t) \/ Stream(t) \/ EndStatement(t)
           \/ DestroyGarbage(t)
  <2>1. UNCHANGED holder
    BY <1>7 DEF Call, WriteText, WriteThrows, Return, Stream, EndStatement, DestroyGarbage, sinkVars
  <2>2. pc'[t] \notin {"sink", "unlock"}
    <3>1. CASE Stream(t)
      BY <3>1 DEF Stream, controlVars
    <3>2. CASE ~Stream(t)
      <4>1. PICK l \in {"return", "write", "caller", "destroy", "idle"} : pc' = [pc EXCEPT ![t] = l]
        BY <1>7, <3>2 DEF Call, WriteText, WriteThrows, Return, Elide, Move, EndStatement,
           DestroyGarbage, Goto
      <4> QED
        BY <4>1 DEF TypeOK
    <3> QED
      BY <3>1, <3>2
  <2> QED
    BY <1>1, <2>1, <2>2
<1> QED
  BY <1>2, <1>3, <1>4, <1>5, <1>6, <1>7 DEF Step

-----------------------------------------------------------------------------
(* What the sinks were given                                               *)

\* Where a thread is when a sink may have the line of its statement.
Writing == {"lock", "sink", "unlock", "garbage", "idle"}

\* How an action of t that is not SinkIt goes with the lines of t: what is in a
\* sink is not touched any more.
Settled(t) ==
  /\ CallOf(t)' \in Nat /\ CallOf(t)' >= CallOf(t)
  /\ \A n \in 1..CallOf(t) : n < CallOf(t) \/ pc[t] \in Writing =>
       said'[t][n].level = said[t][n].level /\ said'[t][n].text = said[t][n].text
  /\ CallOf(t)' = CallOf(t) /\ pc[t] \in Writing =>
       /\ pc'[t] \in Writing
       /\ pc'[t] \in {"lock", "sink", "unlock"} =>
            pc[t] \in {"lock", "sink", "unlock"} /\ format'[t] = format[t]

\* Every step but the one that hands a record to a sink only adds to what was said.
LEMMA Settles ==
  ASSUME TypeOK, Counters, Carried, NEW t \in Threads,
         \/ \E g \in Loggers, l \in MessageLevels, y \in Styles : Call(t, g, l, y)
         \/ Step(t) /\ ~SinkIt(t)
         \/ Stream(t) \/ LogMsgThrows(t)
  PROVE  Settled(t) /\ out' = out
<1>0. /\ said \in [Threads -> Seq(Statement)] /\ CallOf(t) \in Nat /\ CallOf(t) = Len(said[t])
      /\ pc[t] # "idle" => CallOf(t) > 0
      /\ {"head", "half", "tail"} \subseteq Part /\ CarriedBy(t)
  <2>1. said \in [Threads -> Seq(Statement)]
    BY DEF TypeOK, Statement
  <2>2. CallOf(t) \in Nat /\ CallOf(t) = Len(said[t])
    BY <2>1 DEF CallOf
  <2> QED
    BY <2>1, <2>2 DEF Carried, CarriedBy, Part
<1>1. ASSUME NEW g \in Loggers, NEW l \in MessageLevels, NEW y \in Styles, Call(t, g, l, y)
      PROVE  Settled(t) /\ out' = out
  <2>1. PICK e \in BOOLEAN :
           said' = [said EXCEPT ![t] =
               Append(@, [logger |-> g, level |-> l, text |-> <<>>, enabled |-> e])]
    BY <1>1 DEF Call, ShouldLog
  <2>2. [logger |-> g, level |-> l, text |-> <<>>, enabled |-> e] \in Statement
    BY BoundTypes DEF Statement
  <2>3. CallOf(t)' = CallOf(t) + 1 /\ \A n \in 1..CallOf(t) : said'[t][n] = said[t][n]
    BY <1>0, <2>1, <2>2 DEF CallOf
  <2>4. out' = out
    BY <1>1 DEF Call, sinkVars
  <2> QED
    BY <1>0, <2>3, <2>4 DEF Settled
<1>2. CASE WriteText(t) \/ WriteThrows(t) \/ Stream(t)
  <2>1. PICK p \in Part : Say(t, p)
    BY <1>0, <1>2 DEF WriteText, WriteThrows, Stream
  <2>2. pc[t] \in {"write", "caller"} /\ out' = out
    BY <1>2 DEF WriteText, WriteThrows, Stream, sinkVars
  <2>3. CallOf(t)' = CallOf(t) /\ \A n \in 1..CallOf(t) : n # CallOf(t) => said'[t][n] = said[t][n]
    BY <1>0, <2>1, <2>2, SaySays
  <2> QED
    BY <1>0, <2>2, <2>3 DEF Settled, Writing
<1>3. CASE Return(t) \/ EndStatement(t) \/ Lock(t) \/ DestroyGarbage(t) \/ LogMsgThrows(t)
  <2>1. UNCHANGED <<out, said, format>>
    BY <1>3 DEF Return, EndStatement, Lock, DestroyGarbage, LogMsgThrows, controlVars, sinkVars
  <2>2. pc[t] \in Writing =>
          /\ pc'[t] \in Writing
          /\ pc'[t] \in {"lock", "sink", "unlock"} => pc[t] \in {"lock", "sink", "unlock"}
    BY <1>3 DEF Return, EndStatement, Lock, DestroyGarbage, LogMsgThrows, Goto, controlVars, TypeOK,
       Writing
  <2> QED
    BY <1>0, <2>1, <2>2 DEF Settled, CallOf
<1>4. CASE Destroy(t) \/ Format(t)
  <2>1. UNCHANGED <<out, said>> /\ pc[t] \notin Writing
    BY <1>4 DEF Destroy, Format, sinkVars, Writing
  <2> QED
    BY <1>0, <2>1 DEF Settled, CallOf
<1>5. CASE Unlock(t)
  <2>1. UNCHANGED <<out, said>> /\ pc[t] = "unlock"
    BY <1>5 DEF Unlock, NextSink
  <2>2. CASE Destroyed(t)
    <3>1. pc'[t] \in {"idle", "garbage"}
      BY <1>0, <2>1, <2>2, DestroyedTypes DEF CarriedBy
    <3> QED
      BY <1>0, <2>1, <3>1 DEF Settled, CallOf, Writing
  <2>3. CASE ~Destroyed(t)
    <3>1. pc'[t] = "lock" /\ format' = format
      BY <1>5, <2>3 DEF Unlock, NextSink, Goto, TypeOK
    <3> QED
      BY <1>0, <2>1, <3>1 DEF Settled, CallOf, Writing
  <2> QED
    BY <2>2, <2>3
<1> QED
  BY <1>1, <1>2, <1>3, <1>4, <1>5 DEF Step

\* Records are equal when their fields are.
LEMMA RecordsEqual ==
  ASSUME NEW a \in Record, NEW b \in Record, a.thread = b.thread, a.call = b.call,
         a.level = b.level, a.text = b.text, a.format = b.format
  PROVE  a = b
BY DEF Record

\* A sink's lines are records.
LEMMA LinesAreRecords ==
  ASSUME TypeOK, NEW s \in Sinks, NEW i \in DOMAIN out[s]
  PROVE  out[s][i] \in Record
<1>1. out \in [Sinks -> Seq(Record)]
  BY DEF TypeOK, Record
<1>2. out[s] \in Seq(Record) /\ i \in 1..Len(out[s])
  BY <1>1
<1> QED
  BY <1>2, ElementOfSeq

\* The lines that are in the sinks stay true under every step but SinkIt.
LEMMA RecordedFrame ==
  ASSUME TypeOK, Recorded, out' = out, NEW t \in Threads, Settled(t),
         \A u \in Threads \ {t} : Same(u)
  PROVE  Recorded'
<1>1. ASSUME NEW r \in Record, GoodLine(r)
      PROVE  GoodLine(r)'
  <2>1. PICK u \in Threads : u = r.thread
    BY DEF Record
  <2>2. /\ r.call \in 1..CallOf(u)
        /\ r.level = said[u][r.call].level /\ r.text = said[u][r.call].text
        /\ r.call = CallOf(u) =>
             /\ pc[u] \in Writing
             /\ pc[u] \in {"lock", "sink", "unlock"} => r.format = format[u]
    BY <1>1, <2>1 DEF GoodLine, Writing
  <2>3. CallOf(u) \in Nat
    <3>1. said[u] \in Seq(Statement)
      BY DEF TypeOK, Statement
    <3> QED
      BY <3>1 DEF CallOf
  <2>4. /\ r.call \in 1..CallOf(u)'
        /\ r.level = said'[u][r.call].level /\ r.text = said'[u][r.call].text
        /\ r.call = CallOf(u)' =>
             /\ pc'[u] \in Writing
             /\ pc'[u] \in {"lock", "sink", "unlock"} => r.format = format'[u]
    <3>1. CASE u # t
      <4>1. /\ said'[u] = said[u] /\ CallOf(u)' = CallOf(u) /\ pc'[u] = pc[u]
            /\ format'[u] = format[u]
        BY <3>1 DEF Same, CallOf
      <4> QED
        BY <2>2, <4>1
    <3>2. CASE u = t
      <4>1. CallOf(t)' \in Nat /\ CallOf(t)' >= CallOf(t)
        BY DEF Settled
      <4>2. r.call < CallOf(t) \/ pc[t] \in Writing
        BY <2>2, <2>3, <3>2
      <4>3. /\ r.level = said'[t][r.call].level /\ r.text = said'[t][r.call].text
            /\ r.call \in 1..CallOf(t)'
        BY <2>2, <2>3, <3>2, <4>1, <4>2 DEF Settled
      <4>4. ASSUME r.call = CallOf(t)'
            PROVE  /\ pc'[t] \in Writing
                   /\ pc'[t] \in {"lock", "sink", "unlock"} => r.format = format'[t]
        <5>1. CallOf(t)' = CallOf(t) /\ r.call = CallOf(t) /\ pc[t] \in Writing
          BY <2>2, <2>3, <3>2, <4>1, <4>2, <4>4
        <5> QED
          BY <2>2, <3>2, <5>1 DEF Settled
      <4> QED
        BY <3>2, <4>3, <4>4
    <3> QED
      BY <3>1, <3>2
  <2> QED
    BY <2>1, <2>4 DEF GoodLine, CallOf, Writing
<1>2. ASSUME NEW s \in Sinks, NEW i \in DOMAIN out'[s]
      PROVE  GoodLine(out[s][i])'
  <2>1. PICK r \in Record : r = out[s][i] /\ GoodLine(r) /\ r = out'[s][i]
    BY LinesAreRecords DEF Recorded
  <2>2. GoodLine(r)'
    BY <1>1, <2>1
  <2> QED
    BY <2>1, <2>2 DEF GoodLine, CallOf
<1> QED
  BY <1>2 DEF Recorded

\* SinkIt adds the line of the thread's statement to a sink, behind the others.
LEMMA SinkAppends ==
  ASSUME TypeOK, Counters, NEW t \in Threads, SinkIt(t)
  PROVE  /\ Written(t) \in Record /\ Target(t) \in Sinks
         /\ out \in [Sinks -> Seq(Record)]
         /\ DOMAIN out'[Target(t)] = DOMAIN out[Target(t)] \cup {Len(out[Target(t)]) + 1}
         /\ out'[Target(t)][Len(out[Target(t)]) + 1] = Written(t)
         /\ Len(out[Target(t)]) + 1 \notin DOMAIN out[Target(t)]
         /\ \A i \in DOMAIN out[Target(t)] : out'[Target(t)][i] = out[Target(t)][i]
         /\ \A s \in Sinks \ {Target(t)} : out'[s] = out[s]
<1>1. pc[t] = "sink" /\ out' = [out EXCEPT ![Target(t)] = Append(@, Written(t))]
  BY DEF SinkIt
<1>2. Target(t) \in Sinks
  BY <1>1, TargetIsSink
<1>3. out \in [Sinks -> Seq(Record)]
  BY DEF TypeOK, Record
<1>4. Written(t) \in Record
  <2>1. Dying(t) \in Object /\ format[t] \in 0..MaxSets
    BY DEF Dying, TypeOK
  <2>2. said[t] \in Seq(Statement)
    BY DEF TypeOK, Statement
  <2>3. CallOf(t) \in Nat
    BY <2>2 DEF CallOf
  <2> QED
    BY <2>1, <2>3 DEF Written, Object, Record
<1> DEFINE q == out[Target(t)]
<1>5. q \in Seq(Record) /\ out'[Target(t)] = Append(q, Written(t))
  BY <1>1, <1>2, <1>3
<1>6. \A s \in Sinks \ {Target(t)} : out'[s] = out[s]
  BY <1>1, <1>3
<1> HIDE DEF q
<1>7. /\ DOMAIN Append(q, Written(t)) = DOMAIN q \cup {Len(q) + 1}
      /\ Append(q, Written(t))[Len(q) + 1] = Written(t)
      /\ Len(q) + 1 \notin DOMAIN q
      /\ \A i \in DOMAIN q : Append(q, Written(t))[i] = q[i]
  BY <1>4, <1>5
<1> QED
  BY <1>2, <1>3, <1>4, <1>5, <1>6, <1>7 DEF q

\* The line a sink gets is the one its statement says, as in any other sink.
LEMMA RecordedSinkIt ==
  ASSUME TypeOK, Counters, Carried, Recorded, NEW t \in Threads, SinkIt(t)
  PROVE  Recorded'
<1> DEFINE S == Target(t)
           W == Written(t)
           k == Len(out[S]) + 1
<1>1. /\ W \in Record /\ S \in Sinks /\ out \in [Sinks -> Seq(Record)]
      /\ DOMAIN out'[S] = DOMAIN out[S] \cup {k} /\ out'[S][k] = W
      /\ \A i \in DOMAIN out[S] : out'[S][i] = out[S][i]
      /\ \A s \in Sinks \ {S} : out'[s] = out[s]
  BY SinkAppends
<1>2. /\ W.thread = t /\ W.call = CallOf(t) /\ W.level = Dying(t).level /\ W.text = Dying(t).text
      /\ W.format = format[t]
  BY DEF Written
<1>3. /\ UNCHANGED <<said, format>> /\ pc[t] = "sink" /\ pc' = [pc EXCEPT ![t] = "unlock"]
  BY DEF SinkIt, Goto
<1>4. /\ \A u \in Threads : CallOf(u)' = CallOf(u)
      /\ pc'[t] = "unlock" /\ \A u \in Threads \ {t} : pc'[u] = pc[u]
  BY <1>3 DEF CallOf, TypeOK
<1>5. /\ CallOf(t) \in 1..CallOf(t)
      /\ W.level = said[t][CallOf(t)].level /\ W.text = said[t][CallOf(t)].text
  <2>1. said[t] \in Seq(Statement)
    BY DEF TypeOK, Statement
  <2>2. CallOf(t) \in Nat
    BY <2>1 DEF CallOf
  <2> QED
    BY <1>2, <1>3, <2>2 DEF Carried, CarriedBy, Holds, Current
<1>6. ASSUME NEW s \in Sinks, NEW i \in DOMAIN out'[s]
      PROVE  \/ s = S /\ i = k /\ out'[s][i] = W
             \/ i \in DOMAIN out[s] /\ out'[s][i] = out[s][i]
  <2>1. CASE s = S
    <3>1. i = k \/ i \in DOMAIN out[S]
      BY <1>1, <1>6, <2>1
    <3> QED
      BY <1>1, <2>1, <3>1
  <2>2. CASE s # S
    BY <1>1, <1>6, <2>2
  <2> QED
    BY <2>1, <2>2
<1> HIDE DEF S, W, k
<1>7. ASSUME NEW r \in Record, GoodLine(r) \/ r = W
      PROVE  GoodLine(r)'
  <2>1. PICK u \in Threads : u = r.thread
    BY DEF Record
  <2>2. /\ CallOf(u)' = CallOf(u) /\ said'[u] = said[u] /\ format'[u] = format[u]
        /\ pc[u] \in {"lock", "sink", "unlock"} <=> pc'[u] \in {"lock", "sink", "unlock"}
        /\ pc[u] \in {"garbage", "idle"} <=> pc'[u] \in {"garbage", "idle"}
    BY <1>3, <1>4
  <2>3. GoodLine(r)
    <3>1. CASE r = W
      BY <1>2, <1>3, <1>5, <3>1 DEF GoodLine
    <3> QED
      BY <1>7, <3>1
  <2>4. /\ r.call \in 1..CallOf(u)
        /\ r.level = said[u][r.call].level /\ r.text = said[u][r.call].text
        /\ r.call = CallOf(u) =>
             /\ pc[u] \in {"lock", "sink", "unlock", "garbage", "idle"}
             /\ pc[u] \in {"lock", "sink", "unlock"} => r.format = format[u]
    BY <2>1, <2>3 DEF GoodLine
  <2>5. /\ r.call \in 1..CallOf(u)'
        /\ r.level = said'[u][r.call].level /\ r.text = said'[u][r.call].text
        /\ r.call = CallOf(u)' =>
             /\ pc'[u] \in {"lock", "sink", "unlock", "garbage", "idle"}
             /\ pc'[u] \in {"lock", "sink", "unlock"} => r.format = format'[u]
    BY <2>2, <2>4
  <2> QED
    BY <2>1, <2>5 DEF GoodLine, CallOf
<1>8. ASSUME NEW s \in Sinks, NEW i \in DOMAIN out'[s]
      PROVE  GoodLine(out[s][i])'
  <2>1. PICK r \in Record : r = out'[s][i] /\ (GoodLine(r) \/ r = W)
    BY <1>1, <1>6, LinesAreRecords DEF Recorded
  <2>2. GoodLine(r)'
    BY <1>7, <2>1
  <2> QED
    BY <2>1, <2>2 DEF GoodLine, CallOf
<1>9. ASSUME NEW s \in Sinks, NEW i \in DOMAIN out[s],
             out[s][i].thread = t, out[s][i].call = CallOf(t)
      PROVE  out[s][i] = W
  <2>1. GoodLine(out[s][i])
    BY DEF Recorded
  <2>2. /\ out[s][i].level = W.level /\ out[s][i].text = W.text /\ out[s][i].format = W.format
    BY <1>2, <1>3, <1>5, <1>9, <2>1 DEF GoodLine
  <2>3. out[s][i] \in Record
    BY LinesAreRecords
  <2> QED
    BY <1>1, <1>2, <1>9, <2>2, <2>3, RecordsEqual
<1>10. ASSUME NEW s \in Sinks, NEW u \in Sinks, NEW i \in DOMAIN out'[s], NEW j \in DOMAIN out'[u],
              out'[s][i].thread = out'[u][j].thread, out'[s][i].call = out'[u][j].call
       PROVE  out'[s][i] = out'[u][j]
  <2>1. CASE out'[s][i] = W /\ out'[u][j] = W
    BY <2>1
  <2>2. CASE out'[s][i] = W /\ j \in DOMAIN out[u] /\ out'[u][j] = out[u][j]
    BY <1>2, <1>9, <1>10, <2>2
  <2>3. CASE out'[u][j] = W /\ i \in DOMAIN out[s] /\ out'[s][i] = out[s][i]
    BY <1>2, <1>9, <1>10, <2>3
  <2>4. CASE /\ i \in DOMAIN out[s] /\ out'[s][i] = out[s][i]
             /\ j \in DOMAIN out[u] /\ out'[u][j] = out[u][j]
    BY <1>10, <2>4 DEF Recorded
  <2> QED
    BY <1>6, <2>1, <2>2, <2>3, <2>4
<1> QED
  BY <1>8, <1>10 DEF Recorded

-----------------------------------------------------------------------------
(* The invariant                                                           *)

\* A process has at least one logger when it has a thread that can log.
SomeLogger == Threads # {} => Loggers # {}

\* Before the first statement no sink has a line.
LEMMA InvariantInit ==
  ASSUME SomeLogger, Init
  PROVE  IInv
<1> USE BoundTypes DEF Init
<1>1. None \in Object
  BY DEF None, NewLine, Object
<1>2. logger \in [Threads -> Loggers]
  BY DEF SomeLogger
<1>3. TypeOK
  <2>1. /\ 0 \in 0..MaxSets
        /\ out \in [Sinks -> Seq([thread : Threads, call : Nat, level : Level, text : Seq(Part),
                                  format : 0..MaxSets])]
        /\ said \in [Threads -> Seq([logger : Loggers, level : Level, text : Seq(Part),
                                     enabled : BOOLEAN])]
    OBVIOUS
  <2> QED
    BY <1>1, <1>2, <2>1 DEF TypeOK
<1>4. Counters
  BY DEF Counters
<1>5. Carried
  BY DEF Carried, CarriedBy
<1>6. Locked
  BY DEF Locked
<1>7. Recorded
  BY DEF Recorded
<1> QED
  BY <1>3, <1>4, <1>5, <1>6, <1>7 DEF IInv

\* Every step keeps all parts of the invariant.
LEMMA InvariantStep ==
  ASSUME IInv, [Next]_vars
  PROVE  IInv'
<1>1. CASE \E t \in Threads :
             \/ \E g \in Loggers, l \in MessageLevels, y \in Styles : Call(t, g, l, y)
             \/ Step(t) \/ Stream(t) \/ LogMsgThrows(t)
  <2>1. PICK t \in Threads :
          \/ \E g \in Loggers, l \in MessageLevels, y \in Styles : Call(t, g, l, y)
          \/ Step(t) \/ Stream(t) \/ LogMsgThrows(t)
    BY <1>1
  <2>2. TypeOK' /\ Counters'
    BY <2>1, StatementTypes DEF IInv
  <2>3. Carried'
    BY <2>1, CarriedPreserved DEF IInv
  <2>4. Locked'
    BY <2>1, LockedPreserved DEF IInv
  <2>5. Recorded'
    <3>1. CASE SinkIt(t)
      BY <3>1, RecordedSinkIt DEF IInv
    <3>2. CASE ~SinkIt(t)
      <4>1. Settled(t) /\ out' = out
        BY <2>1, <3>2, Settles DEF IInv
      <4>2. \A u \in Threads \ {t} : Same(u)
        BY <2>1, OthersKeep DEF IInv
      <4> QED
        BY <4>1, <4>2, RecordedFrame DEF IInv
    <3> QED
      BY <3>1, <3>2
  <2> QED
    BY <2>2, <2>3, <2>4, <2>5 DEF IInv
<1>2. CASE \/ \E g \in Loggers, l \in LoggerLevels : SetLevel(g, l)
           \/ \E g \in Loggers : SetFormatter(g)
  <2>1. TypeOK' /\ Counters'
    BY <1>2, SettingTypes DEF IInv
  <2>2. UNCHANGED <<controlVars, objectVars, sinkVars, said>>
    BY <1>2 DEF SetLevel, SetFormatter
  <2>3. Carried' /\ Locked' /\ Recorded'
    BY <2>2 DEF IInv, Carried, CarriedBy, Locked, Recorded, GoodLine, CallOf, Current, Dying, Last, Target,
       controlVars, objectVars, sinkVars
  <2> QED
    BY <2>1, <2>3 DEF IInv
<1>3. CASE UNCHANGED vars
  <2>1. UNCHANGED <<loggerVars, controlVars, objectVars, sinkVars, said, terminated, sets, faults>>
    BY <1>3 DEF vars, boundVars
  <2>2. TypeOK' /\ Counters'
    BY <2>1 DEF IInv, TypeOK, Counters, loggerVars, controlVars, objectVars, sinkVars
  <2>3. Carried' /\ Locked' /\ Recorded'
    BY <2>1 DEF IInv, Carried, CarriedBy, Locked, Recorded, GoodLine, CallOf, Current, Dying, Last, Target,
       controlVars, objectVars, sinkVars
  <2> QED
    BY <2>2, <2>3 DEF IInv
<1> QED
  BY <1>1, <1>2, <1>3 DEF Next, Finished

\* For every run: what the caller said of a statement is in one LineLogger, locks
\* are held as the code means them, and the lines in the sinks are those said.
THEOREM SyncInvariant == SomeLogger => (Spec => []IInv)
<1>1. SomeLogger /\ Init => IInv
  BY InvariantInit
<1>2. IInv /\ [Next]_vars => IInv'
  BY InvariantStep
<1> QED
  BY <1>1, <1>2, PTL DEF Spec

\* Every variable of the loggers has its type.
THEOREM SyncTypes == SomeLogger => (Spec => []TypeOK)
<1>1. IInv => TypeOK
  BY DEF IInv
<1> QED
  BY <1>1, SyncInvariant, PTL

\* Two threads are never in SinkIt of one sink: BaseSink::Log keeps its promise
\* to those who implement it, whatever loggers share the sink.
THEOREM SyncNoOverlap == SomeLogger => (Spec => []NoOverlap)
<1>1. ASSUME IInv, NEW t \in Threads, NEW u \in Threads, t # u, pc[t] = "sink", pc[u] = "sink"
      PROVE  Target(t) # Target(u)
  <2>1. holder[Target(t)] = {t} /\ holder[Target(u)] = {u}
    BY <1>1 DEF IInv, Locked
  <2> QED
    BY <1>1, <2>1
<1>2. IInv => NoOverlap
  BY <1>1 DEF NoOverlap
<1> QED
  BY <1>2, SyncInvariant, PTL

\* A sink shows a statement with its level and all its text, and in the same
\* format as every other sink does, however the LineLogger was moved.
THEOREM SyncWrittenAsSaid == SomeLogger => (Spec => []WrittenAsSaid)
<1>1. IInv => WrittenAsSaid
  <2> SUFFICES ASSUME IInv, NEW s \in Sinks, NEW i \in DOMAIN out[s]
               PROVE  LET r == out[s][i]
                          w == said[r.thread][r.call]
                      IN  /\ r.level = w.level /\ r.text = w.text
                          /\ \A u \in Sinks : \A j \in Entries(u, r.thread, r.call) : out[u][j] = r
    BY DEF WrittenAsSaid
  <2>1. /\ out[s][i].level = said[out[s][i].thread][out[s][i].call].level
        /\ out[s][i].text = said[out[s][i].thread][out[s][i].call].text
    BY DEF IInv, Recorded, GoodLine
  <2>2. \A u \in Sinks : \A j \in Entries(u, out[s][i].thread, out[s][i].call) : out[u][j] = out[s][i]
    BY DEF IInv, Recorded, Entries
  <2> QED
    BY <2>1, <2>2
<1> QED
  BY <1>1, SyncInvariant, PTL

-----------------------------------------------------------------------------
(* One line in every sink                                                  *)

\* The types that the counting needs.
LEMMA StatementFacts ==
  ASSUME TypeOK, NEW u \in Threads
  PROVE  /\ CallOf(u) \in Nat
         /\ \A n \in 1..CallOf(u) : said[u][n] \in Statement
         /\ CallOf(u) > 0 => Current(u) \in Statement
<1>1. said[u] \in Seq(Statement)
  BY DEF TypeOK, Statement
<1>2. CallOf(u) \in Nat /\ CallOf(u) = Len(said[u])
  BY <1>1 DEF CallOf
<1>3. \A n \in 1..CallOf(u) : said[u][n] \in Statement
  BY <1>1, <1>2, ElementOfSeq
<1> QED
  BY <1>2, <1>3 DEF Current

\* An action that gives no sink a line and after which t has been through as
\* many sinks as before.
LEMMA OnceFrame ==
  ASSUME TypeOK, Once, out' = out, NEW t \in Threads, \A u \in Threads \ {t} : Same(u),
         CallOf(t)' = CallOf(t),
         \A n \in 1..CallOf(t) : /\ said'[t][n].enabled = said[t][n].enabled
                                 /\ said'[t][n].logger = said[t][n].logger,
         CallOf(t) > 0 /\ Current(t).enabled => Far(t)' = Far(t)
  PROVE  Once'
<1>1. ASSUME NEW u \in Threads, NEW n \in 1..CallOf(u)', NEW s \in Sinks
      PROVE  /\ n \in 1..CallOf(u)
             /\ Given(u, n, s)' <=> Given(u, n, s)
             /\ Entries(s, u, n)' = Entries(s, u, n)
  <2>1. Entries(s, u, n)' = Entries(s, u, n)
    BY DEF Entries
  <2>2. CASE u # t
    <3>1. CallOf(u)' = CallOf(u) /\ Reached(u, n)' = Reached(u, n) /\ said'[u] = said[u]
      BY <2>2 DEF Same, CallOf, Current, Reached, Far
    <3> QED
      BY <1>1, <2>1, <3>1 DEF Given
  <2>3. CASE u = t
    <3>1. /\ n \in 1..CallOf(t) /\ said'[t][n].enabled = said[t][n].enabled
          /\ said'[t][n].logger = said[t][n].logger
      BY <2>3
    <3>2. said[t][n].enabled => Reached(t, n)' = Reached(t, n)
      <4>1. CASE n < CallOf(t)
        BY <3>1, <4>1 DEF Reached
      <4>2. CASE ~(n < CallOf(t))
        <5>1. n = CallOf(t) /\ CallOf(t) > 0 /\ Current(t) = said[t][n]
          BY <3>1, <4>2, StatementFacts DEF Current
        <5> QED
          BY <5>1 DEF Reached
      <4> QED
        BY <4>1, <4>2
    <3> QED
      BY <2>1, <2>3, <3>1, <3>2 DEF Given
  <2> QED
    BY <2>2, <2>3
<1>2. ASSUME NEW u \in Threads, NEW n \in 1..CallOf(u)', NEW s \in Sinks
      PROVE  OnceIn(u, n, s)'
  <2>1. OnceIn(u, n, s)
    BY <1>1 DEF Once
  <2> QED
    BY <1>1, <2>1 DEF OnceIn
<1> QED
  BY <1>2 DEF Once

\* A new statement is in no sink yet.
LEMMA OnceCall ==
  ASSUME TypeOK, Once, Recorded, NEW t \in Threads, \A u \in Threads \ {t} : Same(u),
         NEW g \in Loggers, NEW l \in MessageLevels, NEW y \in Styles, Call(t, g, l, y)
  PROVE  Once'
<1>0. said \in [Threads -> Seq(Statement)] /\ CallOf(t) \in Nat /\ CallOf(t) = Len(said[t])
  <2>1. said \in [Threads -> Seq(Statement)]
    BY DEF TypeOK, Statement
  <2> QED
    BY <2>1 DEF CallOf
<1>1. PICK e \in BOOLEAN :
         said' = [said EXCEPT ![t] =
             Append(@, [logger |-> g, level |-> l, text |-> <<>>, enabled |-> e])]
  BY DEF Call, ShouldLog
<1>2. [logger |-> g, level |-> l, text |-> <<>>, enabled |-> e] \in Statement
  BY BoundTypes DEF Statement
<1>3. CallOf(t)' = CallOf(t) + 1 /\ \A n \in 1..CallOf(t) : said'[t][n] = said[t][n]
  BY <1>0, <1>1, <1>2 DEF CallOf
<1>4. out' = out /\ pc[t] = "idle" /\ pc'[t] \in {"return", "write"}
  BY DEF Call, Goto, sinkVars, TypeOK
<1>5. Far(t)' = 0
  BY <1>4 DEF Far
<1>6. ASSUME NEW u \in Threads, NEW n \in 1..CallOf(u)', NEW s \in Sinks, u # t \/ n # CallOf(t)'
      PROVE  /\ n \in 1..CallOf(u)
             /\ Given(u, n, s)' <=> Given(u, n, s)
             /\ Entries(s, u, n)' = Entries(s, u, n)
  <2>1. Entries(s, u, n)' = Entries(s, u, n)
    BY <1>4 DEF Entries
  <2>2. CASE u # t
    <3>1. CallOf(u)' = CallOf(u) /\ Reached(u, n)' = Reached(u, n) /\ said'[u] = said[u]
      BY <2>2 DEF Same, CallOf, Current, Reached, Far
    <3> QED
      BY <1>6, <2>1, <3>1 DEF Given
  <2>3. CASE u = t
    <3>1. n \in 1..CallOf(t) /\ said'[t][n] = said[t][n] /\ n < CallOf(t)'
      BY <1>0, <1>3, <1>6, <2>3
    <3>2. n < CallOf(t) \/ n = CallOf(t)
      BY <1>0, <3>1
    <3>3. Reached(t, n) = Len(SinksOf[said[t][n].logger])
      BY <1>4, <3>2 DEF Reached, Far, Current
    <3>4. Reached(t, n)' = Len(SinksOf[said[t][n].logger])
      BY <3>1 DEF Reached
    <3> QED
      BY <2>1, <2>3, <3>1, <3>3, <3>4 DEF Given
  <2> QED
    BY <2>2, <2>3
<1>7. ASSUME NEW n \in 1..CallOf(t)', NEW s \in Sinks, n = CallOf(t)'
      PROVE  ~Given(t, n, s)' /\ Entries(s, t, n)' = {}
  <2>1. ~Given(t, n, s)'
    BY <1>0, <1>3, <1>5, <1>7 DEF Given, Reached
  <2>2. ASSUME NEW i \in DOMAIN out[s], out[s][i].thread = t, out[s][i].call = n
        PROVE  FALSE
    BY <1>0, <1>3, <1>7, <2>2 DEF Recorded, GoodLine
  <2>3. Entries(s, t, n)' = {}
    BY <1>4, <2>2 DEF Entries
  <2> QED
    BY <2>1, <2>3
<1>8. ASSUME NEW u \in Threads, NEW n \in 1..CallOf(u)', NEW s \in Sinks
      PROVE  OnceIn(u, n, s)'
  <2>1. CASE u # t \/ n # CallOf(t)'
    <3>1. OnceIn(u, n, s)
      BY <1>6, <2>1 DEF Once
    <3> QED
      BY <1>6, <2>1, <3>1 DEF OnceIn
  <2>2. CASE u = t /\ n = CallOf(t)'
    BY <1>7, <2>2 DEF OnceIn
  <2> QED
    BY <2>1, <2>2
<1> QED
  BY <1>8 DEF Once

\* The sink the thread is at has no line of its statement, because no sink before
\* it is the same, and gets one.
LEMMA OnceSinkIt ==
  ASSUME SinksDiffer, IInv, Once, NEW t \in Threads, SinkIt(t)
  PROVE  Once'
<1> USE DEF IInv
<1>0. PICK S \in Sinks, W \in Record, k \in Nat :
        S = Target(t) /\ W = Written(t) /\ k = Len(out[S]) + 1
  BY SinkAppends
<1>1. /\ W \in Record /\ S \in Sinks /\ out \in [Sinks -> Seq(Record)]
      /\ DOMAIN out'[S] = DOMAIN out[S] \cup {k} /\ out'[S][k] = W /\ k \notin DOMAIN out[S]
      /\ \A i \in DOMAIN out[S] : out'[S][i] = out[S][i]
      /\ \A s \in Sinks \ {S} : out'[s] = out[s]
  BY <1>0, SinkAppends
<1>2. /\ UNCHANGED <<said, next, logger>> /\ pc[t] = "sink" /\ pc' = [pc EXCEPT ![t] = "unlock"]
      /\ W.thread = t /\ W.call = CallOf(t)
  BY <1>0 DEF SinkIt, Goto, Written
<1>3. /\ pc'[t] = "unlock" /\ \A u \in Threads \ {t} : pc'[u] = pc[u]
      /\ \A u \in Threads : CallOf(u)' = CallOf(u) /\ Current(u)' = Current(u)
  BY <1>2 DEF CallOf, Current, TypeOK
<1>4. CallOf(t) \in Nat /\ CallOf(t) > 0 /\ Current(t).logger = logger[t] /\ Current(t).enabled
  BY <1>2, StatementFacts DEF Carried, CarriedBy
<1>5. /\ next[t] \in Nat /\ next[t] \in DOMAIN SinksOf[logger[t]] /\ logger[t] \in Loggers
      /\ SinksOf[logger[t]] \in Seq(Sinks) /\ S = SinksOf[logger[t]][next[t]]
  BY <1>0, <1>2, BoundTypes DEF Counters, TypeOK, Target
<1>6. Far(t) = next[t] - 1 /\ Far(t)' = next[t]
  BY <1>2, <1>3 DEF Far
<1>7. ASSUME NEW u \in Threads, NEW n \in 1..CallOf(u)', NEW s \in Sinks,
             ~(u = t /\ n = CallOf(t) /\ s = S)
      PROVE  /\ n \in 1..CallOf(u)
             /\ Given(u, n, s)' <=> Given(u, n, s)
             /\ Entries(s, u, n)' = Entries(s, u, n)
  <2>1. n \in 1..CallOf(u) /\ (n < CallOf(u) \/ n = CallOf(u))
    BY <1>3, StatementFacts
  <2>2. CASE u = t /\ n = CallOf(t)
    <3>1. Reached(t, n) = next[t] - 1 /\ Reached(t, n)' = next[t] /\ said[t][n] = Current(t)
      BY <1>3, <1>4, <1>6, <2>2 DEF Reached, Current
    <3>2. (\E i \in 1..next[t] : SinksOf[logger[t]][i] = s)
            <=> \E i \in 1..(next[t] - 1) : SinksOf[logger[t]][i] = s
      BY <1>5, <1>7, <2>2
    <3>3. Given(t, n, s)' <=> Given(t, n, s)
      BY <1>2, <1>4, <3>1, <3>2 DEF Given
    <3>4. out'[s] = out[s]
      BY <1>1, <1>7, <2>2
    <3> QED
      BY <2>1, <2>2, <3>3, <3>4 DEF Entries
  <2>3. CASE ~(u = t /\ n = CallOf(t))
    <3>1. Reached(u, n)' = Reached(u, n)
      BY <1>2, <1>3, <2>1, <2>3 DEF Reached, Far
    <3>2. Given(u, n, s)' <=> Given(u, n, s)
      BY <1>2, <3>1 DEF Given
    <3>3. Entries(s, u, n)' = Entries(s, u, n)
      <4>1. CASE s # S
        BY <1>1, <4>1 DEF Entries
      <4>2. CASE s = S
        <5>1. ~(out'[S][k].thread = u /\ out'[S][k].call = n)
          BY <1>1, <1>2, <2>3
        <5> QED
          BY <1>1, <4>2, <5>1 DEF Entries
      <4> QED
        BY <4>1, <4>2
    <3> QED
      BY <2>1, <3>2, <3>3
  <2> QED
    BY <2>2, <2>3
<1>8. ASSUME NEW n \in 1..CallOf(t), n = CallOf(t)
      PROVE  Given(t, n, S)' /\ Entries(S, t, n)' = {k}
  <2>1. Reached(t, n) = next[t] - 1 /\ Reached(t, n)' = next[t] /\ said[t][n] = Current(t)
    BY <1>3, <1>4, <1>6, <1>8 DEF Reached, Current
  <2>2. Given(t, n, S)'
    <3>1. next[t] \in 1..next[t]
      BY <1>5
    <3> QED
      BY <1>2, <1>4, <1>5, <2>1, <3>1 DEF Given
  <2>3. ~Given(t, n, S)
    <3>1. \A i \in 1..(next[t] - 1) : i \in DOMAIN SinksOf[logger[t]] /\ i # next[t]
      BY <1>5
    <3>2. \A i \in 1..(next[t] - 1) : SinksOf[logger[t]][i] # S
      BY <1>5, <3>1 DEF SinksDiffer
    <3> QED
      BY <1>4, <2>1, <3>2 DEF Given
  <2>4. Entries(S, t, n) = {}
    <3>1. OnceIn(t, n, S)
      BY <1>1, <1>8 DEF Once
    <3> QED
      BY <2>3, <3>1 DEF OnceIn
  <2>5. Entries(S, t, n)' = {k}
    <3>1. \A i \in DOMAIN out'[S] :
            out'[S][i].thread = t /\ out'[S][i].call = n <=> i = k
      <4>1. \A i \in DOMAIN out[S] : ~(out[S][i].thread = t /\ out[S][i].call = n)
        BY <2>4 DEF Entries
      <4> QED
        BY <1>1, <1>2, <1>8, <4>1
    <3> QED
      BY <1>1, <3>1 DEF Entries
  <2> QED
    BY <2>2, <2>5
<1>9. ASSUME NEW u \in Threads, NEW n \in 1..CallOf(u)', NEW s \in Sinks
      PROVE  OnceIn(u, n, s)'
  <2>1. CASE ~(u = t /\ n = CallOf(t) /\ s = S)
    <3>1. OnceIn(u, n, s)
      BY <1>7, <2>1 DEF Once
    <3> QED
      BY <1>7, <2>1, <3>1 DEF OnceIn
  <2>2. CASE u = t /\ n = CallOf(t) /\ s = S
    <3>1. n \in 1..CallOf(t)
      BY <1>3, <2>2
    <3> QED
      BY <1>8, <2>2, <3>1 DEF OnceIn
  <2> QED
    BY <2>1, <2>2
<1> QED
  BY <1>9 DEF Once

\* Every other step of a statement leaves the thread as far as it was, if its
\* message is one to be written at all.
LEMMA FarKept ==
  ASSUME IInv, NEW t \in Threads, (Step(t) /\ ~SinkIt(t)) \/ Stream(t) \/ LogMsgThrows(t)
  PROVE  /\ out' = out /\ CallOf(t)' = CallOf(t)
         /\ \A n \in 1..CallOf(t) : /\ said'[t][n].enabled = said[t][n].enabled
                                    /\ said'[t][n].logger = said[t][n].logger
         /\ CallOf(t) > 0 /\ Current(t).enabled => Far(t)' = Far(t)
<1> USE DEF IInv
<1>0. /\ said \in [Threads -> Seq(Statement)] /\ CarriedBy(t)
      /\ pc[t] # "idle" => CallOf(t) > 0 /\ Current(t) \in Statement
      /\ {"head", "half", "tail"} \subseteq Part
  BY StatementFacts DEF TypeOK, Statement, Carried, CarriedBy, Part
<1>1. CASE WriteText(t) \/ WriteThrows(t) \/ Stream(t)
  <2>1. PICK p \in Part : Say(t, p)
    BY <1>0, <1>1 DEF WriteText, WriteThrows, Stream
  <2>2. pc[t] \in {"write", "caller"} /\ out' = out
    BY <1>1 DEF WriteText, WriteThrows, Stream, sinkVars
  <2>3. /\ CallOf(t)' = CallOf(t) /\ said'[t][CallOf(t)] = Put(Current(t), p)
        /\ \A n \in 1..CallOf(t) : n # CallOf(t) => said'[t][n] = said[t][n]
    BY <1>0, <2>1, <2>2, SaySays
  <2>4. /\ Put(Current(t), p).enabled = Current(t).enabled
        /\ Put(Current(t), p).logger = Current(t).logger
    BY <1>0, <2>2, PutStatement
  <2>5. Far(t)' = 0 /\ Far(t) = 0
    <3>1. pc'[t] \in {"return", "destroy", "caller"}
      <4>1. CASE Stream(t)
        BY <2>2, <4>1 DEF Stream, controlVars, WriteText, WriteThrows
      <4>2. CASE WriteText(t)
        <5>1. PICK l \in {"return", "destroy"} : pc' = [pc EXCEPT ![t] = l]
          BY <4>2 DEF WriteText, Goto
        <5> QED
          BY <5>1 DEF TypeOK
      <4>3. CASE WriteThrows(t)
        BY <4>3 DEF WriteThrows, Goto, TypeOK
      <4> QED
        BY <1>1, <4>1, <4>2, <4>3
    <3> QED
      BY <2>2, <3>1 DEF Far
  <2> QED
    BY <2>2, <2>3, <2>4, <2>5 DEF Current
<1>2. CASE Return(t) \/ EndStatement(t) \/ Lock(t) \/ DestroyGarbage(t) \/ LogMsgThrows(t)
  <2>1. UNCHANGED <<out, said, next>>
    BY <1>2 DEF Return, EndStatement, Lock, DestroyGarbage, LogMsgThrows, controlVars, sinkVars
  <2>2. \/ pc[t] \in {"return", "caller"} /\ pc'[t] \in {"caller", "destroy"}
        \/ pc[t] = "lock" /\ pc'[t] = "sink"
        \/ pc[t] = "garbage" /\ pc'[t] = "idle"
        \/ pc'[t] = pc[t]
    BY <1>2 DEF Return, Elide, Move, EndStatement, Lock, DestroyGarbage, LogMsgThrows, Goto,
       controlVars, TypeOK
  <2>3. CallOf(t)' = CallOf(t) /\ Current(t)' = Current(t)
    BY <2>1 DEF CallOf, Current
  <2> QED
    BY <2>1, <2>2, <2>3 DEF Far
<1>3. CASE Destroy(t) \/ Format(t) \/ Unlock(t)
  <2>1. UNCHANGED <<out, said>> /\ pc[t] \in {"destroy", "format", "unlock"}
    BY <1>3 DEF Destroy, Format, Unlock, NextSink, sinkVars
  <2>2. CallOf(t)' = CallOf(t) /\ Current(t)' = Current(t)
    BY <2>1 DEF CallOf, Current
  <2>3. /\ Current(t).logger = logger[t] /\ SinksOf[logger[t]] \in Seq(Sinks)
        /\ next[t] \in Nat
        /\ pc[t] = "unlock" => next[t] \in DOMAIN SinksOf[logger[t]]
    BY <1>0, <2>1, BoundTypes DEF CarriedBy, Counters, TypeOK
  <2>4. CASE Destroyed(t)
    <3>1. /\ pc'[t] \in {"idle", "garbage", "caller"}
          /\ pc'[t] = "caller" => ~Last(t)
      BY <2>4, DestroyedTypes
    <3>2. CASE pc[t] = "unlock"
      <4>1. pc'[t] \in {"idle", "garbage"}
        BY <1>0, <3>1, <3>2 DEF CarriedBy
      <4>2. next[t] = Len(SinksOf[logger[t]])
        <5>1. ~(next[t] < Len(SinksOf[logger[t]]))
          <6>1. Destroyed(t) => pc'[t] # "lock"
            BY <3>1
          <6> QED
            BY <1>3, <2>4, <3>2, <6>1 DEF Unlock, NextSink, Goto, TypeOK, Destroy, Format
        <5> QED
          BY <2>3, <3>2, <5>1
      <4> QED
        BY <2>1, <2>2, <2>3, <3>2, <4>1, <4>2 DEF Far
    <3>3. CASE pc[t] = "format"
      <4>1. pc'[t] \in {"idle", "garbage"}
        BY <1>0, <3>1, <3>3 DEF CarriedBy
      <4>2. Len(SinksOf[logger[t]]) = 0
        <5>1. SinksOf[logger[t]] = <<>>
          BY <1>3, <3>1, <3>3 DEF Unlock, Destroy, Format, Goto, TypeOK
        <5> QED
          BY <5>1
      <4> QED
        BY <2>1, <2>2, <2>3, <3>3, <4>1, <4>2 DEF Far
    <3>4. CASE pc[t] = "destroy"
      <4>1. pc'[t] = "caller" \/ ~Current(t).enabled
        <5>1. ~Dying(t).enabled
          BY <1>3, <3>1, <3>4 DEF Unlock, Destroy, Format, Goto, TypeOK
        <5>2. CASE Last(t)
          BY <1>0, <3>4, <5>1, <5>2 DEF CarriedBy, Holds
        <5>3. CASE ~Last(t)
          <6>1. pc'[t] = "caller"
            BY <1>0, <2>4, <3>4, <5>3 DEF Destroyed, Goto, Last, TypeOK
          <6> QED
            BY <6>1
        <5> QED
          BY <5>2, <5>3
      <4> QED
        BY <2>1, <2>2, <3>4, <4>1 DEF Far
    <3> QED
      BY <2>1, <3>2, <3>3, <3>4
  <2>5. CASE ~Destroyed(t)
    <3>1. \/ pc[t] = "destroy" /\ pc'[t] = "format"
          \/ pc[t] = "format" /\ pc'[t] = "lock" /\ next'[t] = next[t]
          \/ pc[t] = "unlock" /\ pc'[t] = "lock" /\ next'[t] = next[t] + 1
      BY <1>3, <2>5 DEF Destroy, Format, Unlock, NextSink, Goto, TypeOK, Counters
    <3>2. pc[t] = "format" => next[t] = 1
      BY DEF Counters
    <3> QED
      BY <2>1, <2>2, <2>3, <3>1, <3>2 DEF Far
  <2> QED
    BY <2>4, <2>5
<1> QED
  BY <1>1, <1>2, <1>3 DEF Step

\* A sink that is given a line did not have it before.
LEMMA OnceStep ==
  ASSUME SinksDiffer, IInv, Once, [Next]_vars
  PROVE  Once'
<1>1. CASE \E t \in Threads :
             \/ \E g \in Loggers, l \in MessageLevels, y \in Styles : Call(t, g, l, y)
             \/ Step(t) \/ Stream(t) \/ LogMsgThrows(t)
  <2>1. PICK t \in Threads :
          \/ \E g \in Loggers, l \in MessageLevels, y \in Styles : Call(t, g, l, y)
          \/ Step(t) \/ Stream(t) \/ LogMsgThrows(t)
    BY <1>1
  <2>2. \A u \in Threads \ {t} : Same(u)
    BY <2>1, OthersKeep DEF IInv
  <2>3. CASE \E g \in Loggers, l \in MessageLevels, y \in Styles : Call(t, g, l, y)
    BY <2>2, <2>3, OnceCall DEF IInv
  <2>4. CASE SinkIt(t)
    BY <2>4, OnceSinkIt
  <2>5. CASE (Step(t) /\ ~SinkIt(t)) \/ Stream(t) \/ LogMsgThrows(t)
    <3>1. /\ out' = out /\ CallOf(t)' = CallOf(t)
          /\ \A n \in 1..CallOf(t) : /\ said'[t][n].enabled = said[t][n].enabled
                                     /\ said'[t][n].logger = said[t][n].logger
          /\ CallOf(t) > 0 /\ Current(t).enabled => Far(t)' = Far(t)
      BY <2>5, FarKept
    <3> QED
      BY <2>2, <3>1, OnceFrame DEF IInv
  <2> QED
    BY <2>1, <2>3, <2>4, <2>5
<1>2. CASE UNCHANGED <<pc, next, out, said>>
  <2>1. ASSUME NEW u \in Threads, NEW n \in 1..CallOf(u)', NEW s \in Sinks
        PROVE  OnceIn(u, n, s)'
    <3>1. CallOf(u)' = CallOf(u) /\ Entries(s, u, n)' = Entries(s, u, n)
      BY <1>2 DEF CallOf, Entries
    <3>2. Given(u, n, s)' <=> Given(u, n, s)
      BY <1>2 DEF Given, Reached, Far, Current, CallOf
    <3>3. OnceIn(u, n, s)
      BY <3>1 DEF Once
    <3> QED
      BY <3>1, <3>2, <3>3 DEF OnceIn
  <2> QED
    BY <2>1 DEF Once
<1>3. ASSUME \/ \E g \in Loggers, l \in LoggerLevels : SetLevel(g, l)
             \/ \E g \in Loggers : SetFormatter(g)
             \/ UNCHANGED vars
      PROVE  UNCHANGED <<pc, next, out, said>>
  BY <1>3 DEF SetLevel, SetFormatter, vars, controlVars, sinkVars
<1> QED
  BY <1>1, <1>2, <1>3 DEF Next, Finished

\* The stronger form of WrittenOnce: at every moment a sink has one line of each
\* enabled statement that has been through it, and no other.
THEOREM SyncOnce == SomeLogger /\ SinksDiffer => (Spec => []Once)
<1> SUFFICES ASSUME SomeLogger, SinksDiffer PROVE Spec => []Once
  OBVIOUS
<1>1. Init => Once
  BY DEF Init, Once, CallOf
<1>2. IInv /\ Once /\ [Next]_vars => Once'
  BY OnceStep
<1> QED
  BY <1>1, <1>2, SyncInvariant, PTL DEF Spec

\* A statement is in every sink of its logger exactly once if it was enabled when
\* it began, and in none if it was not, whatever happened to its LineLogger and
\* to the level of the logger meanwhile.
THEOREM SyncWrittenOnce == SomeLogger /\ SinksDiffer => (Spec => []WrittenOnce)
<1> SUFFICES ASSUME SomeLogger, SinksDiffer PROVE Spec => []WrittenOnce
  OBVIOUS
<1>1. ASSUME IInv, Once, NEW t \in Threads, NEW m \in 1..CallOf(t), NEW s \in Sinks
      PROVE  LET w == said[t][m]
                 to == \E i \in DOMAIN SinksOf[w.logger] : SinksOf[w.logger][i] = s
                 n == Cardinality(Entries(s, t, m))
             IN  /\ n <= IF w.enabled /\ to THEN 1 ELSE 0
                 /\ Over(t, m) /\ w.enabled /\ to /\ ~terminated => n = 1
  <2> DEFINE g == said[t][m].logger
             to == \E i \in DOMAIN SinksOf[g] : SinksOf[g][i] = s
  <2>1. said[t][m] \in Statement /\ CallOf(t) \in Nat
    BY <1>1, StatementFacts DEF IInv
  <2>2. g \in Loggers /\ SinksOf[g] \in Seq(Sinks)
    BY <2>1, BoundTypes DEF Statement
  <2>3. m < CallOf(t) \/ (m = CallOf(t) /\ Current(t) = said[t][m])
    BY <2>1 DEF Current
  <2>4. Reached(t, m) \in 0..Len(SinksOf[g])
    <3>1. CASE m < CallOf(t)
      BY <2>2, <3>1 DEF Reached
    <3>2. CASE ~(m < CallOf(t))
      <4>1. Current(t) = said[t][m] /\ CallOf(t) > 0
        BY <2>1, <2>3, <3>2
      <4>2. /\ pc[t] # "idle" => g = logger[t]
            /\ pc[t] \in {"lock", "sink", "unlock"} =>
                 next[t] \in DOMAIN SinksOf[logger[t]]
        BY <1>1, <4>1 DEF IInv, Carried, CarriedBy, Counters
      <4>3. Far(t) \in 0..Len(SinksOf[g])
        BY <2>2, <4>1, <4>2 DEF Far
      <4> QED
        BY <3>2, <4>3 DEF Reached
    <3> QED
      BY <3>1, <3>2
  <2>5. Given(t, m, s) => said[t][m].enabled /\ to
    BY <2>2, <2>4 DEF Given
  <2>6. Over(t, m) /\ said[t][m].enabled /\ to => Given(t, m, s)
    <3>1. Over(t, m) => Reached(t, m) = Len(SinksOf[g])
      BY <2>3 DEF Over, Reached, Far
    <3> QED
      BY <2>2, <3>1 DEF Given
  <2>7. IF Given(t, m, s) THEN \E k : Entries(s, t, m) = {k} ELSE Entries(s, t, m) = {}
    BY <1>1 DEF Once, OnceIn
  <2>8. Cardinality(Entries(s, t, m)) = IF Given(t, m, s) THEN 1 ELSE 0
    BY <2>7, FS_EmptySet, FS_Singleton
  <2> QED
    BY <2>5, <2>6, <2>8
<1>2. IInv /\ Once => WrittenOnce
  <2> SUFFICES ASSUME IInv, Once, NEW c \in Calls, NEW s \in Sinks
               PROVE  LET w == said[c[1]][c[2]]
                          to == \E i \in DOMAIN SinksOf[w.logger] : SinksOf[w.logger][i] = s
                          n == Cardinality(Entries(s, c[1], c[2]))
                      IN  /\ n <= IF w.enabled /\ to THEN 1 ELSE 0
                          /\ Over(c[1], c[2]) /\ w.enabled /\ to /\ ~terminated => n = 1
    BY DEF WrittenOnce
  <2>1. PICK t \in Threads : c \in {t} \X (1..CallOf(t))
    BY DEF Calls
  <2>2. c[1] = t /\ c[2] \in 1..CallOf(t)
    BY <2>1
  <2> QED
    BY <1>1, <2>2
<1> QED
  BY <1>2, SyncInvariant, SyncOnce, PTL

=============================================================================
