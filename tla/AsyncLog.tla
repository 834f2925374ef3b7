-------------------------------- MODULE AsyncLog --------------------------------
(***************************************************************************)
(* src/common/log/async_log_helper.h: AsyncLogHelper.                      *)
(*                                                                         *)
(* Any number of threads call Log, which copies the message into the queue *)
(* q; one worker thread takes the messages out, formats them and hands     *)
(* them to every sink in turn.  The destructor logs a message of level off *)
(* and joins the worker.  An exception in the worker ends it and is left   *)
(* in last_workerthread_ex for the next call of Log to rethrow.            *)
(*                                                                         *)
(* The queue is TicketFifo, which MpmcQueue is shown to implement: its     *)
(* variables sent, head, op, ticket and item are variables here.           *)
(***************************************************************************)
EXTENDS Integers, Sequences, FiniteSets

CONSTANTS
  Clients,        \* threads that log through the helper
  Owner,          \* the thread that destroys it
  Worker,         \* worker_thread
  QueueSize,      \* queue_size
  Policies,       \* the overflow policies a helper may be made with
  SinkCount,      \* number of sinks
  Off,            \* an AsyncMsg of level kOff
  NoItem,         \* a default constructed or moved-from AsyncMsg
  StaleLoads,     \* TRUE: the queue's loads may return old values
  ForceOff,       \* TRUE: clients may ForceLog a message of level off
  MaxCalls,       \* bound: calls of Log by each client
  MaxFaults,      \* bound: exceptions from the warmup callback, formatter or a sink
  MaxFormatters   \* bound: calls of SetFormatter

\* q's constructor throws for any other size.
ASSUME QueueAssumption ==
  QueueSize \in Nat /\ QueueSize >= 2 /\ \E k \in 1..QueueSize : QueueSize = 2^k
ASSUME PolicyAssumption == Policies \subseteq {"kBlockRetry", "kDiscardLogMsg"}
ASSUME ThreadAssumption == /\ Owner \notin Clients \cup {Worker}
                           /\ Worker \notin Clients
ASSUME BoundAssumption == /\ SinkCount \in Nat \ {0}
                          /\ {MaxCalls, MaxFaults, MaxFormatters} \subseteq Nat
                          /\ {StaleLoads, ForceOff} \subseteq BOOLEAN

Loggers == Clients \cup {Owner}
Sinks == 1..SinkCount

Texts == Clients \X (1..MaxCalls)
Message == Texts \cup {Off}
ASSUME ItemAssumption == Off \notin Texts /\ NoItem \notin Message

VARIABLES
  sent, head, op, ticket, item,   \* q
  policy,       \* overflow_policy, which is const
  call,         \* where each logger is in Log; "out": not in a call
  calls,        \* calls of Log each client made
  exn,          \* last_workerthread_ex is not null
  threw,        \* history: the calls that ended in the worker's exception
  worker,       \* where worker_thread is; "stopped" and "failed" are its ends
  sink,         \* the sink the worker hands the message to
  line,         \* the formatted message in the worker's hands
  written,      \* what each sink was given
  formatter,    \* the current formatter, numbered in the order they were set
  faults,       \* exceptions so far
  dtor,         \* "no": not called, then "log", "join" and "done"
  fate          \* "alive", or the undefined behaviour that ended the process

queueVars == <<sent, head, op, ticket, item>>
workerVars == <<worker, sink, line, written, faults>>
vars == <<queueVars, policy, call, calls, exn, threw, workerVars, formatter, dtor, fate>>

Queue == INSTANCE TicketFifo WITH
  Producers <- Loggers, Consumers <- {Worker}, Item <- Message,
  Capacity <- QueueSize, Spurious <- StaleLoads

Line == [text : Texts, formatter : 0..MaxFormatters]
NoLine == [text |-> NoItem, formatter |-> 0]

Init ==
  /\ Queue!Init
  /\ policy \in Policies
  /\ call = [t \in Loggers |-> "out"]
  /\ calls = [c \in Clients |-> 0]
  /\ exn = FALSE
  /\ threw = {}
  /\ worker = "start"
  /\ sink = 1
  /\ line = NoLine
  /\ written = [i \in Sinks |-> <<>>]
  /\ formatter = 0
  /\ faults = 0
  /\ dtor = "no"
  /\ fate = "alive"

-----------------------------------------------------------------------------
(* Log(msg), called by clients and by the destructor                       *)

Enter(t, label) == call' = [call EXCEPT ![t] = label]

\* What t is logging in the call it is in.
Logging(t) == IF t = Owner THEN Off ELSE <<t, calls[t]>>

\* ThrowIfBadWorker and the first enqueue: the exception is there, or not yet.
BeginLog(t, m) ==
  \/ exn /\ Enter(t, "move") /\ UNCHANGED queueVars
  \/ ~exn /\ Enter(t, "enqueue") /\ Queue!CallEnqueue(t, m)

LogCall(c) ==
  /\ dtor = "no"
  /\ call[c] = "out"
  /\ calls[c] < MaxCalls
  /\ calls' = [calls EXCEPT ![c] = @ + 1]
  /\ \E m \in {<<c, calls[c] + 1>>} \cup (IF ForceOff THEN {Off} ELSE {}) : BeginLog(c, m)
  /\ UNCHANGED <<exn, threw, workerVars, formatter, dtor, fate>>

\* auto ex = std::move(last_workerthread_ex), without a lock: the pointer may be
\* gone again, or another thread may be between the two halves of its own move.
MoveException(t) ==
  /\ call[t] = "move"
  /\ \/ /\ ~exn
        /\ fate' = "null"
        /\ UNCHANGED call
     \/ /\ exn
        /\ \E u \in Loggers : call[u] = "throw"
        /\ fate' = "double"
        /\ UNCHANGED call
     \/ /\ exn
        /\ \A u \in Loggers : call[u] # "throw"
        /\ Enter(t, "throw")
        /\ UNCHANGED fate
  /\ UNCHANGED <<queueVars, calls, exn, threw, workerVars, formatter, dtor>>

\* Slip: the exception is copied out instead of moved.
ThrowKeepsException(t) ==
  /\ call[t] = "throw"
  /\ threw' = threw \cup {Logging(t)}
  /\ Enter(t, "out")
  /\ fate' = IF t = Owner THEN "std::terminate" ELSE fate
  /\ UNCHANGED <<queueVars, calls, exn, workerVars, formatter, dtor>>

\* The moved-from pointer is null, and *ex is thrown to the caller.  From the
\* destructor's call it reaches the catch clause behind join: the member
\* worker_thread is then destroyed while it is joinable.
Throw(t) ==
  /\ call[t] = "throw"
  /\ exn' = FALSE
  /\ threw' = threw \cup {Logging(t)}
  /\ Enter(t, "out")
  /\ fate' = IF t = Owner THEN "std::terminate" ELSE fate
  /\ UNCHANGED <<queueVars, calls, workerVars, formatter, dtor>>

\* Log returns; the destructor goes on to join.
Return(t) ==
  /\ Enter(t, "out")
  /\ dtor' = IF t = Owner THEN "join" ELSE dtor

EnqueueReserve(t) ==
  /\ Queue!Reserve(t)
  /\ UNCHANGED <<call, calls, exn, threw, workerVars, formatter, dtor, fate>>

EnqueuePublish(t) ==
  /\ Queue!Publish(t)
  /\ Return(t)
  /\ UNCHANGED <<calls, exn, threw, workerVars, formatter, fate>>

\* Slip: every refused message is given up.
EnqueueRefusedReturns(t) ==
  /\ Queue!RefuseEnqueue(t)
  /\ Return(t)
  /\ UNCHANGED <<calls, exn, threw, workerVars, formatter, fate>>

\* Slip: every refused message is retried.
EnqueueRefusedRetries(t) ==
  /\ Queue!RefuseEnqueue(t)
  /\ Enter(t, "retry")
  /\ UNCHANGED <<calls, exn, threw, workerVars, formatter, dtor, fate>>

\* enqueue returns false: the policy gives the message up, or retries.
EnqueueRefused(t) ==
  /\ Queue!RefuseEnqueue(t)
  /\ \/ policy = "kDiscardLogMsg" /\ Return(t)
     \/ policy # "kDiscardLogMsg" /\ Enter(t, "retry") /\ UNCHANGED dtor
  /\ UNCHANGED <<calls, exn, threw, workerVars, formatter, fate>>

\* SleepOrYield, then enqueue again: new_msg was not moved from.
RetryEnqueue(t) ==
  /\ call[t] = "retry"
  /\ Enter(t, "enqueue")
  /\ Queue!CallEnqueue(t, item[t])
  /\ UNCHANGED <<calls, exn, threw, workerVars, formatter, dtor, fate>>

-----------------------------------------------------------------------------
(* SetFormatter(formatter), by a client                                    *)

\* The worker calls the formatter through the shared pointer that is assigned
\* here.  Unless somebody else keeps the old formatter, it dies in mid-call.
SetFormatter ==
  /\ dtor = "no"
  /\ formatter < MaxFormatters
  /\ formatter' = formatter + 1
  /\ \/ UNCHANGED fate
     \/ worker = "format" /\ fate' = "dangling"
  /\ UNCHANGED <<queueVars, call, calls, exn, threw, workerVars, dtor>>

-----------------------------------------------------------------------------
(* WorkerLoop and ProcessNextMsg                                           *)

\* Slip: the exception is caught inside the loop, which goes on.
WorkerThrowsAndGoesOn ==
  /\ worker \in {"start", "format", "sink"}
  /\ faults < MaxFaults
  /\ faults' = faults + 1
  /\ worker' = "poll"
  /\ UNCHANGED <<queueVars, call, calls, exn, threw, sink, line, written, formatter, dtor, fate>>

\* The catch clauses of WorkerLoop around the warmup callback, the formatter
\* and the sinks: keep the exception and end the thread.
WorkerThrows ==
  /\ worker \in {"start", "format", "sink"}
  /\ faults < MaxFaults
  /\ faults' = faults + 1
  /\ exn' = TRUE
  /\ worker' = "failed"
  /\ UNCHANGED <<queueVars, call, calls, threw, sink, line, written, formatter, dtor, fate>>

WorkerWarmup ==
  /\ worker = "start"
  /\ worker' = "poll"
  /\ UNCHANGED <<queueVars, call, calls, exn, threw, sink, line, written, formatter,
                 faults, dtor, fate>>

WorkerDequeue ==
  /\ worker = "poll"
  /\ worker' = "dequeue"
  /\ Queue!CallDequeue(Worker)
  /\ UNCHANGED <<call, calls, exn, threw, sink, line, written, formatter, faults, dtor, fate>>

\* Slip: ProcessNextMsg returns false on an empty queue, as its comment has it.
WorkerStopsWhenEmpty ==
  /\ Queue!RefuseDequeue(Worker)
  /\ worker' = "stopped"
  /\ UNCHANGED <<call, calls, exn, threw, sink, line, written, formatter, faults, dtor, fate>>

\* The queue is empty: SleepOrYield and poll again.
WorkerFindsNothing ==
  /\ Queue!RefuseDequeue(Worker)
  /\ worker' = "poll"
  /\ UNCHANGED <<call, calls, exn, threw, sink, line, written, formatter, faults, dtor, fate>>

WorkerTake ==
  /\ Queue!Take(Worker)
  /\ UNCHANGED <<call, calls, exn, threw, workerVars, formatter, dtor, fate>>

\* Slip: a message of level off is a message like any other.
WorkerIgnoresOff ==
  /\ Queue!Release(Worker)
  /\ worker' = "format"
  /\ line' = [text |-> item[Worker], formatter |-> formatter]
  /\ UNCHANGED <<call, calls, exn, threw, sink, written, formatter, faults, dtor, fate>>

\* dequeue returns true: stop on a message of level off, else go to the
\* formatter, reading the pointer to it.
WorkerPopped ==
  /\ Queue!Release(Worker)
  /\ \/ item[Worker] = Off /\ worker' = "stopped" /\ UNCHANGED line
     \/ /\ item[Worker] # Off
        /\ worker' = "format"
        /\ line' = [text |-> item[Worker], formatter |-> formatter]
  /\ UNCHANGED <<call, calls, exn, threw, sink, written, formatter, faults, dtor, fate>>

WorkerFormatted ==
  /\ worker = "format"
  /\ worker' = "sink"
  /\ sink' = 1
  /\ UNCHANGED <<queueVars, call, calls, exn, threw, line, written, formatter, faults,
                 dtor, fate>>

\* Slip: the last sink does not end the loop over the sinks.
WorkerSinkPastEnd ==
  /\ worker = "sink"
  /\ written' = [written EXCEPT ![sink] = Append(@, line)]
  /\ sink' = sink + 1
  /\ UNCHANGED <<queueVars, call, calls, exn, threw, worker, line, formatter, faults, dtor, fate>>

\* Slip: every sink formats the message anew.
WorkerSinkFormats ==
  /\ worker = "sink"
  /\ written' = [written EXCEPT ![sink] = Append(@, [line EXCEPT !.formatter = formatter])]
  /\ \/ sink < SinkCount /\ sink' = sink + 1 /\ UNCHANGED worker
     \/ sink = SinkCount /\ worker' = "poll" /\ UNCHANGED sink
  /\ UNCHANGED <<queueVars, call, calls, exn, threw, line, formatter, faults, dtor, fate>>

WorkerSink ==
  /\ worker = "sink"
  /\ written' = [written EXCEPT ![sink] = Append(@, line)]
  /\ \/ sink < SinkCount /\ sink' = sink + 1 /\ UNCHANGED worker
     \/ sink = SinkCount /\ worker' = "poll" /\ UNCHANGED sink
  /\ UNCHANGED <<queueVars, call, calls, exn, threw, line, formatter, faults, dtor, fate>>

WorkerStep ==
  \/ WorkerWarmup \/ WorkerDequeue \/ WorkerFindsNothing \/ WorkerTake
  \/ WorkerPopped \/ WorkerFormatted \/ WorkerSink

-----------------------------------------------------------------------------
(* ~AsyncLogHelper                                                         *)

\* Nobody uses the object any more when it is destroyed.
DestructorLog ==
  /\ dtor = "no"
  /\ \A c \in Clients : call[c] = "out"
  /\ dtor' = "log"
  /\ BeginLog(Owner, Off)
  /\ UNCHANGED <<calls, exn, threw, workerVars, formatter, fate>>

\* join returns once the worker is at its end, whichever end that is.
DestructorJoin ==
  /\ dtor = "join"
  /\ worker \in {"stopped", "failed"}
  /\ dtor' = "done"
  /\ UNCHANGED <<queueVars, call, calls, exn, threw, workerVars, formatter, fate>>

-----------------------------------------------------------------------------

LogStep(t) ==
  \/ MoveException(t) \/ Throw(t)
  \/ EnqueueReserve(t) \/ EnqueuePublish(t) \/ EnqueueRefused(t) \/ RetryEnqueue(t)

\* The process is gone, or the object is.
Over == fate # "alive" \/ dtor = "done"

\* overflow_policy is never assigned.
Alive == fate = "alive" /\ UNCHANGED policy

Terminated == Over /\ UNCHANGED vars

Next ==
  \/ /\ Alive
     /\ \/ \E c \in Clients : LogCall(c)
        \/ \E t \in Loggers : LogStep(t)
        \/ SetFormatter
        \/ WorkerStep \/ WorkerThrows
        \/ DestructorLog \/ DestructorJoin
  \/ Terminated

Spec == Init /\ [][Next]_vars

\* Threads inside Log and the worker run on, and with stale loads an enqueue or a
\* dequeue that could succeed again and again does not fail for ever.
FairSpec ==
  /\ Spec
  /\ \A t \in Loggers : WF_vars(Alive /\ LogStep(t)) /\ SF_vars(Alive /\ EnqueueReserve(t))
  /\ WF_vars(Alive /\ WorkerStep) /\ SF_vars(Alive /\ WorkerTake)
  /\ WF_vars(Alive /\ DestructorJoin)

-----------------------------------------------------------------------------
(* Properties                                                              *)

\* Every variable has its type; a line that reached a sink has a text and one of
\* the formatters that were set.
TypeOK ==
  /\ Queue!TypeOK
  /\ policy \in Policies
  /\ call \in [Loggers -> {"out", "move", "throw", "enqueue", "retry"}]
  /\ calls \in [Clients -> 0..MaxCalls]
  /\ exn \in BOOLEAN
  /\ threw \subseteq Message
  /\ worker \in {"start", "poll", "dequeue", "format", "sink", "stopped", "failed"}
  /\ sink \in Sinks
  /\ line \in Line \cup {NoLine}
  /\ written \in [Sinks -> Seq(Line)]
  /\ formatter \in 0..MaxFormatters
  /\ faults \in 0..MaxFaults
  /\ dtor \in {"no", "log", "join", "done"}
  /\ fate \in {"alive", "null", "double", "dangling",
               "std::terminate"}

\* What a sink was given is what enqueue accepted, in that order, without a gap
\* or a repetition, up to the message the worker has in its hands: taking a
\* message out of the queue never loses it while the worker is at its loop.
SinksFollowQueue ==
  \A i \in Sinks :
    /\ Len(written[i]) \in {head - 1, head}
    /\ worker \in {"start", "poll"} => Len(written[i]) = head
    /\ \A n \in 1..Len(written[i]) : written[i][n].text = sent[n]

\* A message is formatted once, for all sinks: no sink gets a line the sinks
\* before it did not get, and no line is older in its format than one before it.
SinksAgree ==
  \A i, j \in Sinks : i < j =>
    /\ Len(written[j]) \in {Len(written[i]) - 1, Len(written[i])}
    /\ \A n \in 1..Len(written[j]) :
         /\ written[j][n] = written[i][n]
         /\ \A k \in 1..n : written[j][k].formatter <= written[j][n].formatter

Finished(c, k) == k < calls[c] \/ call[c] = "out"
Places(m) == {n \in 1..Len(sent) : sent[n] = m}

\* A call of Log that came back threw, or put its message in the queue, exactly
\* once however often it retried (at most once under kDiscardLogMsg), and the
\* messages of one thread are in the order of its calls.
NoSilentLoss ==
  \A c \in Clients : \A k \in 1..calls[c] :
    LET places == Cardinality(Places(<<c, k>>)) IN
      /\ places \in {0, 1}
      /\ <<c, k>> \in threw => places = 0
      /\ Finished(c, k) /\ fate = "alive" /\ policy = "kBlockRetry" =>
           places = 1 \/ <<c, k>> \in threw
      /\ \A l \in 1..(k - 1) : \A m \in Places(<<c, l>>), n \in Places(<<c, k>>) : m < n

\* Upon destruction all remaining messages in the queue are logged: unless an
\* exception ended the worker, every sink has everything that was accepted.
FlushedOnDestruction ==
  dtor = "done" /\ worker = "stopped" =>
    \A i \in Sinks : [n \in 1..Len(written[i]) |-> written[i][n].text] \o <<Off>> = sent

\* An exception that ended the worker is kept until one caller gets it, and only
\* one caller gets it.
FailureReportedOnce ==
  fate # "double" =>
    /\ worker = "failed" <=> exn \/ threw # {}
    /\ ~(exn /\ threw # {})
    /\ Cardinality(threw) <= 1

\* Under kBlockRetry a caller retries for ever (line 193) once the worker ended,
\* by an exception or a message of level off, and left the queue full.
Stuck ==
  policy = "kBlockRetry" /\ worker \in {"stopped", "failed"} /\ Len(sent) - head = QueueSize

\* Every other call of Log comes back, whatever the worker and its callers do.
LogReturns ==
  \A t \in Loggers : call[t] # "out" ~> call[t] = "out" \/ fate # "alive" \/ Stuck

\* The destructor comes back: it stops the worker and joins it.
DestructorFinishes == dtor = "log" ~> dtor = "done" \/ fate # "alive"

\* Under kBlockRetry it does, a failed worker or one that stopped early included.
RetryingDestructorFinishes ==
  dtor = "log" /\ policy = "kBlockRetry" ~> dtor = "done" \/ fate # "alive" \/ Stuck

\* What the queue accepted before a message of level off reaches every sink,
\* unless the worker fails.
AcceptedIsWritten ==
  \A n \in 1..(MaxCalls * Cardinality(Clients)) : \A i \in Sinks :
    Len(sent) >= n /\ Off \notin {sent[k] : k \in 1..n} ~>
      Len(written[i]) >= n \/ fate # "alive" \/ worker = "failed"

\* ThrowIfBadWorker: "throw last worker thread exception or if worker thread is
\* not active" (line 131).  No call goes on to the queue once the worker ended.
BadWorkerThrows ==
  [][\A t \in Loggers :
       call[t] = "out" /\ call'[t] = "enqueue" => worker \notin {"stopped", "failed"}]_vars

=============================================================================
