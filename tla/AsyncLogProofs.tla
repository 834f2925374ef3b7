---------------------------- MODULE AsyncLogProofs ----------------------------
(***************************************************************************)
(* Theorems about AsyncLog, for every number of clients, sinks, calls,     *)
(* faults and formatters, every size of the queue and both policies.       *)
(***************************************************************************)
EXTENDS AsyncLog, FiniteSetTheorems, TLAPS

-----------------------------------------------------------------------------
(* The inductive invariant                                                 *)

\* Where a thread is in Log and where it is in the queue agree, a message that
\* is not in the queue yet is still in the caller's hands, nobody is inside Log
\* once the destructor runs, and the worker holds the message it took last.
CallsAndQueue ==
  /\ head <= Len(sent)
  /\ \A t \in Loggers :
       /\ call[t] = "enqueue" <=> op[t] \in {"calling", "holding"}
       /\ call[t] = "retry" => op[t] = "refused"
       /\ call[t] = "retry" \/ op[t] = "calling" => item[t] \in Message
  /\ \A c \in Clients : call[c] # "out" => calls[c] > 0 /\ dtor = "no"
  /\ call[Owner] # "out" => dtor = "log"
  /\ worker = "dequeue" <=> op[Worker] \in {"calling", "holding"}
  /\ op[Worker] = "holding" => head > 0 /\ item[Worker] = sent[head]

\* How far each sink is, for each place the worker can be at.
Progress ==
  /\ \A i \in Sinks :
       /\ Len(written[i]) \in {head - 1, head}
       /\ worker \in {"start", "poll"} \/ op[Worker] = "calling" => Len(written[i]) = head
       /\ worker \in {"format", "stopped"} \/ op[Worker] = "holding" =>
            Len(written[i]) = head - 1
       /\ worker = "sink" => Len(written[i]) = IF i < sink THEN head ELSE head - 1
       /\ \A n \in 1..Len(written[i]) : written[i][n].text = sent[n]
  /\ worker \in {"format", "sink"} => head > 0 /\ line \in Line /\ line.text = sent[head]

\* The sinks get the same lines in their order, and the line in the worker's
\* hands is no older in its format than those it wrote.
Formats ==
  /\ \A i, j \in Sinks : i < j =>
       /\ Len(written[j]) <= Len(written[i])
       /\ \A n \in 1..Len(written[j]) : written[j][n] = written[i][n]
  /\ \A i \in Sinks : \A n \in 1..Len(written[i]) :
       /\ written[i][n].formatter <= formatter
       /\ worker \in {"format", "sink"} => written[i][n].formatter <= line.formatter
       /\ \A k \in 1..n : written[i][k].formatter <= written[i][n].formatter
  /\ worker \in {"format", "sink"} => line.formatter <= formatter
  /\ worker = "sink" => \A i \in Sinks : i < sink => written[i][head] = line

\* One thread at a time is between the halves of moving the exception out, and
\* it is still there; afterwards it is not, and one call threw it.
Failure ==
  /\ worker = "failed" <=> exn \/ threw # {}
  /\ ~(exn /\ threw # {})
  /\ \A m, n \in threw : m = n
  /\ \A t \in Loggers : call[t] = "throw" => exn
  /\ \A t, u \in Loggers : call[t] = "throw" /\ call[u] = "throw" => t = u

IInv == TypeOK /\ CallsAndQueue /\ Progress /\ Formats /\ Failure

-----------------------------------------------------------------------------
(* Types                                                                   *)

\* What the proofs use of the types and of the parameters.
LEMMA Types ==
  ASSUME TypeOK
  PROVE  /\ sent \in Seq(Message) /\ head \in Nat
         /\ op \in [Loggers \cup {Worker} ->
                      {"idle", "done", "refused", "calling", "holding"}]
         /\ ticket \in [Loggers \cup {Worker} -> Nat \cup {-1}]
         /\ item \in [Loggers \cup {Worker} -> Message \cup {NoItem}]
         /\ Len(sent) \in Nat
BY DEF TypeOK, Queue!TypeOK, Queue!Thread, Queue!Resting, Queue!NoTicket

\* The threads are different.
LEMMA Threads ==
  /\ Worker \notin Loggers /\ Owner \in Loggers /\ Owner \notin Clients
  /\ \A c \in Clients : c \in Loggers /\ c # Owner /\ c # Worker
BY ThreadAssumption DEF Loggers

\* What a call of enqueue or dequeue does to the queue's variables.
LEMMA QueueStepTypes ==
  ASSUME Queue!TypeOK, head <= Len(sent),
         \A t \in Loggers : op[t] = "calling" => item[t] \in Message,
         \/ UNCHANGED queueVars
         \/ \E t \in Loggers, m \in Message : Queue!CallEnqueue(t, m)
         \/ \E t \in Loggers : Queue!Reserve(t) \/ Queue!Publish(t) \/ Queue!RefuseEnqueue(t)
         \/ Queue!CallDequeue(Worker) \/ Queue!Take(Worker)
         \/ Queue!Release(Worker) \/ Queue!RefuseDequeue(Worker)
  PROVE  Queue!TypeOK' /\ head' <= Len(sent')
<1> USE DEF Queue!TypeOK, Queue!Thread, Queue!Resting, Queue!NoTicket, Queue!tail
<1>1. CASE UNCHANGED queueVars
  BY <1>1 DEF queueVars
<1>2. ASSUME NEW t \in Loggers, NEW m \in Message, Queue!CallEnqueue(t, m)
      PROVE  Queue!TypeOK' /\ head' <= Len(sent')
  BY <1>2 DEF Queue!CallEnqueue
<1>3. ASSUME NEW t \in Loggers, Queue!Reserve(t)
      PROVE  Queue!TypeOK' /\ head' <= Len(sent')
  BY <1>3 DEF Queue!Reserve
<1>4. ASSUME NEW t \in Loggers, Queue!Publish(t) \/ Queue!RefuseEnqueue(t)
      PROVE  Queue!TypeOK' /\ head' <= Len(sent')
  BY <1>4 DEF Queue!Publish, Queue!RefuseEnqueue
<1>5. CASE Queue!CallDequeue(Worker)
  BY <1>5 DEF Queue!CallDequeue
<1>6. CASE Queue!Take(Worker)
  BY <1>6 DEF Queue!Take, Queue!Empty
<1>7. CASE Queue!Release(Worker) \/ Queue!RefuseDequeue(Worker)
  BY <1>7 DEF Queue!Release, Queue!RefuseDequeue
<1> QED
  BY <1>1, <1>2, <1>3, <1>4, <1>5, <1>6, <1>7

\* What is enqueued is a message: a client's text of this call, or level off.
LEMMA LoggedIsMessage ==
  ASSUME TypeOK
  PROVE  /\ Off \in Message
         /\ \A c \in Clients : calls[c] < MaxCalls => <<c, calls[c] + 1>> \in Message
         /\ \A c \in Clients : calls[c] > 0 => Logging(c) \in Texts
BY Threads, BoundAssumption DEF TypeOK, Message, Texts, Logging

-----------------------------------------------------------------------------
(* The invariant holds initially                                           *)

\* Before anybody logs nothing is queued and no sink has a line.
LEMMA InitInvariant == Init => IInv
<1> SUFFICES ASSUME Init PROVE IInv
  OBVIOUS
<1> USE DEF Init, Queue!Init, Queue!Thread
<1>1. TypeOK
  <2>1. Queue!TypeOK
    BY DEF Queue!TypeOK, Queue!Resting, Queue!NoTicket
  <2>2. 1 \in Sinks /\ 0 \in 0..MaxCalls /\ 0 \in 0..MaxFaults /\ 0 \in 0..MaxFormatters
    BY BoundAssumption DEF Sinks
  <2>3. written \in [Sinks -> Seq(Line)]
    <3>1. <<>> \in Seq(Line)
      OBVIOUS
    <3> QED
      BY <3>1
  <2> QED
    BY <2>1, <2>2, <2>3 DEF TypeOK
<1>2. CallsAndQueue
  BY Threads DEF CallsAndQueue
<1>3. Progress /\ Formats /\ Failure
  BY Threads DEF Progress, Formats, Failure
<1> QED
  BY <1>1, <1>2, <1>3 DEF IInv

-----------------------------------------------------------------------------
(* Every step keeps the types and the agreement of calls and queue         *)

\* A client that begins to log takes a number for its message, and the queue a ticket.
LEMMA LogCallTypes ==
  ASSUME IInv, NEW c \in Clients, LogCall(c), Alive
  PROVE  TypeOK' /\ CallsAndQueue'
<1> USE Threads DEF LogCall
<1>1. PICK m \in {<<c, calls[c] + 1>>} \cup (IF ForceOff THEN {Off} ELSE {}) : BeginLog(c, m)
  OBVIOUS
<1>2. m \in Message
  BY <1>1, LoggedIsMessage DEF IInv
<1>3. Queue!TypeOK' /\ head' <= Len(sent')
  BY <1>1, <1>2, QueueStepTypes DEF BeginLog, IInv, TypeOK, CallsAndQueue
<1>4. /\ calls' \in [Clients -> 0..MaxCalls] /\ calls'[c] > 0
      /\ \A d \in Clients \ {c} : calls'[d] = calls[d]
  BY BoundAssumption DEF IInv, TypeOK
<1>5. call' \in [Loggers -> {"out", "move", "throw", "enqueue", "retry"}]
  BY <1>1 DEF BeginLog, Enter, IInv, TypeOK
<1>6. TypeOK'
  BY <1>3, <1>4, <1>5 DEF IInv, TypeOK, workerVars, Alive
<1>7. CallsAndQueue'
  <2> USE Types DEF IInv, CallsAndQueue, workerVars, Enter
  <2>1. CASE exn /\ Enter(c, "move") /\ UNCHANGED queueVars
    BY <2>1, <1>4 DEF queueVars, TypeOK
  <2>2. CASE ~exn /\ Enter(c, "enqueue") /\ Queue!CallEnqueue(c, m)
    BY <2>2, <1>2, <1>4 DEF TypeOK, Queue!CallEnqueue
  <2> QED
    BY <1>1, <2>1, <2>2 DEF BeginLog
<1> QED
  BY <1>6, <1>7

\* The steps of a call that is under way.
LEMMA LogStepTypes ==
  ASSUME IInv, NEW t \in Loggers, LogStep(t), Alive
  PROVE  TypeOK' /\ CallsAndQueue'
<1> USE Threads DEF Alive, workerVars
<1>1. CASE MoveException(t)
  <2>1. TypeOK'
    <3>1. call' \in [Loggers -> {"out", "move", "throw", "enqueue", "retry"}]
      BY <1>1 DEF MoveException, Enter, IInv, TypeOK
    <3>2. fate' \in {"alive", "null", "double"}
      BY <1>1 DEF MoveException
    <3>3. Queue!TypeOK'
      BY <1>1, QueueStepTypes DEF MoveException, IInv, TypeOK, CallsAndQueue
    <3> QED
      BY <1>1, <3>1, <3>2, <3>3 DEF MoveException, IInv, TypeOK
  <2>2. CallsAndQueue'
    BY <1>1, Types DEF MoveException, Enter, IInv, TypeOK, CallsAndQueue, queueVars
  <2> QED
    BY <2>1, <2>2
<1>2. CASE Throw(t)
  <2>1. Logging(t) \in Message
    BY <1>2, LoggedIsMessage DEF Throw, IInv, CallsAndQueue, Logging, Loggers, Message
  <2>2. TypeOK'
    <3>1. call' \in [Loggers -> {"out", "move", "throw", "enqueue", "retry"}]
      BY <1>2 DEF Throw, Enter, IInv, TypeOK
    <3>2. Queue!TypeOK'
      BY <1>2, QueueStepTypes DEF Throw, IInv, TypeOK, CallsAndQueue
    <3> QED
      BY <1>2, <2>1, <3>1, <3>2 DEF Throw, IInv, TypeOK
  <2>3. CallsAndQueue'
    BY <1>2, Types DEF Throw, Enter, IInv, TypeOK, CallsAndQueue, queueVars
  <2> QED
    BY <2>2, <2>3
<1>3. CASE EnqueueReserve(t) \/ EnqueuePublish(t) \/ EnqueueRefused(t)
  <2>1. Queue!Reserve(t) \/ Queue!Publish(t) \/ Queue!RefuseEnqueue(t)
    BY <1>3 DEF EnqueueReserve, EnqueuePublish, EnqueueRefused
  <2>2. Queue!TypeOK'
    BY <2>1, QueueStepTypes DEF IInv, TypeOK, CallsAndQueue
  <2>3. /\ UNCHANGED <<calls, exn, threw, worker, sink, line, written, faults, formatter, fate>>
        /\ \/ call' = call
           \/ call' = [call EXCEPT ![t] = "out"]
           \/ call' = [call EXCEPT ![t] = "retry"]
        /\ dtor' \in {dtor, "join"}
    BY <1>3 DEF EnqueueReserve, EnqueuePublish, EnqueueRefused, Return, Enter
  <2>4. TypeOK'
    BY <2>2, <2>3 DEF IInv, TypeOK
  <2>5. ASSUME EnqueueReserve(t) PROVE CallsAndQueue'
    BY <2>5, Types DEF EnqueueReserve, Queue!Reserve, IInv, TypeOK, CallsAndQueue
  <2>6. ASSUME EnqueuePublish(t) PROVE CallsAndQueue'
    BY <2>6, Types DEF EnqueuePublish, Queue!Publish, Return, Enter, IInv, TypeOK, CallsAndQueue
  <2>7. ASSUME EnqueueRefused(t) PROVE CallsAndQueue'
    BY <2>7, Types DEF EnqueueRefused, Queue!RefuseEnqueue, Return, Enter, IInv, TypeOK,
       CallsAndQueue
  <2> QED
    BY <1>3, <2>4, <2>5, <2>6, <2>7
<1>4. CASE RetryEnqueue(t)
  <2>1. item[t] \in Message /\ Queue!CallEnqueue(t, item[t])
    BY <1>4 DEF RetryEnqueue, IInv, CallsAndQueue
  <2>2. TypeOK'
    <3>1. call' \in [Loggers -> {"out", "move", "throw", "enqueue", "retry"}]
      BY <1>4 DEF RetryEnqueue, Enter, IInv, TypeOK
    <3>2. Queue!TypeOK'
      BY <2>1, QueueStepTypes DEF IInv, TypeOK, CallsAndQueue
    <3> QED
      BY <1>4, <3>1, <3>2 DEF RetryEnqueue, IInv, TypeOK
  <2>3. CallsAndQueue'
    BY <1>4, <2>1, Types DEF RetryEnqueue, Queue!CallEnqueue, Enter, IInv, TypeOK, CallsAndQueue
  <2> QED
    BY <2>2, <2>3
<1> QED
  BY <1>1, <1>2, <1>3, <1>4 DEF LogStep

\* The steps of the worker.
LEMMA WorkerTypes ==
  ASSUME IInv, WorkerStep \/ WorkerThrows, Alive
  PROVE  TypeOK' /\ CallsAndQueue'
<1> USE Threads DEF Alive
<1>1. /\ UNCHANGED <<call, calls, threw, formatter, dtor, fate, policy>>
      /\ \/ UNCHANGED queueVars
         \/ Queue!CallDequeue(Worker) \/ Queue!Take(Worker)
         \/ Queue!Release(Worker) \/ Queue!RefuseDequeue(Worker)
  BY DEF WorkerStep, WorkerThrows, WorkerWarmup, WorkerDequeue, WorkerFindsNothing, WorkerTake,
     WorkerPopped, WorkerFormatted, WorkerSink
<1>2. Queue!TypeOK' /\ head' <= Len(sent')
  BY <1>1, QueueStepTypes DEF IInv, TypeOK, CallsAndQueue
<1>3. CASE WorkerThrows
  <2>1. faults' \in 0..MaxFaults /\ exn' = TRUE
    BY <1>3, BoundAssumption DEF WorkerThrows, IInv, TypeOK
  <2>2. TypeOK'
    BY <1>1, <1>2, <1>3, <2>1 DEF WorkerThrows, IInv, TypeOK
  <2>3. CallsAndQueue'
    BY <1>1, <1>3 DEF WorkerThrows, IInv, CallsAndQueue, queueVars
  <2> QED
    BY <2>2, <2>3
<1>4. CASE WorkerWarmup \/ WorkerFormatted
  <2>1. 1 \in Sinks
    BY BoundAssumption DEF Sinks
  <2>2. TypeOK'
    BY <1>1, <1>2, <1>4, <2>1 DEF WorkerWarmup, WorkerFormatted, IInv, TypeOK
  <2>3. CallsAndQueue'
    BY <1>1, <1>4 DEF WorkerWarmup, WorkerFormatted, IInv, CallsAndQueue, queueVars
  <2> QED
    BY <2>2, <2>3
<1>5. CASE WorkerDequeue
  <2>1. TypeOK'
    BY <1>1, <1>2, <1>5 DEF WorkerDequeue, IInv, TypeOK
  <2>2. CallsAndQueue'
    BY <1>1, <1>2, <1>5, Types DEF WorkerDequeue, Queue!CallDequeue, IInv, CallsAndQueue
  <2> QED
    BY <2>1, <2>2
<1>6. CASE WorkerFindsNothing
  <2>1. TypeOK'
    BY <1>1, <1>2, <1>6 DEF WorkerFindsNothing, IInv, TypeOK
  <2>2. CallsAndQueue'
    BY <1>1, <1>2, <1>6, Types DEF WorkerFindsNothing, Queue!RefuseDequeue, IInv, CallsAndQueue
  <2> QED
    BY <2>1, <2>2
<1>7. CASE WorkerTake
  <2>1. TypeOK'
    BY <1>1, <1>2, <1>7 DEF WorkerTake, workerVars, IInv, TypeOK
  <2>2. CallsAndQueue'
    BY <1>1, <1>2, <1>7, Types DEF WorkerTake, workerVars, Queue!Take, IInv, CallsAndQueue
  <2> QED
    BY <2>1, <2>2
<1>8. CASE WorkerPopped
  <2>1. line' \in Line \cup {NoLine}
    <3>1. item[Worker] \in Message
      BY <1>8, Types DEF WorkerPopped, Queue!Release, IInv, CallsAndQueue
    <3> QED
      BY <1>8, <3>1 DEF WorkerPopped, Line, Message, IInv, TypeOK
  <2>2. TypeOK'
    BY <1>1, <1>2, <1>8, <2>1 DEF WorkerPopped, IInv, TypeOK
  <2>3. CallsAndQueue'
    BY <1>1, <1>2, <1>8, Types DEF WorkerPopped, Queue!Release, IInv, CallsAndQueue
  <2> QED
    BY <2>2, <2>3
<1>9. CASE WorkerSink
  <2>1. line \in Line
    BY <1>9 DEF WorkerSink, IInv, Progress
  <2>2. sink' \in Sinks /\ worker' \in {"poll", "sink"}
    BY <1>9, BoundAssumption DEF WorkerSink, IInv, TypeOK, Sinks
  <2>3. written' \in [Sinks -> Seq(Line)]
    BY <1>9, <2>1 DEF WorkerSink, IInv, TypeOK
  <2>4. TypeOK'
    BY <1>1, <1>2, <1>9, <2>2, <2>3 DEF WorkerSink, IInv, TypeOK
  <2>5. CallsAndQueue'
    BY <1>1, <1>9 DEF WorkerSink, IInv, CallsAndQueue, queueVars
  <2> QED
    BY <2>4, <2>5
<1> QED
  BY <1>3, <1>4, <1>5, <1>6, <1>7, <1>8, <1>9 DEF WorkerStep

\* SetFormatter and the destructor.
LEMMA OtherTypes ==
  ASSUME IInv, SetFormatter \/ DestructorLog \/ DestructorJoin, Alive
  PROVE  TypeOK' /\ CallsAndQueue'
<1> USE Threads DEF Alive
<1>1. CASE SetFormatter
  <2>1. formatter' \in 0..MaxFormatters /\ fate' \in {fate, "dangling"}
    BY <1>1, BoundAssumption DEF SetFormatter, IInv, TypeOK
  <2>2. Queue!TypeOK'
    BY <1>1, QueueStepTypes DEF SetFormatter, IInv, TypeOK, CallsAndQueue
  <2>3. TypeOK'
    BY <1>1, <2>1, <2>2 DEF SetFormatter, workerVars, IInv, TypeOK
  <2>4. CallsAndQueue'
    BY <1>1 DEF SetFormatter, workerVars, queueVars, IInv, CallsAndQueue
  <2> QED
    BY <2>3, <2>4
<1>2. CASE DestructorLog
  <2>1. /\ Off \in Message /\ BeginLog(Owner, Off) /\ dtor = "no" /\ dtor' = "log"
        /\ UNCHANGED <<calls, exn, threw, workerVars, formatter, fate>>
    BY <1>2, LoggedIsMessage DEF DestructorLog, IInv
  <2>2. Queue!TypeOK'
    BY <2>1, QueueStepTypes DEF BeginLog, IInv, TypeOK, CallsAndQueue
  <2>3. call' \in [Loggers -> {"out", "move", "throw", "enqueue", "retry"}]
    BY <2>1 DEF BeginLog, Enter, IInv, TypeOK
  <2>4. TypeOK'
    BY <2>1, <2>2, <2>3 DEF workerVars, IInv, TypeOK
  <2>5. \A c \in Clients : call[c] = "out"
    BY <1>2 DEF DestructorLog
  <2>6. CallsAndQueue'
    <3> USE Types DEF IInv, CallsAndQueue, workerVars, Enter
    <3>1. CASE exn /\ Enter(Owner, "move") /\ UNCHANGED queueVars
      <4>1. call'[Owner] = "move" /\ \A u \in Loggers \ {Owner} : call'[u] = call[u]
        BY <3>1 DEF TypeOK
      <4> QED
        BY <2>1, <2>5, <3>1, <4>1 DEF queueVars
    <3>2. CASE ~exn /\ Enter(Owner, "enqueue") /\ Queue!CallEnqueue(Owner, Off)
      BY <2>1, <2>5, <3>2 DEF TypeOK, Queue!CallEnqueue
    <3> QED
      BY <2>1, <3>1, <3>2 DEF BeginLog
  <2> QED
    BY <2>4, <2>6
<1>3. CASE DestructorJoin
  <2>1. Queue!TypeOK'
    BY <1>3, QueueStepTypes DEF DestructorJoin, IInv, TypeOK, CallsAndQueue
  <2>2. TypeOK'
    BY <1>3, <2>1 DEF DestructorJoin, workerVars, IInv, TypeOK
  <2>3. CallsAndQueue'
    BY <1>3 DEF DestructorJoin, workerVars, queueVars, IInv, CallsAndQueue
  <2> QED
    BY <2>2, <2>3
<1> QED
  BY <1>1, <1>2, <1>3

-----------------------------------------------------------------------------
(* What the sinks were given                                               *)

\* What a step of a thread other than the worker may change of what the worker
\* and the sinks work with: messages are added to the queue, formatters set.
ClientStep ==
  /\ UNCHANGED <<head, worker, sink, line, written>> /\ op'[Worker] = op[Worker]
  /\ item'[Worker] = item[Worker]
  /\ sent' = sent \/ \E m \in Message : sent' = Append(sent, m)
  /\ formatter' \in {formatter, formatter + 1}

\* Everything that is not done by the worker is a step of that kind.
LEMMA ClientSteps ==
  ASSUME IInv,
         \/ \E c \in Clients : LogCall(c)
         \/ \E t \in Loggers : LogStep(t)
         \/ SetFormatter \/ DestructorLog \/ DestructorJoin
  PROVE  ClientStep
<1> USE Threads, Types DEF ClientStep, IInv, workerVars, queueVars
<1>1. ASSUME NEW t \in Loggers, NEW m, BeginLog(t, m), UNCHANGED <<workerVars, formatter>>
      PROVE  ClientStep
  BY <1>1 DEF BeginLog, Queue!CallEnqueue
<1>2. ASSUME NEW c \in Clients, LogCall(c) PROVE ClientStep
  BY <1>1, <1>2 DEF LogCall
<1>3. ASSUME NEW t \in Loggers, MoveException(t) \/ Throw(t) PROVE ClientStep
  BY <1>3 DEF MoveException, Throw
<1>4. ASSUME NEW t \in Loggers, EnqueueReserve(t) PROVE ClientStep
  <2>1. item[t] \in Message
    BY <1>4 DEF EnqueueReserve, Queue!Reserve, CallsAndQueue
  <2> QED
    BY <1>4, <2>1 DEF EnqueueReserve, Queue!Reserve
<1>5. ASSUME NEW t \in Loggers, EnqueuePublish(t) \/ EnqueueRefused(t) PROVE ClientStep
  BY <1>5 DEF EnqueuePublish, EnqueueRefused, Queue!Publish, Queue!RefuseEnqueue
<1>6. ASSUME NEW t \in Loggers, RetryEnqueue(t) PROVE ClientStep
  BY <1>6 DEF RetryEnqueue, Queue!CallEnqueue
<1>7. CASE DestructorLog
  BY <1>1, <1>7 DEF DestructorLog
<1>8. CASE SetFormatter \/ DestructorJoin
  BY <1>8 DEF SetFormatter, DestructorJoin
<1> QED
  BY <1>2, <1>3, <1>4, <1>5, <1>6, <1>7, <1>8 DEF LogStep

\* Nobody but the worker moves the sinks on.
LEMMA ClientProgress ==
  ASSUME IInv, ClientStep
  PROVE  Progress' /\ Formats'
<1>1. /\ sent \in Seq(Message) /\ head \in Nat /\ head <= Len(sent)
      /\ written \in [Sinks -> Seq(Line)] /\ formatter \in Nat
      /\ line \in Line \cup {NoLine}
  BY Types, BoundAssumption DEF IInv, TypeOK, CallsAndQueue
<1>2. \A n \in 1..head : sent'[n] = sent[n]
  BY <1>1 DEF ClientStep
<1>3. \A i \in Sinks : Len(written[i]) <= head
  BY <1>1 DEF IInv, Progress
<1>4. Progress'
  <2>1. ASSUME NEW i \in Sinks, NEW n \in 1..Len(written[i])
        PROVE  written[i][n].text = sent'[n]
    BY <1>1, <1>2, <1>3 DEF IInv, Progress
  <2> QED
    BY <1>1, <1>2, <2>1 DEF ClientStep, IInv, Progress
<1>5. Formats'
  <2>1. ASSUME NEW i \in Sinks, NEW n \in 1..Len(written[i])
        PROVE  written[i][n].formatter <= formatter'
    <3>1. written[i][n] \in Line
      BY <1>1
    <3>2. written[i][n].formatter \in Nat
      BY <3>1, BoundAssumption DEF Line
    <3>3. written[i][n].formatter <= formatter
      BY DEF IInv, Formats
    <3> QED
      BY <1>1, <3>2, <3>3 DEF ClientStep
  <2>2. worker \in {"format", "sink"} => line.formatter <= formatter'
    BY <1>1 DEF ClientStep, IInv, Formats, Progress, Line
  <2> QED
    BY <2>1, <2>2 DEF ClientStep, IInv, Formats
<1> QED
  BY <1>4, <1>5

\* The numbers of lines and their formatters are natural numbers.
LEMMA Lines ==
  ASSUME TypeOK
  PROVE  /\ head \in Nat /\ formatter \in Nat /\ sink \in Sinks /\ Sinks \subseteq Int
         /\ written \in [Sinks -> Seq(Line)]
         /\ \A i \in Sinks : Len(written[i]) \in Nat
         /\ \A i \in Sinks : \A n \in 1..Len(written[i]) : written[i][n].formatter \in Nat
         /\ line \in Line => line.formatter \in Nat
<1>1. \A l \in Line : l.formatter \in Nat
  BY BoundAssumption DEF Line
<1>2. ASSUME NEW i \in Sinks, NEW n \in 1..Len(written[i])
      PROVE  written[i][n].formatter \in Nat
  <2>1. written[i][n] \in Line
    BY DEF TypeOK
  <2> QED
    BY <1>1, <2>1
<1> QED
  BY <1>1, <1>2, Types, BoundAssumption DEF TypeOK, Sinks

\* The worker's steps up to the formatter add no line.
LEMMA WorkerProgress ==
  ASSUME IInv, WorkerWarmup \/ WorkerDequeue \/ WorkerFindsNothing \/ WorkerTake
               \/ WorkerPopped \/ WorkerFormatted \/ WorkerThrows
  PROVE  Progress' /\ Formats'
<1> USE Types, Threads DEF IInv
<1>1. UNCHANGED <<written, formatter, sent>>
  BY DEF WorkerWarmup, WorkerDequeue, WorkerFindsNothing, WorkerTake, WorkerPopped,
     WorkerFormatted, WorkerThrows, queueVars, workerVars, Queue!CallDequeue,
     Queue!RefuseDequeue, Queue!Take, Queue!Release
<1>2. \A i \in Sinks : \A n \in 1..Len(written[i]) : written[i][n].text = sent[n]
  BY DEF Progress
<1>3. CASE WorkerWarmup \/ WorkerThrows
  <2>1. UNCHANGED <<head, op, line, sink>> /\ worker' \in {"poll", "failed"}
    BY <1>3 DEF WorkerWarmup, WorkerThrows, queueVars
  <2>2. worker' = "poll" => worker = "start"
    BY <1>3 DEF WorkerWarmup, WorkerThrows
  <2>3. worker # "dequeue"
    BY <1>3 DEF WorkerWarmup, WorkerThrows
  <2>4. Progress'
    BY <1>1, <1>2, <2>1, <2>2, <2>3 DEF Progress, CallsAndQueue
  <2>5. Formats'
    BY <1>1, <2>1 DEF Formats
  <2> QED
    BY <2>4, <2>5
<1>4. CASE WorkerDequeue \/ WorkerFindsNothing
  <2>1. /\ UNCHANGED <<head, line, sink>>
        /\ \/ worker = "poll" /\ worker' = "dequeue" /\ op'[Worker] = "calling"
           \/ op[Worker] = "calling" /\ worker' = "poll" /\ op'[Worker] = "refused"
    BY <1>4 DEF WorkerDequeue, WorkerFindsNothing, Queue!CallDequeue, Queue!RefuseDequeue
  <2>2. Progress'
    BY <1>1, <1>2, <2>1 DEF Progress
  <2>3. Formats'
    BY <1>1, <2>1 DEF Formats
  <2> QED
    BY <2>2, <2>3
<1>5. CASE WorkerTake
  <2>1. /\ UNCHANGED <<worker, line, sink>> /\ head' = head + 1
        /\ op[Worker] = "calling" /\ op'[Worker] = "holding" /\ worker = "dequeue"
    BY <1>5 DEF WorkerTake, workerVars, Queue!Take, CallsAndQueue
  <2>2. \A i \in Sinks : Len(written[i]) = head
    BY <2>1 DEF Progress
  <2>3. Progress'
    BY <1>1, <1>2, <2>1, <2>2 DEF Progress
  <2>4. Formats'
    BY <1>1, <2>1 DEF Formats
  <2> QED
    BY <2>3, <2>4
<1>6. CASE WorkerPopped
  <2>1. /\ UNCHANGED <<head, sink>> /\ op[Worker] = "holding" /\ op'[Worker] = "done"
        /\ \/ worker' = "stopped" /\ line' = line
           \/ /\ worker' = "format" /\ item[Worker] # Off
              /\ line' = [text |-> item[Worker], formatter |-> formatter]
    BY <1>6 DEF WorkerPopped, Queue!Release
  <2>2. head > 0 /\ item[Worker] = sent[head] /\ item[Worker] \in Message
    BY <2>1 DEF CallsAndQueue
  <2>3. worker' = "format" => line' \in Line /\ line'.text = sent[head] /\ line'.formatter = formatter
    BY <2>1, <2>2 DEF Line, Message, TypeOK
  <2>4. Progress'
    BY <1>1, <1>2, <2>1, <2>2, <2>3 DEF Progress
  <2>5. Formats'
    BY <1>1, <2>1, <2>3, Lines DEF Formats
  <2> QED
    BY <2>4, <2>5
<1>7. CASE WorkerFormatted
  <2>1. /\ UNCHANGED <<head, op, line>> /\ worker = "format" /\ worker' = "sink" /\ sink' = 1
    BY <1>7 DEF WorkerFormatted, queueVars
  <2>2. op[Worker] \notin {"calling", "holding"} /\ \A i \in Sinks : ~(i < 1)
    BY <2>1 DEF CallsAndQueue, Sinks
  <2>3. Progress'
    BY <1>1, <1>2, <2>1, <2>2 DEF Progress
  <2>4. Formats'
    BY <1>1, <2>1, <2>2 DEF Formats
  <2> QED
    BY <2>3, <2>4
<1> QED
  BY <1>3, <1>4, <1>5, <1>6, <1>7

\* A sink is given the line the sinks before it have, at the same place.
LEMMA SinkProgress ==
  ASSUME IInv, WorkerSink
  PROVE  Progress' /\ Formats'
<1>1. /\ UNCHANGED <<head, op, sent, line, formatter>> /\ worker = "sink"
      /\ written' = [written EXCEPT ![sink] = Append(@, line)]
      /\ \/ sink < SinkCount /\ sink' = sink + 1 /\ worker' = "sink"
         \/ sink = SinkCount /\ worker' = "poll" /\ sink' = sink
  BY DEF WorkerSink, queueVars
<1>2. /\ head \in Nat /\ formatter \in Nat /\ sink \in Sinks /\ Sinks \subseteq Int
      /\ written \in [Sinks -> Seq(Line)] /\ line.formatter \in Nat
      /\ line \in Line /\ head > 0 /\ line.text = sent[head] /\ line.formatter <= formatter
  BY <1>1, Lines DEF IInv, Progress, Formats
<1>3. ASSUME NEW i \in Sinks
      PROVE  /\ Len(written[i]) = IF i < sink THEN head ELSE head - 1
             /\ \A n \in 1..Len(written[i]) : written[i][n] \in Line
  BY <1>1, <1>2 DEF IInv, Progress
<1>4. /\ Len(written'[sink]) = head /\ written'[sink][head] = line
      /\ \A n \in 1..(head - 1) : written'[sink][n] = written[sink][n]
      /\ \A i \in Sinks \ {sink} : written'[i] = written[i]
  BY <1>1, <1>2, <1>3
<1>5. ASSUME NEW i \in Sinks
      PROVE  Len(written'[i]) = IF i <= sink THEN head ELSE head - 1
  <2>1. CASE i = sink
    BY <1>2, <1>4, <2>1
  <2>2. CASE i # sink
    <3>1. i <= sink <=> i < sink
      BY <1>2, <2>2
    <3> QED
      BY <1>3, <1>4, <2>2, <3>1
  <2> QED
    BY <2>1, <2>2
<1>6. \A i \in Sinks : i <= SinkCount
  BY BoundAssumption DEF Sinks
<1>7. Progress'
  <2>1. ASSUME NEW i \in Sinks, NEW n \in 1..Len(written'[i])
        PROVE  written'[i][n].text = sent[n]
    BY <1>1, <1>2, <1>3, <1>4, <1>5 DEF IInv, Progress
  <2>2. op'[Worker] \notin {"calling", "holding"}
    BY <1>1 DEF IInv, CallsAndQueue
  <2>3. ASSUME NEW i \in Sinks
        PROVE  /\ Len(written'[i]) \in {head - 1, head}
               /\ worker' = "poll" => Len(written'[i]) = head
               /\ worker' = "sink" => Len(written'[i]) = IF i < sink' THEN head ELSE head - 1
    BY <1>1, <1>2, <1>5, <1>6
  <2> QED
    BY <1>1, <1>2, <2>1, <2>2, <2>3 DEF Progress
<1>8. Formats'
  <2>1. ASSUME NEW i \in Sinks, NEW j \in Sinks, i < j
        PROVE  /\ Len(written'[j]) <= Len(written'[i])
               /\ \A n \in 1..Len(written'[j]) : written'[j][n] = written'[i][n]
    <3>1. Len(written'[j]) <= Len(written'[i])
      BY <1>2, <1>5, <2>1
    <3>2. ASSUME NEW n \in 1..Len(written'[j]), n <= head - 1
          PROVE  written'[j][n] = written'[i][n]
      <4>1. n \in 1..Len(written[i]) /\ n \in 1..Len(written[j])
        BY <1>2, <1>3, <3>2
      <4>2. written[j][n] = written[i][n]
        BY <2>1, <4>1 DEF IInv, Formats
      <4> QED
        BY <1>2, <1>4, <3>2, <4>2
    <3>3. ASSUME head \in 1..Len(written'[j])
          PROVE  written'[j][head] = line /\ written'[i][head] = line
      <4>1. j <= sink
        BY <1>2, <1>5, <3>3
      <4>2. \A k \in Sinks : k < sink => written[k][head] = line
        BY <1>1 DEF IInv, Formats
      <4> QED
        BY <1>2, <1>4, <2>1, <4>1, <4>2
    <3>4. Len(written'[j]) <= head
      BY <1>2, <1>5
    <3> QED
      BY <1>2, <3>1, <3>2, <3>3, <3>4
  <2>2. ASSUME NEW i \in Sinks, NEW n \in 1..Len(written'[i])
        PROVE  /\ written'[i][n].formatter <= line.formatter
               /\ \A k \in 1..n : written'[i][k].formatter <= written'[i][n].formatter
    <3>1. ASSUME NEW k \in 1..Len(written'[i])
          PROVE  \/ k \in 1..Len(written[i]) /\ written'[i][k] = written[i][k]
                 \/ k = Len(written'[i]) /\ written'[i][k] = line
      <4>1. CASE i = sink
        <5>1. Len(written[i]) = head - 1 /\ Len(written'[i]) = head
          BY <1>2, <1>3, <1>4, <4>1
        <5> QED
          BY <1>2, <1>4, <4>1, <5>1
      <4>2. CASE i # sink
        BY <1>4, <4>2
      <4> QED
        BY <4>1, <4>2
    <3>2. ASSUME NEW k \in 1..Len(written[i])
          PROVE  /\ written[i][k].formatter <= line.formatter
                 /\ \A l \in 1..k : written[i][l].formatter <= written[i][k].formatter
      BY <1>1 DEF IInv, Formats
    <3>3. Len(written'[i]) \in Nat
      BY <1>2, <1>5
    <3>4. ASSUME NEW k \in 1..Len(written'[i])
          PROVE  written'[i][k].formatter <= line.formatter
      <4>1. CASE k \in 1..Len(written[i]) /\ written'[i][k] = written[i][k]
        BY <3>2, <4>1
      <4>2. CASE written'[i][k] = line
        <5>1. line.formatter \in Nat
          BY <1>2
        <5> QED
          BY <4>2, <5>1
      <4> QED
        BY <3>1, <4>1, <4>2
    <3>5. ASSUME NEW k \in 1..n
          PROVE  written'[i][k].formatter <= written'[i][n].formatter
      <4>1. k \in 1..Len(written'[i])
        BY <3>3
      <4>2. CASE n = Len(written'[i]) /\ written'[i][n] = line
        BY <3>4, <4>1, <4>2
      <4>3. CASE n \in 1..Len(written[i]) /\ written'[i][n] = written[i][n] /\ k = n
        BY <3>2, <4>3
      <4>4. CASE n \in 1..Len(written[i]) /\ written'[i][n] = written[i][n] /\ k # n
        <5>1. k # Len(written'[i])
          BY <3>3, <4>4
        <5> QED
          BY <3>1, <3>2, <4>1, <4>4, <5>1
      <4> QED
        BY <3>1, <4>2, <4>3, <4>4
    <3> QED
      BY <3>4, <3>5
  <2>3. ASSUME NEW i \in Sinks, NEW n \in 1..Len(written'[i])
        PROVE  written'[i][n].formatter <= formatter
    <3>1. written'[i][n] \in Line
      <4>1. CASE i # sink
        <5>1. written'[i] = written[i]
          BY <1>4, <4>1
        <5> QED
          BY <1>3, <5>1
      <4>2. CASE i = sink /\ n = head
        BY <1>2, <1>4, <4>2
      <4>3. CASE i = sink /\ n # head
        <5>1. Len(written'[sink]) = head /\ Len(written[sink]) = head - 1
          BY <1>2, <1>3, <1>4
        <5>2. n \in 1..(head - 1)
          BY <1>2, <4>3, <5>1
        <5> QED
          BY <1>2, <1>3, <1>4, <4>3, <5>1, <5>2
      <4> QED
        BY <4>1, <4>2, <4>3
    <3>2. written'[i][n].formatter \in Nat
      BY <3>1, BoundAssumption DEF Line
    <3> QED
      BY <1>2, <2>2, <3>2
  <2>4. ASSUME worker' = "sink", NEW i \in Sinks, i < sink'
        PROVE  written'[i][head] = line
    <3>1. i = sink \/ i < sink
      BY <1>1, <1>2, <2>4
    <3>2. \A k \in Sinks : k < sink => written[k][head] = line
      BY <1>1 DEF IInv, Formats
    <3> QED
      BY <1>2, <1>4, <3>1, <3>2
  <2> QED
    BY <1>1, <1>2, <2>1, <2>2, <2>3, <2>4 DEF Formats
<1> QED
  BY <1>7, <1>8

-----------------------------------------------------------------------------
(* The exception of the worker                                             *)

\* A step that leaves the exception where it is, brings nobody between the
\* halves of its move and neither ends nor revives the worker.
LEMMA FailureFrame ==
  ASSUME Failure, UNCHANGED <<exn, threw>>, worker' = "failed" <=> worker = "failed",
         \A t \in Loggers : call'[t] = "throw" => call[t] = "throw"
  PROVE  Failure'
BY DEF Failure

\* An exception of a sink stays with the worker, or with the one client it is given to.
LEMMA FailurePreserved ==
  ASSUME IInv,
         \/ \E c \in Clients : LogCall(c)
         \/ \E t \in Loggers : LogStep(t)
         \/ SetFormatter \/ DestructorLog \/ DestructorJoin
         \/ WorkerStep \/ WorkerThrows
  PROVE  Failure'
<1> USE DEF IInv, workerVars
<1>0. call \in [Loggers -> {"out", "move", "throw", "enqueue", "retry"}]
  BY DEF TypeOK
<1>1. ASSUME NEW t \in Loggers, NEW m, BeginLog(t, m), UNCHANGED <<exn, threw, worker>>
      PROVE  Failure'
  BY <1>0, <1>1, FailureFrame DEF BeginLog, Enter
<1>2. ASSUME NEW c \in Clients, LogCall(c) PROVE Failure'
  BY <1>1, <1>2, Threads DEF LogCall
<1>3. ASSUME NEW t \in Loggers, MoveException(t) PROVE Failure'
  <2>1. CASE UNCHANGED call
    BY <1>3, <2>1, FailureFrame DEF MoveException
  <2>2. CASE exn /\ (\A u \in Loggers : call[u] # "throw") /\ Enter(t, "throw")
    BY <1>0, <1>3, <2>2 DEF MoveException, Enter, Failure
  <2> QED
    BY <1>3, <2>1, <2>2 DEF MoveException
<1>4. ASSUME NEW t \in Loggers, Throw(t) PROVE Failure'
  <2>1. /\ call[t] = "throw" /\ exn' = FALSE /\ threw' = threw \cup {Logging(t)}
        /\ call' = [call EXCEPT ![t] = "out"] /\ worker' = worker
    BY <1>4 DEF Throw, Enter
  <2>2. worker = "failed" /\ threw = {} /\ \A u \in Loggers : call[u] = "throw" => u = t
    BY <2>1 DEF Failure
  <2>3. threw' = {Logging(t)} /\ \A u \in Loggers : call'[u] # "throw"
    BY <1>0, <2>1, <2>2
  <2> QED
    BY <2>1, <2>2, <2>3 DEF Failure
<1>5. ASSUME NEW t \in Loggers,
             EnqueueReserve(t) \/ EnqueuePublish(t) \/ EnqueueRefused(t) \/ RetryEnqueue(t)
      PROVE  Failure'
  <2>1. /\ UNCHANGED <<exn, threw, worker>>
        /\ \/ call' = call
           \/ call' = [call EXCEPT ![t] = "out"]
           \/ call' = [call EXCEPT ![t] = "retry"]
           \/ call' = [call EXCEPT ![t] = "enqueue"]
    BY <1>5 DEF EnqueueReserve, EnqueuePublish, EnqueueRefused, RetryEnqueue, Return, Enter
  <2> QED
    BY <1>0, <2>1, FailureFrame
<1>6. CASE SetFormatter \/ DestructorJoin
  BY <1>6, FailureFrame DEF SetFormatter, DestructorJoin
<1>7. CASE DestructorLog
  BY <1>1, <1>7, Threads DEF DestructorLog
<1>8. CASE WorkerStep
  <2>1. UNCHANGED <<exn, threw, call>> /\ worker' # "failed" /\ worker # "failed"
    BY <1>8 DEF WorkerStep, WorkerWarmup, WorkerDequeue, WorkerFindsNothing, WorkerTake,
       WorkerPopped, WorkerFormatted, WorkerSink, CallsAndQueue, Queue!Take,
       Queue!RefuseDequeue, Queue!Release
  <2> QED
    BY <2>1, FailureFrame
<1>9. CASE WorkerThrows
  <2>1. UNCHANGED <<threw, call>> /\ worker' = "failed" /\ worker # "failed" /\ exn' = TRUE
    BY <1>9 DEF WorkerThrows
  <2> QED
    BY <2>1 DEF Failure
<1> QED
  BY <1>2, <1>3, <1>4, <1>5, <1>6, <1>7, <1>8, <1>9 DEF LogStep

-----------------------------------------------------------------------------
(* The invariant and what follows from it                                  *)

\* Every step keeps all parts of the invariant.
LEMMA StepInvariant == IInv /\ [Next]_vars => IInv'
<1> SUFFICES ASSUME IInv, [Next]_vars PROVE IInv'
  OBVIOUS
<1>1. ASSUME Alive,
             \/ \E c \in Clients : LogCall(c)
             \/ \E t \in Loggers : LogStep(t)
             \/ SetFormatter \/ DestructorLog \/ DestructorJoin
      PROVE  IInv'
  <2>1. TypeOK' /\ CallsAndQueue'
    BY <1>1, LogCallTypes, LogStepTypes, OtherTypes
  <2>2. Progress' /\ Formats'
    BY <1>1, ClientSteps, ClientProgress
  <2>3. Failure'
    BY <1>1, FailurePreserved
  <2> QED
    BY <2>1, <2>2, <2>3 DEF IInv
<1>2. ASSUME Alive, WorkerStep \/ WorkerThrows
      PROVE  IInv'
  <2>1. TypeOK' /\ CallsAndQueue'
    BY <1>2, WorkerTypes
  <2>2. Progress' /\ Formats'
    BY <1>2, WorkerProgress, SinkProgress DEF WorkerStep
  <2>3. Failure'
    BY <1>2, FailurePreserved
  <2> QED
    BY <2>1, <2>2, <2>3 DEF IInv
<1>3. CASE UNCHANGED vars
  BY <1>3 DEF vars, queueVars, workerVars, IInv, TypeOK, Queue!TypeOK, CallsAndQueue,
     Progress, Formats, Failure
<1> QED
  BY <1>1, <1>2, <1>3 DEF Next, Terminated

\* The calls of Log, the queue, the worker and its exception stay in step in every
\* behaviour, whatever throws and whoever races for the exception.
THEOREM AsyncInvariant == Spec => []IInv
BY InitInvariant, StepInvariant, PTL DEF Spec

\* Variables keep their types.
THEOREM AsyncTypes == Spec => []TypeOK
<1>1. IInv => TypeOK
  BY DEF IInv
<1> QED
  BY <1>1, AsyncInvariant, PTL

\* What a sink was given is what enqueue accepted, in that order, up to the
\* message in the worker's hands.
THEOREM AsyncSinksFollowQueue == Spec => []SinksFollowQueue
<1>1. IInv => SinksFollowQueue
  BY DEF IInv, Progress, SinksFollowQueue
<1> QED
  BY <1>1, AsyncInvariant, PTL

\* All sinks get the same lines, formatted once, and the formats never go back.
THEOREM AsyncSinksAgree == Spec => []SinksAgree
<1>1. IInv => SinksAgree
  <2> SUFFICES ASSUME IInv, NEW i \in Sinks, NEW j \in Sinks, i < j
               PROVE  /\ Len(written[j]) \in {Len(written[i]) - 1, Len(written[i])}
                      /\ \A n \in 1..Len(written[j]) :
                           /\ written[j][n] = written[i][n]
                           /\ \A k \in 1..n :
                                written[j][k].formatter <= written[j][n].formatter
    BY DEF SinksAgree
  <2>1. /\ Len(written[j]) <= Len(written[i])
        /\ \A n \in 1..Len(written[j]) :
             /\ written[j][n] = written[i][n]
             /\ \A k \in 1..n : written[j][k].formatter <= written[j][n].formatter
    BY DEF IInv, Formats
  <2>2. /\ head \in Nat /\ Len(written[i]) \in Nat /\ Len(written[j]) \in Nat
        /\ Len(written[i]) \in {head - 1, head} /\ Len(written[j]) \in {head - 1, head}
    BY Lines DEF IInv, Progress
  <2> QED
    BY <2>1, <2>2
<1> QED
  BY <1>1, AsyncInvariant, PTL

\* An exception that ended the worker stays until one caller gets it, and only
\* one caller gets it.
THEOREM AsyncFailureReportedOnce == Spec => []FailureReportedOnce
<1>1. IInv => FailureReportedOnce
  <2> SUFFICES ASSUME IInv PROVE Cardinality(threw) <= 1
    BY DEF IInv, Failure, FailureReportedOnce
  <2>1. CASE threw = {}
    BY <2>1, FS_EmptySet
  <2>2. CASE threw # {}
    <3>1. PICK m : threw = {m}
      BY <2>2 DEF IInv, Failure
    <3>2. Cardinality({m}) = 1
      BY FS_Singleton
    <3> QED
      BY <3>1, <3>2
  <2> QED
    BY <2>1, <2>2
<1> QED
  BY <1>1, AsyncInvariant, PTL

-----------------------------------------------------------------------------
(* Where the messages are, as long as the clients log no message of level   *)
(* off: one of theirs stops the worker, and what follows it stays behind.   *)

\* A message that is not in the queue yet is that of the call its thread is in.
CallersMessage ==
  \A t \in Loggers : call[t] = "retry" \/ op[t] = "calling" => item[t] = Logging(t)

\* The message of level off is the destructor's, and the last.
OffIsLast ==
  \A n \in 1..Len(sent) : sent[n] = Off =>
    n = Len(sent) /\ dtor # "no" /\ (op[Owner] = "holding" \/ call[Owner] = "out")

\* It is what stops the worker.
StoppedByOff == worker = "stopped" => sent[head] = Off

\* A call has its message in the queue from the moment it holds a ticket on, and
\* then it is through; there are no messages of calls that were not made.
Placed ==
  \A c \in Clients :
    /\ op[c] = "holding" => \E n \in 1..Len(sent) : sent[n] = <<c, calls[c]>>
    /\ \A k \in 1..MaxCalls, n \in 1..Len(sent) : sent[n] = <<c, k>> =>
         k <= calls[c] /\ (k = calls[c] => op[c] = "holding" \/ call[c] = "out")

\* The messages of a thread are in the order of its calls, and each only once.
Ordered ==
  \A c \in Clients, k, l \in 1..MaxCalls, m, n \in 1..Len(sent) :
    sent[m] = <<c, l>> /\ sent[n] = <<c, k>> /\ m < n => l < k

\* A call that threw is over, and its message is not in the queue.
Thrown ==
  \A c \in Clients, k \in 1..MaxCalls : <<c, k>> \in threw =>
    /\ k <= calls[c] /\ (k = calls[c] => call[c] = "out")
    /\ \A n \in 1..Len(sent) : sent[n] # <<c, k>>

\* A call that is over under kBlockRetry threw or has its message in the queue.
Accounted ==
  policy = "kBlockRetry" => \A c \in Clients : \A k \in 1..calls[c] : Finished(c, k) =>
    <<c, k>> \in threw \/ \E n \in 1..Len(sent) : sent[n] = <<c, k>>

Ledger ==
  CallersMessage /\ OffIsLast /\ StoppedByOff /\ Placed /\ Ordered /\ Thrown /\ Accounted

\* At first there are neither calls nor messages.
LEMMA InitLedger == Init => Ledger
BY Threads DEF Init, Queue!Init, Queue!Thread, Ledger, CallersMessage, OffIsLast, StoppedByOff,
   Placed, Ordered, Thrown, Accounted

\* The worker only takes messages out, and stops on the one of level off.
LEMMA WorkerLedger ==
  ASSUME IInv, Ledger, WorkerStep \/ WorkerThrows, Alive
  PROVE  Ledger'
<1>1. /\ UNCHANGED <<sent, call, calls, threw, dtor, policy>>
      /\ \A t \in Loggers : op'[t] = op[t] /\ item'[t] = item[t]
  BY Threads, Types DEF WorkerStep, WorkerThrows, WorkerWarmup, WorkerDequeue,
     WorkerFindsNothing, WorkerTake, WorkerPopped, WorkerFormatted, WorkerSink, queueVars, Alive,
     Queue!CallDequeue, Queue!Take, Queue!Release, Queue!RefuseDequeue, IInv
<1>2. StoppedByOff'
  <2>1. WorkerPopped => StoppedByOff'
    BY DEF WorkerPopped, Queue!Release, IInv, CallsAndQueue, StoppedByOff
  <2>2. ~WorkerPopped => worker' # "stopped"
    BY DEF WorkerStep, WorkerThrows, WorkerWarmup, WorkerDequeue, WorkerFindsNothing,
       WorkerTake, WorkerFormatted, WorkerSink, workerVars, Queue!Take, IInv, CallsAndQueue
  <2> QED
    BY <2>1, <2>2 DEF StoppedByOff
<1>3. CallersMessage' /\ OffIsLast'
  BY <1>1, Threads DEF Ledger, CallersMessage, OffIsLast, Logging
<1>4. Placed' /\ Ordered' /\ Thrown' /\ Accounted'
  BY <1>1, Threads DEF Ledger, Placed, Ordered, Thrown, Accounted, Finished
<1> QED
  BY <1>2, <1>3, <1>4 DEF Ledger

\* Nobody but the worker stops, and no message moves in the queue.
LEMMA ClientStopped ==
  ASSUME IInv, Ledger, ClientStep
  PROVE  StoppedByOff'
<1>1. worker = "stopped" => head \in 1..Len(sent)
  <2>1. 1 \in Sinks
    BY BoundAssumption DEF Sinks
  <2> QED
    BY <2>1, Types, Lines DEF IInv, Progress, CallsAndQueue
<1> QED
  BY <1>1, Types DEF IInv, ClientStep, Ledger, StoppedByOff

\* A new call has a message of its own.
LEMMA LogCallLedger ==
  ASSUME IInv, Ledger, ~ForceOff, NEW c \in Clients, LogCall(c), Alive
  PROVE  Ledger'
<1> USE Threads
<1>1. /\ call[c] = "out" /\ dtor = "no" /\ calls[c] < MaxCalls
      /\ calls' = [calls EXCEPT ![c] = @ + 1] /\ BeginLog(c, <<c, calls[c] + 1>>)
      /\ UNCHANGED <<threw, dtor, policy>>
  BY DEF LogCall, Alive
<1>2. /\ calls \in [Clients -> 0..MaxCalls] /\ calls'[c] = calls[c] + 1 /\ calls[c] \in Nat
      /\ \A d \in Clients \ {c} : calls'[d] = calls[d]
  BY <1>1, BoundAssumption DEF IInv, TypeOK
<1>3. /\ sent' = sent /\ call'[c] \in {"move", "enqueue"}
      /\ op[c] \notin {"calling", "holding"}
      /\ \A u \in Loggers \ {c} : /\ call'[u] = call[u] /\ op'[u] = op[u]
                                 /\ item'[u] = item[u]
      /\ (op'[c] = "calling" /\ item'[c] = <<c, calls'[c]>>) \/ op'[c] = op[c]
  BY <1>1, <1>2, Types DEF BeginLog, Enter, Queue!CallEnqueue, queueVars, IInv, TypeOK, CallsAndQueue
<1>4. CallersMessage'
  <2> SUFFICES ASSUME NEW u \in Loggers, call'[u] = "retry" \/ op'[u] = "calling"
               PROVE  item'[u] = Logging(u)'
    BY DEF CallersMessage
  <2>1. CASE u = c
    BY <1>3, <2>1 DEF Logging
  <2>2. CASE u # c
    BY <1>2, <1>3, <2>2 DEF Ledger, CallersMessage, Logging, Loggers
  <2> QED
    BY <2>1, <2>2
<1>5. OffIsLast'
  BY <1>1, <1>3 DEF Ledger, OffIsLast
<1>6. StoppedByOff'
  BY ClientSteps, ClientStopped
<1>7. Placed'
  <2>1. ASSUME NEW k \in 1..MaxCalls, NEW n \in 1..Len(sent), sent[n] = <<c, k>>
        PROVE  k <= calls'[c] /\ k # calls'[c]
    <3>1. k <= calls[c] /\ k \in Int
      BY <2>1 DEF Ledger, Placed
    <3> QED
      BY <1>2, <3>1
  <2>2. op'[c] # "holding"
    BY <1>3
  <2>3. ASSUME NEW d \in Clients \ {c}
        PROVE  calls'[d] = calls[d] /\ op'[d] = op[d] /\ call'[d] = call[d]
    BY <1>2, <1>3
  <2> SUFFICES ASSUME NEW d \in Clients
               PROVE  (/\ op[d] = "holding" => \E n \in 1..Len(sent) : sent[n] = <<d, calls[d]>>
                       /\ \A k \in 1..MaxCalls, n \in 1..Len(sent) : sent[n] = <<d, k>> =>
                            /\ k <= calls[d]
                            /\ k = calls[d] => op[d] = "holding" \/ call[d] = "out")'
    BY DEF Placed
  <2>4. CASE d = c
    BY <1>3, <2>1, <2>2, <2>4
  <2>5. CASE d # c
    BY <1>3, <2>3, <2>5 DEF Ledger, Placed
  <2> QED
    BY <2>4, <2>5
<1>8. Ordered'
  BY <1>3 DEF Ledger, Ordered
<1>9. Thrown'
  BY <1>1, <1>2, <1>3 DEF Ledger, Thrown
<1>10. Accounted'
  <2> SUFFICES ASSUME policy = "kBlockRetry", NEW d \in Clients, NEW k \in 1..calls'[d],
                      Finished(d, k)'
               PROVE  <<d, k>> \in threw \/ \E n \in 1..Len(sent) : sent[n] = <<d, k>>
    BY <1>1, <1>3 DEF Accounted
  <2>1. k \in 1..calls[d] /\ Finished(d, k)
    <3>1. CASE d = c
      BY <1>1, <1>2, <1>3, <3>1 DEF Finished
    <3>2. CASE d # c
      BY <1>2, <1>3, <3>2 DEF Finished
    <3> QED
      BY <3>1, <3>2
  <2> QED
    BY <2>1 DEF Ledger, Accounted
<1> QED
  BY <1>4, <1>5, <1>6, <1>7, <1>8, <1>9, <1>10 DEF Ledger

\* Racing for the exception moves no message.
LEMMA ExceptionLedger ==
  ASSUME IInv, Ledger, NEW t \in Loggers, MoveException(t) \/ Throw(t), Alive
  PROVE  Ledger'
<1> USE Threads
<1>0. StoppedByOff'
  BY ClientSteps, ClientStopped DEF LogStep
<1>1. UNCHANGED <<sent, op, item, calls, dtor, policy>>
  BY DEF MoveException, Throw, queueVars, Alive
<1>2. /\ call[t] \in {"move", "throw"} /\ op[t] \notin {"calling", "holding"}
      /\ \A u \in Loggers \ {t} : call'[u] = call[u]
      /\ \/ call'[t] = "out" /\ threw' = threw \cup {Logging(t)}
         \/ call'[t] \in {"move", "throw"} /\ threw' = threw
  BY DEF MoveException, Throw, Enter, IInv, TypeOK, CallsAndQueue
<1>3. CallersMessage'
  BY <1>1, <1>2 DEF Ledger, CallersMessage, Logging
<1>4. OffIsLast'
  BY <1>1, <1>2 DEF Ledger, OffIsLast
<1>5. Placed' /\ Ordered'
  BY <1>1, <1>2 DEF Ledger, Placed, Ordered
<1>6. t \in Clients => Logging(t) = <<t, calls[t]>> /\ calls[t] \in 1..MaxCalls
  BY <1>2 DEF Logging, IInv, TypeOK, CallsAndQueue
<1>7. \A k \in 1..MaxCalls : \A c \in Clients : Logging(t) = <<c, k>> => t = c /\ k = calls[c]
  BY ItemAssumption DEF Logging, Texts, Loggers
<1>8. Thrown'
  <2> SUFFICES ASSUME NEW c \in Clients, NEW k \in 1..MaxCalls, <<c, k>> \in threw'
               PROVE  /\ k <= calls[c] /\ (k = calls[c] => call'[c] = "out")
                      /\ \A n \in 1..Len(sent) : sent[n] # <<c, k>>
    BY <1>1 DEF Thrown
  <2>1. CASE <<c, k>> \in threw
    BY <1>2, <2>1 DEF Ledger, Thrown
  <2>2. CASE <<c, k>> \notin threw
    <3>1. c = t /\ k = calls[c] /\ call'[t] = "out"
      BY <1>2, <1>7, <2>2
    <3>2. ASSUME NEW n \in 1..Len(sent) PROVE sent[n] # <<c, k>>
      BY <1>2, <3>1 DEF Ledger, Placed
    <3> QED
      BY <3>1, <3>2
  <2> QED
    BY <2>1, <2>2
<1>9. Accounted'
  <2> SUFFICES ASSUME policy = "kBlockRetry", NEW c \in Clients, NEW k \in 1..calls[c],
                      Finished(c, k)'
               PROVE  <<c, k>> \in threw' \/ \E n \in 1..Len(sent) : sent[n] = <<c, k>>
    BY <1>1 DEF Accounted
  <2>1. CASE Finished(c, k)
    BY <1>2, <2>1 DEF Ledger, Accounted
  <2>2. CASE ~Finished(c, k)
    <3>1. c = t /\ call'[t] = "out" /\ ~(k < calls[c]) /\ calls[c] \in 0..MaxCalls
      BY <1>1, <1>2, <2>2 DEF Finished, IInv, TypeOK
    <3>2. k = calls[c]
      BY <3>1
    <3> QED
      BY <1>2, <1>6, <3>1, <3>2
  <2> QED
    BY <2>1, <2>2
<1> QED
  BY <1>0, <1>3, <1>4, <1>5, <1>8, <1>9 DEF Ledger

\* A reservation puts the message of the call at the end of the queue.
LEMMA ReserveLedger ==
  ASSUME IInv, Ledger, NEW t \in Loggers, EnqueueReserve(t), Alive
  PROVE  Ledger'
<1> USE Threads
<1>0. StoppedByOff'
  BY ClientSteps, ClientStopped DEF LogStep
<1>1. /\ UNCHANGED <<call, calls, threw, dtor, policy>>
      /\ op[t] = "calling" /\ call[t] = "enqueue" /\ item[t] = Logging(t)
      /\ sent' = Append(sent, item[t])
  BY DEF EnqueueReserve, Queue!Reserve, Alive, IInv, CallsAndQueue, Ledger, CallersMessage
<1>2. /\ op'[t] = "holding"
      /\ \A u \in Loggers \ {t} : op'[u] = op[u] /\ item'[u] = item[u]
  BY Types DEF EnqueueReserve, Queue!Reserve, IInv
<1> DEFINE N == Len(sent)
<1>3. /\ N \in Nat /\ Len(sent') = N + 1 /\ sent'[N + 1] = Logging(t)
      /\ \A n \in 1..N : sent'[n] = sent[n]
  BY <1>1, Types DEF IInv, CallsAndQueue
<1>4. \A n \in 1..(N + 1) : n \in 1..N \/ n = N + 1
  BY <1>3
<1> HIDE DEF N
<1>5. /\ t \in Clients => Logging(t) = <<t, calls[t]>> /\ Logging(t) # Off
      /\ t = Owner => Logging(t) = Off
  BY <1>1, LoggedIsMessage, ItemAssumption DEF Logging, IInv, CallsAndQueue
<1>6. \A c \in Clients, k \in 1..MaxCalls : Logging(t) = <<c, k>> => t = c /\ k = calls[c]
  BY ItemAssumption DEF Logging, Texts, Loggers
<1>7. t \in Clients \/ t = Owner
  BY DEF Loggers
<1>8. CallersMessage'
  BY <1>1, <1>2 DEF Ledger, CallersMessage, Logging
<1>9. \A n \in 1..N : sent[n] # Off
  <2>1. CASE t \in Clients
    BY <1>1, <2>1 DEF Ledger, OffIsLast, IInv, CallsAndQueue, N
  <2>2. CASE t = Owner
    BY <1>1, <2>2 DEF Ledger, OffIsLast, N
  <2> QED
    BY <1>7, <2>1, <2>2
<1>10. OffIsLast'
  <2>1. t = Owner => dtor # "no"
    BY <1>1 DEF IInv, CallsAndQueue
  <2>2. ASSUME NEW n \in 1..(N + 1), sent'[n] = Off PROVE n = N + 1 /\ t = Owner
    BY <1>3, <1>4, <1>5, <1>7, <1>9, <2>2
  <2> QED
    BY <1>1, <1>2, <1>3, <2>1, <2>2 DEF OffIsLast
<1>11. \A k \in 1..MaxCalls, n \in 1..N : t \in Clients /\ sent[n] = <<t, k>> => k < calls[t]
  <2> SUFFICES ASSUME NEW k \in 1..MaxCalls, NEW n \in 1..N, t \in Clients, sent[n] = <<t, k>>
               PROVE  k < calls[t]
    OBVIOUS
  <2>1. k <= calls[t] /\ k # calls[t]
    BY <1>1 DEF Ledger, Placed, N
  <2> QED
    BY <2>1 DEF IInv, TypeOK
<1>12. Placed'
  <2> SUFFICES ASSUME NEW c \in Clients
               PROVE  /\ op'[c] = "holding" => \E n \in 1..(N + 1) : sent'[n] = <<c, calls[c]>>
                      /\ \A k \in 1..MaxCalls, n \in 1..(N + 1) : sent'[n] = <<c, k>> =>
                           /\ k <= calls[c]
                           /\ k = calls[c] => op'[c] = "holding" \/ call[c] = "out"
    BY <1>1, <1>3 DEF Placed
  <2>1. CASE c = t
    <3>1. N + 1 \in 1..(N + 1) /\ sent'[N + 1] = <<c, calls[c]>>
      BY <1>3, <1>5, <2>1
    <3>2. ASSUME NEW k \in 1..MaxCalls, NEW n \in 1..(N + 1), sent'[n] = <<c, k>>
          PROVE  k <= calls[c]
      <4>1. calls[c] \in Nat
        BY DEF IInv, TypeOK
      <4>2. CASE n \in 1..N
        BY <1>3, <1>11, <2>1, <3>2, <4>1, <4>2
      <4>3. CASE n = N + 1
        <5>1. Logging(t) = <<c, k>>
          BY <1>3, <3>2, <4>3
        <5>2. k = calls[c]
          BY <1>6, <5>1
        <5> QED
          BY <4>1, <5>2
      <4> QED
        BY <1>4, <4>2, <4>3
    <3> QED
      BY <1>2, <2>1, <3>1, <3>2
  <2>2. CASE c # t
    <3>1. op'[c] = op[c]
      BY <1>2, <2>2
    <3>2. ASSUME NEW n \in 1..(N + 1), NEW k \in 1..MaxCalls, sent'[n] = <<c, k>>
          PROVE  n \in 1..N /\ sent[n] = <<c, k>>
      BY <1>3, <1>4, <1>6, <2>2, <3>2
    <3>3. ASSUME NEW n \in 1..N PROVE n \in 1..(N + 1) /\ sent'[n] = sent[n]
      BY <1>3
    <3> QED
      BY <3>1, <3>2, <3>3 DEF Ledger, Placed, N
  <2> QED
    BY <2>1, <2>2
<1>13. Ordered'
  <2> SUFFICES ASSUME NEW c \in Clients, NEW k \in 1..MaxCalls, NEW l \in 1..MaxCalls,
                      NEW m \in 1..(N + 1), NEW n \in 1..(N + 1),
                      sent'[m] = <<c, l>>, sent'[n] = <<c, k>>, m < n
               PROVE  l < k
    BY <1>3 DEF Ordered
  <2>1. m \in 1..N /\ sent[m] = <<c, l>>
    BY <1>3
  <2>2. CASE n \in 1..N
    BY <1>3, <2>1, <2>2 DEF Ledger, Ordered, N
  <2>3. CASE n = N + 1
    BY <1>3, <1>6, <1>11, <2>1, <2>3
  <2> QED
    BY <1>4, <2>2, <2>3
<1>14. Thrown'
  <2> SUFFICES ASSUME NEW c \in Clients, NEW k \in 1..MaxCalls, <<c, k>> \in threw,
                      NEW n \in 1..(N + 1)
               PROVE  sent'[n] # <<c, k>>
    BY <1>1, <1>3 DEF Ledger, Thrown
  <2>1. CASE n \in 1..N
    BY <1>3, <2>1 DEF Ledger, Thrown, N
  <2>2. CASE n = N + 1
    BY <1>1, <1>3, <1>6, <2>2 DEF Ledger, Thrown
  <2> QED
    BY <1>4, <2>1, <2>2
<1>15. Accounted'
  <2>1. ASSUME NEW n \in 1..N PROVE n \in 1..(N + 1) /\ sent'[n] = sent[n]
    BY <1>3
  <2> QED
    BY <1>1, <1>3, <2>1 DEF Ledger, Accounted, Finished, N
<1> QED
  BY <1>0, <1>8, <1>10, <1>12, <1>13, <1>14, <1>15 DEF Ledger

\* A call that is through has its message in the queue, one that is refused
\* keeps it, or gives it up if the policy says so.
LEMMA EnqueueLedger ==
  ASSUME IInv, Ledger, NEW t \in Loggers,
         EnqueuePublish(t) \/ EnqueueRefused(t) \/ RetryEnqueue(t), Alive
  PROVE  Ledger'
<1> USE Threads
<1>0. StoppedByOff'
  BY ClientSteps, ClientStopped DEF LogStep
<1>1. /\ UNCHANGED <<sent, calls, threw, policy>> /\ dtor' \in {dtor, "join"}
      /\ \A u \in Loggers \ {t} : call'[u] = call[u] /\ op'[u] = op[u] /\ item'[u] = item[u]
  BY Types DEF EnqueuePublish, EnqueueRefused, RetryEnqueue, Queue!Publish,
     Queue!RefuseEnqueue, Queue!CallEnqueue, Return, Enter, Alive, IInv, TypeOK
<1>2. \/ /\ op[t] = "holding" /\ op'[t] = "done" /\ call'[t] = "out"
      \/ /\ op[t] = "calling" /\ op'[t] = "refused" /\ item' = item
         /\ \/ policy = "kDiscardLogMsg" /\ call'[t] = "out"
            \/ call'[t] = "retry"
      \/ /\ call[t] = "retry" /\ op'[t] = "calling" /\ item'[t] = item[t] /\ call'[t] = "enqueue"
  BY Types DEF EnqueuePublish, EnqueueRefused, RetryEnqueue, Queue!Publish,
     Queue!RefuseEnqueue, Queue!CallEnqueue, Return, Enter, IInv, TypeOK
<1>3. call[t] # "out" /\ (op[t] = "holding" \/ op'[t] \notin {"holding"})
  BY <1>2 DEF IInv, CallsAndQueue
<1>4. CallersMessage'
  BY <1>1, <1>2 DEF Ledger, CallersMessage, Logging
<1>5. OffIsLast'
  BY <1>1, <1>2, <1>3 DEF Ledger, OffIsLast, IInv, CallsAndQueue
<1>6. Placed'
  <2> SUFFICES ASSUME NEW c \in Clients
               PROVE  (/\ op[c] = "holding" => \E n \in 1..Len(sent) : sent[n] = <<c, calls[c]>>
                       /\ \A k \in 1..MaxCalls, n \in 1..Len(sent) : sent[n] = <<c, k>> =>
                            /\ k <= calls[c]
                            /\ k = calls[c] => op[c] = "holding" \/ call[c] = "out")'
    BY DEF Placed
  <2>1. CASE c = t
    BY <1>1, <1>2, <2>1 DEF Ledger, Placed, IInv, CallsAndQueue
  <2>2. CASE c # t
    BY <1>1, <2>2 DEF Ledger, Placed
  <2> QED
    BY <2>1, <2>2
<1>7. Ordered'
  BY <1>1 DEF Ledger, Ordered
<1>8. Thrown'
  BY <1>1, <1>3 DEF Ledger, Thrown
<1>9. Accounted'
  <2> SUFFICES ASSUME policy = "kBlockRetry", NEW c \in Clients, NEW k \in 1..calls[c],
                      Finished(c, k)'
               PROVE  <<c, k>> \in threw \/ \E n \in 1..Len(sent) : sent[n] = <<c, k>>
    BY <1>1 DEF Accounted
  <2>1. CASE Finished(c, k)
    BY <2>1 DEF Ledger, Accounted
  <2>2. CASE ~Finished(c, k)
    <3>1. c = t /\ call'[t] = "out" /\ ~(k < calls[c]) /\ calls[c] \in 0..MaxCalls
      BY <1>1, <2>2 DEF Finished, IInv, TypeOK
    <3>2. k = calls[c]
      BY <3>1
    <3>3. op[c] = "holding"
      BY <1>2, <3>1
    <3> QED
      BY <3>2, <3>3 DEF Ledger, Placed
  <2> QED
    BY <2>1, <2>2
<1> QED
  BY <1>0, <1>4, <1>5, <1>6, <1>7, <1>8, <1>9 DEF Ledger

\* The destructor logs once nobody else does.
LEMMA OtherLedger ==
  ASSUME IInv, Ledger, SetFormatter \/ DestructorLog \/ DestructorJoin, Alive
  PROVE  Ledger'
<1> USE Threads
<1>0. StoppedByOff'
  BY ClientSteps, ClientStopped
<1>1. /\ UNCHANGED <<sent, calls, threw, policy>>
      /\ \A c \in Clients : call'[c] = call[c] /\ op'[c] = op[c] /\ item'[c] = item[c]
  BY Types DEF SetFormatter, DestructorLog, DestructorJoin, BeginLog, Enter, Queue!CallEnqueue,
     queueVars, Alive, IInv, TypeOK
<1>2. \/ UNCHANGED <<call, op, item>> /\ (dtor # "no" => dtor' # "no")
      \/ /\ dtor = "no" /\ call'[Owner] \in {"move", "enqueue"}
         /\ (op'[Owner] = "calling" /\ item'[Owner] = Off) \/ op'[Owner] = op[Owner]
         /\ op[Owner] # "calling"
  BY Types DEF SetFormatter, DestructorLog, DestructorJoin, BeginLog, Enter, Queue!CallEnqueue,
     queueVars, IInv, TypeOK, CallsAndQueue
<1>3. CallersMessage'
  <2> SUFFICES ASSUME NEW u \in Loggers, call'[u] = "retry" \/ op'[u] = "calling"
               PROVE  item'[u] = Logging(u)'
    BY DEF CallersMessage
  <2>1. CASE u = Owner
    BY <1>2, <2>1 DEF Ledger, CallersMessage, Logging
  <2>2. CASE u \in Clients
    BY <1>1, <2>2 DEF Ledger, CallersMessage, Logging
  <2> QED
    BY <2>1, <2>2 DEF Loggers
<1>4. OffIsLast'
  BY <1>1, <1>2 DEF Ledger, OffIsLast
<1>5. Placed' /\ Ordered'
  BY <1>1 DEF Ledger, Placed, Ordered
<1>6. Thrown' /\ Accounted'
  BY <1>1 DEF Ledger, Thrown, Accounted, Finished
<1> QED
  BY <1>0, <1>3, <1>4, <1>5, <1>6 DEF Ledger

\* If clients log texts only, every message is accounted for in every behaviour.
THEOREM AsyncLedger == ~ForceOff => (Spec => []Ledger)
<1> SUFFICES ASSUME ~ForceOff PROVE Spec => []Ledger
  OBVIOUS
<1>1. IInv /\ Ledger /\ [Next]_vars => Ledger'
  <2> SUFFICES ASSUME IInv, Ledger, [Next]_vars PROVE Ledger'
    OBVIOUS
  <2>1. ASSUME Alive, NEW t \in Loggers, LogStep(t) PROVE Ledger'
    BY <2>1, ExceptionLedger, ReserveLedger, EnqueueLedger DEF LogStep
  <2>2. CASE UNCHANGED vars
    BY <2>2 DEF vars, queueVars, workerVars, Ledger, CallersMessage, OffIsLast, StoppedByOff,
       Placed, Ordered, Thrown, Accounted, Logging, Finished
  <2> QED
    BY <2>1, <2>2, LogCallLedger, WorkerLedger, OtherLedger DEF Next, Terminated
<1> QED
  BY <1>1, InitLedger, AsyncInvariant, PTL DEF Spec

\* A call of Log that came back threw or put its message in the queue exactly once
\* (at most once under kDiscardLogMsg), and a thread's messages are in the order of
\* its calls.  Discarded messages, and those queued for a worker that ended, are lost
\* without their caller knowing.
THEOREM AsyncNoSilentLoss == ~ForceOff => (Spec => []NoSilentLoss)
<1> SUFFICES ASSUME ~ForceOff PROVE Spec => []NoSilentLoss
  OBVIOUS
<1>1. IInv /\ Ledger => NoSilentLoss
  <2> SUFFICES ASSUME IInv, Ledger, NEW c \in Clients, NEW k \in 1..calls[c]
               PROVE  LET places == Cardinality(Places(<<c, k>>)) IN
                        /\ places \in {0, 1}
                        /\ <<c, k>> \in threw => places = 0
                        /\ Finished(c, k) /\ fate = "alive" /\ policy = "kBlockRetry" =>
                             places = 1 \/ <<c, k>> \in threw
                        /\ \A l \in 1..(k - 1) :
                             \A m \in Places(<<c, l>>), n \in Places(<<c, k>>) : m < n
    BY DEF NoSilentLoss
  <2>1. k \in 1..MaxCalls
    BY BoundAssumption DEF IInv, TypeOK
  <2>2. Len(sent) \in Nat
    BY Types DEF IInv
  <2>3. ASSUME NEW n \in Places(<<c, k>>) PROVE Places(<<c, k>>) = {n}
    <3> SUFFICES ASSUME NEW m \in Places(<<c, k>>) PROVE m = n
      OBVIOUS
    <3>1. /\ m \in 1..Len(sent) /\ sent[m] = <<c, k>>
          /\ n \in 1..Len(sent) /\ sent[n] = <<c, k>>
      BY DEF Places
    <3>2. ~(m < n) /\ ~(n < m)
      BY <2>1, <3>1 DEF Ledger, Ordered
    <3> QED
      BY <3>1, <3>2
  <2>4. Places(<<c, k>>) # {} => Cardinality(Places(<<c, k>>)) = 1
    <3> SUFFICES ASSUME NEW n \in Places(<<c, k>>) PROVE Cardinality(Places(<<c, k>>)) = 1
      OBVIOUS
    <3>1. Cardinality({n}) = 1
      BY FS_Singleton
    <3> QED
      BY <2>3, <3>1
  <2>5. Places(<<c, k>>) = {} => Cardinality(Places(<<c, k>>)) = 0
    BY FS_EmptySet
  <2>6. <<c, k>> \in threw => Places(<<c, k>>) = {}
    BY <2>1 DEF Ledger, Thrown, Places
  <2>7. Finished(c, k) /\ policy = "kBlockRetry" =>
          Places(<<c, k>>) # {} \/ <<c, k>> \in threw
    BY DEF Ledger, Accounted, Places
  <2>8. ASSUME NEW l \in 1..(k - 1), NEW m \in Places(<<c, l>>), NEW n \in Places(<<c, k>>)
        PROVE  m < n
    <3>1. /\ m \in 1..Len(sent) /\ sent[m] = <<c, l>>
          /\ n \in 1..Len(sent) /\ sent[n] = <<c, k>>
      BY DEF Places
    <3>2. l \in 1..MaxCalls /\ l < k
      BY <2>1, BoundAssumption
    <3>3. m # n
      BY <3>1, <3>2
    <3>4. ~(n < m)
      BY <2>1, <3>1, <3>2 DEF Ledger, Ordered
    <3> QED
      BY <2>2, <3>1, <3>3, <3>4
  <2> QED
    BY <2>4, <2>5, <2>6, <2>7, <2>8
<1> QED
  BY <1>1, AsyncInvariant, AsyncLedger, PTL

\* The destructor comes back only after the sinks have everything the queue
\* accepted, unless an exception ended the worker.
THEOREM AsyncFlushedOnDestruction == ~ForceOff => (Spec => []FlushedOnDestruction)
<1> SUFFICES ASSUME ~ForceOff PROVE Spec => []FlushedOnDestruction
  OBVIOUS
<1>1. IInv /\ Ledger => FlushedOnDestruction
  <2> SUFFICES ASSUME IInv, Ledger, worker = "stopped", NEW i \in Sinks
               PROVE  [n \in 1..Len(written[i]) |-> written[i][n].text] \o <<Off>> = sent
    BY DEF FlushedOnDestruction
  <2> DEFINE texts == [n \in 1..Len(written[i]) |-> written[i][n].text]
  <2>1. /\ Len(written[i]) = head - 1 /\ Len(written[i]) \in Nat /\ head \in Nat
        /\ head <= Len(sent) /\ sent \in Seq(Message) /\ Len(sent) \in Nat
        /\ \A n \in 1..Len(written[i]) : written[i][n].text = sent[n]
    BY Types, Lines DEF IInv, Progress, CallsAndQueue
  <2>2. head \in 1..Len(sent) /\ sent[head] = Off
    BY <2>1 DEF Ledger, StoppedByOff
  <2>3. Len(sent) = head
    BY <2>2 DEF Ledger, OffIsLast
  <2>4. texts \in Seq(Message) /\ Len(texts) = head - 1
    <3> DEFINE len == Len(written[i])
    <3>1. len \in Nat /\ \A n \in 1..len : written[i][n].text \in Message
      BY <2>1
    <3> HIDE DEF len
    <3>2. /\ [n \in 1..len |-> written[i][n].text] \in Seq(Message)
          /\ Len([n \in 1..len |-> written[i][n].text]) = len
      BY <3>1
    <3> QED
      BY <2>1, <3>2 DEF len
  <2>5. <<Off>> \in Seq(Message) /\ Len(<<Off>>) = 1 /\ <<Off>>[1] = Off
    BY DEF Message
  <2> HIDE DEF texts
  <2>6. texts \o <<Off>> \in Seq(Message) /\ Len(texts \o <<Off>>) = head
    BY <2>1, <2>4, <2>5
  <2>7. ASSUME NEW n \in 1..head PROVE (texts \o <<Off>>)[n] = sent[n]
    <3>1. CASE n = head
      BY <2>1, <2>2, <2>4, <2>5, <3>1
    <3>2. CASE n # head
      <4>1. n \in 1..(head - 1)
        BY <2>1, <3>2
      <4>2. texts[n] = sent[n]
        BY <2>1, <4>1 DEF texts
      <4> QED
        BY <2>1, <2>4, <2>5, <4>1, <4>2
    <3> QED
      BY <3>1, <3>2
  <2> QED
    BY <2>1, <2>3, <2>6, <2>7 DEF texts
<1> QED
  BY <1>1, AsyncInvariant, AsyncLedger, PTL

-----------------------------------------------------------------------------
(* The queue                                                               *)

\* The helper uses its queue as TicketFifo allows: every step is one of the
\* queue's steps for a message, or leaves the queue alone.
THEOREM AsyncUsesTicketFifo == Spec => Queue!Spec
<1>1. Init => Queue!Init
  BY DEF Init
<1>2. IInv /\ [Next]_vars => [Queue!Next]_Queue!fifoVars
  <2> SUFFICES ASSUME IInv, [Next]_vars
               PROVE  Queue!Next \/ UNCHANGED queueVars
    BY DEF queueVars, Queue!fifoVars
  <2> USE Threads
  <2>1. ASSUME NEW t \in Loggers, NEW m \in Message, BeginLog(t, m)
        PROVE  Queue!Next \/ UNCHANGED queueVars
    BY <2>1 DEF BeginLog, Queue!Next
  <2>2. ASSUME NEW c \in Clients, LogCall(c)
        PROVE  Queue!Next \/ UNCHANGED queueVars
    BY <2>1, <2>2, LoggedIsMessage DEF LogCall, IInv
  <2>3. CASE DestructorLog
    BY <2>1, <2>3, LoggedIsMessage DEF DestructorLog, IInv
  <2>4. ASSUME NEW t \in Loggers, RetryEnqueue(t)
        PROVE  Queue!Next
    <3>1. item[t] \in Message
      BY <2>4 DEF RetryEnqueue, IInv, CallsAndQueue
    <3> QED
      BY <2>4, <3>1 DEF RetryEnqueue, Queue!Next
  <2>5. ASSUME NEW t \in Loggers, LogStep(t), ~RetryEnqueue(t)
        PROVE  Queue!Next \/ UNCHANGED queueVars
    BY <2>5 DEF LogStep, MoveException, Throw, EnqueueReserve, EnqueuePublish,
       EnqueueRefused, Queue!Next
  <2>6. CASE WorkerStep \/ WorkerThrows
    BY <2>6 DEF WorkerStep, WorkerThrows, WorkerWarmup, WorkerDequeue, WorkerFindsNothing,
       WorkerTake, WorkerPopped, WorkerFormatted, WorkerSink, Queue!Next
  <2>7. CASE SetFormatter \/ DestructorJoin \/ UNCHANGED vars
    BY <2>7 DEF SetFormatter, DestructorJoin, vars, queueVars
  <2> QED
    BY <2>2, <2>3, <2>4, <2>5, <2>6, <2>7 DEF Next, Terminated
<1> QED
  BY <1>1, <1>2, AsyncInvariant, PTL DEF Spec, Queue!Spec

=============================================================================
