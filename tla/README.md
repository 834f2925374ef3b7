# polar_bear: a verification development

polar_bear is a C++ logging library: loggers and sinks after spdlog, a bounded lock-free
queue, an asynchronous helper on top of it, file sinks that rotate, and a copy of the
cppformat library. This directory holds TLA+ models of it, TLC configurations that check
the models on small instances, and TLAPS proofs for every value of their constants.

The repository does not compile as it is committed: names differ between declaration and
use (`WorkerLoop` / `worker_loop`, `AsyncMsg` / `async_msg`, `_formatter` / `formatter_`,
`Close` / `close`), and some declarations are missing or doubled. The models read the code
modulo the spelling of identifiers, and follow its statements, their order and their
conditions.

Paths below are relative to `src/common/`.

## 1. Inventory

| component | state | operations | used by |
|---|---|---|---|
| `mpmc_bounded_queue` (container/queue/mpmc_bounded_queue.h) | ring of cells with a sequence number each, two position counters | `enqueue`, `dequeue` | AsyncLogHelper |
| `AsyncLogHelper` (log/async_log_helper.h) | the queue, the worker thread, its last exception, formatter, sinks, overflow policy | `Log`, `SetFormatter`, destructor; in the worker `WorkerLoop`, `ProcessNextMsg` | AsyncLogger (not in the repository) |
| `Logger` (log/logger.h, logger_impl.h) | level, formatter, sinks | four call styles for each level, `ForceLog`, `set_level`, `set_formatter`, `set_pattern`, `_LogMsg` | the application |
| `LineLogger` (log/line_logger.h) | one message, enabled or not, the logger to call back | construction, move, `operator<<`, `write`, destructor | Logger |
| `LogMessage` (log/log_message.h) | level, raw and formatted text, time, name | construction, copy, move, `clear` | LineLogger, AsyncMsg |
| `BaseSink`, `Sink` (log/sinks/) | the mutex of the sink | `Log` | Logger, AsyncLogHelper |
| `FileHelper` (io/file_helper.h) | `FILE*`, file name | `Open`, `Reopen`, `Close`, `Write`, `FileExists`, destructor | file sinks |
| `RotatingFileSink` (log/sinks/file_sink.h) | current size; the files of the series on disk | constructor, `SinkIt`, `_Rotate` | BaseSink |
| `DailyFileSink` (log/sinks/file_sink.h) | next rotation time | constructor, `SinkIt`, `_NextRotationTp`, `CalcFilename` | BaseSink |
| `SimpleFileSink` (log/sinks/file_sink.h) | none of its own | constructor, `SinkIt` | BaseSink |
| ostream, stdout, stderr, null and syslog sinks | none that matters | `SinkIt` | BaseSink |
| levels, policies, exceptions (log/common_def.h) | tables of level names | `to_str`, `to_short_str` | formatter |
| registry (log/log.h, log/async_logger.h) | - | declared only | the application |
| buffers and writers (util/format.h, util/format.cc) | storage inside the object or a block of the allocator, size, capacity | `append`, `resize`, `grow`, `move`; `operator<<` of the writer, `c_str`, `clear`, destructor; `format_system_error` | LineLogger, LogMessage, exceptions |
| format string parsers (util/format.h, util/format.cc) | position in the string, next argument index | `BasicFormatter::format`, `PrintfFormatter::format` | LineLogger |
| arguments, file and colour output of the format library | none | `MakeValue`, `print`, `fprintf`, `print_colored` | the application |
| os (util/os_spec.h) | none | time, `fopen_s`, thread id | all |

How they interact. A log statement makes the `Logger` build a `LineLogger`; that object moves to
the caller, takes the text, and its destructor calls `Logger::_LogMsg`, which formats the
message and calls `Log` of every sink; `BaseSink::Log` holds the mutex of the sink around
`SinkIt`. In the asynchronous logger `_LogMsg` calls `AsyncLogHelper::Log` instead, which
copies the message into the queue; one worker thread takes it out, formats it and calls the
sinks. An exception in the worker travels back by a shared pointer to the next caller of `Log`.
The file sinks write through `FileHelper` to files that outlive the process.

Where it is hard, and what makes each part right:

- **Queue.** Any number of producers and consumers, no locks, an array of cells reused every
  lap, loads that may be stale, compare-and-swap that may fail for no reason. Right: a cell has
  one owner at a time, each item is delivered once and in order, refusals mean full or empty,
  nothing claimed is stuck.
- **AsyncLogHelper.** Callers, worker and destructor in any order; a full queue under two
  policies; a worker that ends by an exception; a shared pointer and a formatter shared without
  a lock. Right: no message is lost, doubled or reordered; all sinks see the same; the exception
  reaches exactly one caller; calls and the destructor come back.
- **Logger and LineLogger.** An object that logs in its destructor and is moved or elided on
  the way to the caller; exceptions in the middle of a statement; loggers that share sinks in
  different orders. Right: every enabled statement is written once to every sink, as it was
  said, and nobody waits for ever.
- **RotatingFileSink.** A rotation is many calls of the operating system; each can fail, and
  the process can end after each, with a stdio buffer in memory. Right: backups stay in the
  order of their age, only the oldest goes, what was acknowledged is where it should be.
- **DailyFileSink.** The clock is read three times for one message, and local time jumps.
  Right: rotations advance, no file is used for more than a day and the time of its calls, messages
  go to the file of their period.
- **Buffers and writers.** No concurrency, but pointers into storage that a later call of the same
  statement may replace, blocks that change hands in moves, an allocator that may refuse, and
  estimates of lengths that are made before the text. Right: each block has one owner, the text is
  the one that was asked for, describing an error does not fail.
- **Format string parsers.** They look one or two characters ahead in a string that may end anywhere,
  parse numbers that may wrap, and take arguments for widths and precisions on the way. Right: a
  field means what its text says, the rest is kept, indexing is of one kind, nothing is read behind
  the end.

The hazards are listed one by one, with their lines, in `PROJECT.json`.

## 2. Modules

| module | models | checked by |
|---|---|---|
| `TicketFifo` | what the queue promises: a bounded FIFO of tickets, with the two visible moments of each operation | `MpmcQueue`, and used by `AsyncLog` |
| `MpmcQueue` | the code of the queue, one action per access to shared memory, with the refinement mapping to `TicketFifo` and the inductive invariant | `MCMpmcQueue`, `MpmcQueueProofs` |
| `AsyncLog` | AsyncLogHelper over `TicketFifo` | `MCAsyncLog`, `AsyncLogProofs` |
| `SyncLogger` | Logger, LineLogger, LogMessage, BaseSink::Log | `MCSyncLogger`, `SyncLoggerProofs` |
| `RotatingFile` | RotatingFileSink and FileHelper | `MCRotatingFile`, `RotatingFileProofs` |
| `DailyFile` | DailyFileSink and the time zone | `MCDailyFile`, `DailyFileProofs` |
| `FormatSpec` | what writers and parsers know of a field: alignment, width, fill, flags, precision, type | the two below |
| `MemoryBuffer`, `BasicWriter` | the buffer and the writer, as operators on a record | `MemoryWriter`, `BasicWriterProofs` |
| `FieldLayout` | the reference: the text a statement stands for, said without a buffer | `MemoryWriter`, `BasicWriterProofs` |
| `MemoryWriter` | the life of writers: construct, write, `c_str`, clear, move, destroy, describe an error | `MCMemoryWriter`, `MemoryWriterProofs` |
| `FormatterBase` | argument lists, indexes and numbers | `Formatters` |
| `BraceFormatter`, `PrintfFormatter` | the two parsers, one action for each part of a field | `Formatters` |
| `Formatters` | a call of one of them, with what a field means read off its text | `MCFormatters`, `FormattersProofs` |

Definitions whose comment begins with `Slip:` are deviations from the code that a plausible
bug would make; `PROJECT.json` lists which property notices each of them. They are in no
`Next`.

### TicketFifo and MpmcQueue

`sequence`, `data`, `enqPos`, `deqPos` are `sequence_`, `data_`, `enqueue_pos_`,
`dequeue_pos_`. A thread in `enqueue` goes through *load* (read the sequence of the cell of
`pos` and compare), *cas* (claim the position), *move* (`data_ = std::move(data)`) and *store*
(publish the sequence); *reload* fetches a new position. `dequeue` is the mirror image. The
refused result, the retry and the failing `compare_exchange_weak` are actions of their own.

The ring of the abstract queue is a sequence of tickets. `Reserve` is the successful
compare-and-swap of an enqueue, `Publish` its store; `Take` and `Release` are those of a
dequeue. Two facts of the code show at this level: a slow producer hides everything behind its
ticket (`Empty`), and a slow consumer keeps its slot occupied (`Full`).

Memory order: with `RelaxedLoads` a load returns the value of the variable or any older one,
which covers what relaxed and acquire loads may return for one variable. Accesses to `data_`
are sequentially consistent: `NoDataRace` says they never overlap.

Positions are natural numbers here and words in the code, which compares a sequence number and a
position by the sign of their difference as a signed word. `SignedDifference` says that the true
difference fits such a word of `2 * HalfRange` values whenever it is computed, so that the sign is
the true one, also after the words wrapped. It has one condition: the counter did not go through nearly
half the range while the thread was stopped between its two loads, which for 64 bits it does not.

### AsyncLog

The variables of `TicketFifo` are variables here, and each action of `Log` or of the worker that
touches the queue is one of its actions. So `AsyncLog` holds for every queue that implements
`TicketFifo`, and `MpmcQueue` does (`ImplementsTicketFifo`, proved and checked), with `StaleLoads` set to what
`RelaxedLoads` was.

| action | code |
|---|---|
| `LogCall`, `BeginLog` | `Log`: `ThrowIfBadWorker` tests the pointer, then the first `enqueue` |
| `MoveException`, `Throw` | the unlocked `std::move` of the shared pointer, then `throw *ex` |
| `EnqueueReserve`, `EnqueuePublish`, `EnqueueRefused`, `RetryEnqueue` | `enqueue`, the overflow policy, `SleepOrYield` and again |
| `SetFormatter` | the unlocked assignment of the formatter |
| `WorkerWarmup`, `WorkerDequeue`, `WorkerFindsNothing`, `WorkerTake`, `WorkerPopped`, `WorkerFormatted`, `WorkerSink` | `WorkerLoop` and `ProcessNextMsg` |
| `WorkerThrows` | the catch clauses of `WorkerLoop` |
| `DestructorLog`, `DestructorJoin` | the destructor |

`fate` records the undefined outcomes the code can produce: two callers that move one exception
(`null`, `double`), a formatter that dies while the worker is inside it (`dangling`), and the
destruction of a joinable thread (`std::terminate`). The model stops there, and properties say
what holds up to that point.

### SyncLogger

A thread has two LineLoggers: `local`, inside the function of the logger, and `line`, at the
caller. `Elide` and `Move` are the two things a compiler may do with `return logger`; `MovedFrom`
is what `LogMessage`'s move constructor leaves behind. `Destroy` is `~LineLogger`; `Format`,
`Lock`, `SinkIt`, `Unlock` and `NextSink` are `_LogMsg` and `BaseSink::Log`. The level is read
once, when the statement begins; the load is relaxed but atomic, and is one step. The function
behind `logger.info("fmt", args...)` has no return statement, which is the action
`DestroyGarbage`. A formatter or sink that throws, throws out of a
destructor: `LogMsgThrows` ends the process.

### RotatingFile

A file is the set of messages in it, in the order of the calls of `SinkIt`. `RemoveTarget` and
`RenameSource` are the two calls of each round of `_Rotate`; `Exists` and `Missing` are what
`FileExists` finds, which is whether the file *can be opened*. `buffer` is the stdio buffer:
`Spill` writes any oldest part of it, `Crash` loses it, and so does an `fclose` that fails, in
`Shutdown` or at the beginning of a rotation. `Open` does not report failure, `Reopen` does nothing
for a file that has a name, `Write` does not look at the result of `fflush` and `Close` not at that of
`fclose`; the model does the same. Two history variables tell apart what is gone: `lost` died with a
process, `dropped` was in the buffer when `fclose` failed. A write to a null `FILE*` ends the process. `force_flush` is chosen in
`Init`.

### DailyFile

An instant is a number of hours and a day has `Day` of them; hour and minute of the rotation are
one number. `Summer` is the set of instants with summer time; `LocalTime` and `Mktime` are
`localtime` and `mktime`, where `mktime` is given the `tm_isdst` that `localtime` filled in.
`Tick` moves the clock on, at most `MaxDelay` hours in the middle of a call. `system_clock` may also be set
back; the model leaves that out, and neither `FileAge` nor `RotationAdvances` would hold then.

### MemoryBuffer, BasicWriter, FieldLayout and MemoryWriter

A call on a writer works on a record: the fields of the buffer, the blocks of the allocator, the
exception if there is one, and `gen`, how often the call replaced the storage. A pointer into the
storage carries the `gen` it was taken in; writing through an old one is the fault `dangling`, writing
outside the cells is `overrun`. After an exception the rest of the call changes nothing. `Write` is a
statement of the writer: text, one character, a string, a character or an integer or a double with a
specification. The digits of doubles come from `snprintf` and are given with the statement; the
loop of `write_double` around it, with the sign in front, the NUL behind and the second try in a larger
buffer, is `WriteNumber`.

`MemoryWriter` has one action for each call; a writer belongs to one thread, so calls are whole.
`FieldLayout!Wanted` is the text a statement stands for, and the variable `want` collects it.
`DescribeError` is `SystemError::init` with `format_system_error` and `format_error_code`, run with
memory or without: `avail` is what the allocator still hands out.

Two kinds of statement go wrong in the code, and `FieldLayout` names exactly which: `LosesNumber` and
`WritesFreed` (section 6). `TextAsWanted` says that the text is right if and only if none of these was
written, so a third kind would be noticed, and so would a wrong description of the two.

### FormatterBase, BraceFormatter, PrintfFormatter and Formatters

`p` is the parser: `s` and `start` as in the code, where it is (`pc`), the index of the next argument,
the specification read so far, and `uses`, the arguments that were looked at. Every part of a field is
an action, in the order of the code. What is handed to the writer goes to `pieces`, with the part of
the string it stands for; the statements in it are those of `BasicWriter`. The `ArgVisitor` classes are
operators: `Visit` is `ArgFormatter`, `Converted` is `ArgConverter`, `ToChar` is `CharConverter`.

`FieldsDenote` is the grammar of fields, said declaratively: a field of the text can be cut into index,
flags, width, precision, length and type such that each part says what the specification has. It uses
none of the actions. Where a number is larger than an `unsigned`, it asks for the remainder, since
`parse_nonnegative_int` lets some of these pass.

## 3. Runs

| run | bounds | what it shows |
|---|---|---|
| `mpmc_sc` | 2 producers, 2 consumers, ring of 2, 4 claims, exact loads | cells have one owner; the code implements `TicketFifo` with no refusal without reason; the signs of differences are right with words of 6 values; everything claimed is drained |
| `mpmc_stale` | the same with 3 claims, two items, stale loads | `IInv`, which the proofs use, and its consequences; the code implements `TicketFifo` with spurious refusals |
| `async_safety` | 2 clients with 3 calls, queue of 2, 2 sinks, 1 exception, 2 formatters, both policies | order, completeness, agreement of the sinks, the report of the failure |
| `async_live` | 2 clients with 2 calls, queue of 2, 1 exception, messages of level off from clients, both policies | which calls come back, that the destructor ends, that accepted messages are written |
| `async_join` | the same, `kDiscardLogMsg` only | *violated*: the destructor can wait for ever |
| `async_inactive` | 1 client | *violated*: messages are queued for a worker that ended |
| `logger_statements` | 2 threads, 2 loggers with the same 2 sinks in opposite orders, 4 call styles, 1 change of level or formatter, 1 exception | written once, as said, sinks are exclusive, every statement ends |
| `rotate_series` | 3 files, 6 messages, 4 processes, 2 failing calls, 1 unreadable file, with and without force_flush | age order, oldest first, acknowledged messages survive, a crash or a failed `fclose` takes the newest, each message is in one place or known to be lost, a process adds at most `max_size` to a file |
| `rotate_reopen` | 2 files, 2 messages | *violated*: after a rotation there is no file |
| `daily_summer` | days of 4 hours, 24 hours, summer time that begins and ends, 2 processes, 2 hours of delay | rotations advance; at a write the file was named less than a day and two calls ago |
| `writer` | 14 cells inside, 2 blocks, 2 writers, 3 calls that write or move, 19 statements, error codes of 8 bits, an allocator that refuses at any time | blocks have one owner, texts are as wanted but for the two known kinds, errors are described without an exception, a refusal keeps what was there |
| `format_strings` | fields with any two of their parts, all strings of up to 4 of 5 letters, two fields and text, in both syntaxes; 7 argument lists; 5 bits as `unsigned`, 3 as `char`, 4 as `short`, 6 as `long`; 3 arguments at most | fields denote what they say, text is kept, indexing is of one kind, every call ends |

Why the bounds are enough. The ring of 2 is the smallest the constructor accepts, so a lap comes
after two claims, and with two threads on each side each can be a lap behind the other; the
proofs cover all other sizes. In `AsyncLog` the queue is full after two messages, while each
client still has calls to make; one exception ends the worker for good, so a second cannot happen. In
`RotatingFile` three files give a middle one, four processes rotate four times over gaps that
earlier ones left (as `Reopen` does nothing, a process gets through one rotation unless it
fails), and two failures can hit the two calls of one round. In `DailyFile` the clock runs
through six days, on two of which it jumps. In `SyncLogger` two threads on opposite orders of two
sinks are what a deadlock needs. In `MemoryWriter` 14 cells hold one statement and not two, a single wide
field needs a block at once, and with two blocks the allocator refuses after the first growth of
each writer; integers are -128, 9 and 100, at the end of their type and at powers of 10, where digits are counted. In
`Formatters` small words make numbers of two digits wrap and conversions truncate; two parts of a
field next to each other, with all others left out, show what each makes of what follows it. A list of
3 arguments has one slot less than the longest call has arguments.

`FlushedOnDestruction` and `NoSilentLoss` are about helpers whose clients log no message of level
off (`ForceOff` is FALSE in `async_safety`): such a message stops the worker, and what is queued
behind it is never written. `async_live` has such messages.

`logger_statements` does not check for deadlock because a run ends when all threads made
their statements or the process was terminated; `CallsReturn` says that nobody is blocked
before.

## 4. Fairness

- `MpmcQueue!FairSpec`: a thread inside a call goes on (weak); `compare_exchange_weak` does not fail
  for ever at a claim that could succeed again and again (strong); consumers keep calling
  `dequeue`, as the worker does. Producers need not call `enqueue`.
- `AsyncLog!FairSpec`: threads inside `Log` and the worker go on, `join` returns once the worker
  ended, and an `enqueue` or `dequeue` that could succeed again and again does (the same
  assumption, one level up). Nothing makes a client log, the owner destroy the helper or a sink
  throw. `SleepOrYield` always returns: its branches sleep for bounded times.
- `SyncLogger!FairSpec`: a thread inside a statement goes on. Mutex hand-over is covered by weak
  fairness because each thread makes a bounded number of statements.

- `Formatters!FairSpec`: the parser is sequential code and goes on.

`RotatingFile`, `DailyFile` and `MemoryWriter` have safety properties only.

## 5. Proofs

Eight modules hold theorems; each is about every value of the constants that satisfies the assumptions of
its component's module. For each, the invariant that is inductive is called `IInv`, `Init => IInv` and
`IInv /\ [Next]_vars => IInv'` are lemmas with one step for each action, and the properties of the runs
follow from it.

### MpmcQueueProofs: the queue

For every set of threads and items, every buffer size the constructor accepts, and exact or stale loads:

- `QueueInvariant`: `Spec => []IInv`. `IInv` is `TypeOK` and five parts. `CellStages` says where each
  cell of the current window is in its life; `ClaimReady` that what a thread read before its
  compare-and-swap still binds the cell if the counter did not move; `Ownership` that a claimed cell is at
  the stage only its owner can end; `ItemPlaces` where each item is; `Delivery` that results match
  positions. None of `NoDataRace`, `Delivery` and `WithinOneLap` is inductive by itself: that a claim gives
  an exclusive cell depends on the sequence number read two steps earlier, which is `ClaimReady`, and
  that the owner's store does not disturb other cells depends on the window, which is `CellStages`.
- `QueueTypes`, `QueueNoDataRace`, `QueueDelivery`, `QueueWithinOneLap` follow from it.
- `QueueSignedDifference`, for words of any width larger than the ring: a cell's sequence number is that of
  a position of the window that uses the cell (`CellStages`), the position of the thread is not beyond its
  counter (`ClaimReady`), and both lie within a ring's length of the counter or as far behind as the thread
  is.

The lemmas they rest on are about remainders: two positions less than a ring apart that share a
cell are the same, and the next position to use a cell is a ring's length later. The proofs assume what the
module assumes of its constants: the size is a power of two and at least 2, producers and consumers are
different threads, and no item equals `NoItem`.

The queue is a bounded FIFO: `QueueImplementsTicketFifo` is the property `ImplementsTicketFifo` of the runs. `IInv` alone does not carry it:
it allows a cell that was claimed and forgotten, and then an `enqueue` would be refused by a ring that is not
full. `Attended` says that a cell which is not as it should be for the counter is in the hands of a thread
between its claim and its store, and is proved first (`QueueAttended`). With both, a claim is `Reserve`
or `Take`, a store is `Publish` or `Release`, a refusal that read an exact sequence number finds the ring
`Full` or `Empty`, one that read an old value is the refusal `StaleLoads` allows, and all other steps stutter.

### AsyncLogProofs: the helper over the queue

For every number of clients, calls, sinks, failures and formatters, every queue size and both policies:

- `AsyncInvariant`. `CallsAndQueue` ties where a thread is in `Log` to where it is in the queue;
  `Progress` says how far each sink is for each place of the worker; `Formats` that the line in hand is the
  newest; `Failure` that the exception is in one place. `AsyncTypes`, `AsyncSinksFollowQueue`,
  `AsyncSinksAgree` and `AsyncFailureReportedOnce` follow.
- `AsyncLedger`, under `~ForceOff` (clients log no message of level off), on top of it: which messages the
  queue's history has, in which order, and which it cannot have yet. `AsyncNoSilentLoss` and
  `AsyncFlushedOnDestruction` follow from both. The hypothesis is necessary: a client's message of
  level off stops the worker, and what is queued behind it is never written, which is what the code does.
- `AsyncUsesTicketFifo`: `Spec => Queue!Spec`, so that together with `QueueImplementsTicketFifo` each side
  meets the other at `TicketFifo`.

All of this holds up to the moment `fate` records an undefined outcome, since the model stops there.

### SyncLoggerProofs: loggers and sinks

`IInv` is `TypeOK`, `Counters`, `Carried` (what the caller said of a statement is in exactly one of its two
LineLoggers, and which one follows from the place of the thread), `Locked` and `Recorded` (a line in a sink
is of a statement that was made, and complete, and equal in all sinks). `SyncTypes`, `SyncNoOverlap` and
`SyncWrittenAsSaid` follow. `SyncOnce` is a second induction over `IInv`: at every moment a sink has the lines
it should have by the position of each thread in its list of sinks, once; `SyncWrittenOnce` is what is left of
it when a statement is over. `WrittenOnce` is not inductive because it is silent about running statements.

Two hypotheses are written into the theorems. `SomeLogger`: if a thread can log, there is a
logger. `SinksDiffer`, for the two about counting only: no logger has one sink twice. The code does not
forbid that, and a sink given twice gets each message twice.

### RotatingFileProofs: rotating files

For every number of files, sizes, messages, processes, failing calls and unreadable files. `IInv` is the
conjunction of `TypeOK`, `AgeOrder`, `AckedOnce` and `OnlyOldestRemoved`, which are nearly inductive, with
what they lack: `Numbers` (the message in hand is newer than all others, a rotation has closed its file),
`Order` (what was removed is older than what is in the buffer), `Cleared` (the slot a round of `_Rotate`
renames to is free, or the last, or a file could not be read), `Flushed`, `LostBefore` (a process began
between a message that is gone and every newer one), and `Growth`. The last one is about counting: `size` is at least
what the running process has in the open file, whatever failed before, because every message counts its
length and each process starts at an empty share. Every step is one of four kinds (messages move, are
removed, are added, or are lost), and most parts are preserved by kind rather than by action.
All seven invariants of `rotate_series` are theorems. What a crash and what a failed `fclose` take is treated
alike (`Vanish`, `Gone`): it is the whole buffer, so it is newer than every file, and the file is closed
afterwards. In `LostBefore` the condition is that the file is open, and not that a process runs: after a
rotation a process has no file, so nothing newer of it follows.

### DailyFileProofs: daily files

For every length of the day, rotation hour, set of summer-time instants, delay and number of processes:

- `NextRotationBounds`: the next rotation lies after the clock and at most a day after it.
- `DailyInvariant`: `Spec => []IInv`, with `IInv` the types and `Phases`, which says for each place in
  the code how `tp`, `named`, `checked` and the clock are ordered.
- `DailyTypes`, `DailyFileAge`, `DailyRotationAdvances` follow from it. The age has two delays in it: the
  rotation time is at most a day after the clock that was read after naming the file, up to one delay later,
  and the write may come another delay after the clock was compared with it. TLC finds the bound reached: with
  one hour less, `FileAge` is violated on the bounds of `daily_summer`.

### BasicWriterProofs: what a statement writes

Lemmas about the operators of `MemoryBuffer`, `BasicWriter` and `FieldLayout`, for every buffer, value,
specification and allocator. A call is a row of steps on a record, and the predicates compose along it:

- `Fits(m)`: the size is within the capacity and the cells are those of the storage.
- `From(m, r)`: a call that began with `m` and is at `r` has left the text before it where it was, whatever it
  allocated on the way. `Appended(m, s, r)`: and behind it stands `s`, or an exception came first.
- `Written(m, want, freed, loses, r)`: what a whole statement does. It appends `want` and makes no fault, unless it
  is one of the two kinds that are known to go wrong; of these `freed` makes a fault, and after either what was
  wanted is *not* there. The second half is why `TextAsWanted` can be an equivalence.

`StatementWritten` says `Written` of every statement, with `Wanted`, `WritesFreed` and `LosesNumber` of
`FieldLayout`: the reference and the code, which fill a field in different orders, meet in this lemma. Below it
are one lemma for each function (`StrWritten`, `IntWritten`, `DoubleWritten`) and for its cases: a field
prepared around digits that come later, padding that moves the storage under the pointer, a number printed behind
the content, shifted and given its sign.

Numerals need no induction. That the digits written one by one, from the last to the first, are those of `Numeral`
would be an induction over the number. The provers have none, but the library's statement that the order of the
natural numbers is well-founded gives a least element of every set that is not empty (`LeastNatural`): of the
numbers for which the claim fails, take the least, and it fails for a shorter one too (`NumeralStep`). The loops
of the other bases (`Radix`, a recursive function) are brought to `Numeral` in this way; `CountDigits` and
`FormatDecimal` are compared with it digit by digit. The numbers are those of `-MaxNumber..MaxNumber`, so the width of a machine word is not a
parameter.

### MemoryWriterProofs: the life of writers

For every set of statements, blocks, messages and writers, every size of the object and every bound.
`WriterInvariant` is `Spec => []TInv`, and `TInv` is `IInv /\ Texts /\ OnlyKnownFaults /\ ErrorsAreDescribed`.

- `IInv` is `OneOwner` and the domains of the buffers. `Keeps(m, r)` says that a call left the blocks of everybody
  else alone and has at most one of its own; each operator has a lemma that it keeps.
- `Texts` gives every writer in use a `Good` buffer: it holds the text that `want` collected, or `lost` is set and
  it does not. `TextAsWanted` alone is not inductive: it does not say that what lies behind the content was not
  written to, on which the next statement depends.
- `WriterTypes`, `WriterOneOwner`, `WriterTextAsWanted`, `WriterOnlyKnownFaults`, `WriterErrorsAreDescribed` and
  the action property `WriterFailureKeepsText` follow. These are all the properties of `memory_writer`.

The assumptions are those the module makes of its constants. `StatementAssumption`: a statement is one of the six
kinds that `Write` knows, its number is one the types hold, its characters are none that stand for a cell
nothing was written to, and the text `snprintf` made of a number begins with no blank. `ErrorAssumption`: codes
are of the range they are counted in. `RoomAssumption`: the object has at least 12 bytes (the code has 500), so that an error without
its message fits without an allocation. `CallAssumption`: the bound on the calls is a natural number.

The loop that doubles the buffer for the system's text is a recursive function too, and goes by the first round
that would not keep.

### FormattersProofs: the parsers

For every format string of characters without an inner NUL (`StringAssumption`, `CharAssumption`), every
argument list whose arguments have a number and characters (`ArgumentAssumption`), both syntaxes and all limits
in their order (`LimitAssumption`, and `UnsignedAssumption`: a digit, `INT_MAX` and `MAX_ARGS` fit `unsigned`).
What a length of the printf syntax leaves of a number also needs `WordAssumption`: words are even, and a wider
one holds whole narrower ones, as in C++, so that `%c` writes the argument's character whatever the length.

- `FormatInvariant` and `FormatOneIndexing`: the sign of `next_arg_index` says which kind of indexing was used
  up to here, and its value how often. Every step either leaves the uses alone or takes what `NextArg` or
  `GetArg` found (`Step`).
- `TextInvariant` and `FormatLiteralsKept`: the pieces join, and the parser stands where the last one
  ends, at the text, in a field or at the end of the string (`Placed`). That the search for the next
  delimiter finds one is again an argument with the least position.
- `FormatTypes`: the parser is never behind the NUL, `start` and `field` are never behind the parser, and width
  and precision are ints, also those that come from arguments or from a number that wrapped. The invariant is
  `Reads`: `TypeOK`, the types of what was passed, and that the part of a field that reads fill and alignment
  begins at its colon (`AtColon`), which is why skipping a character there does not skip the NUL. Each part of a
  field goes forward to a position of the string (`Moves`), and leaves width and precision alone or sets them to
  what was compared with the limits. `ParseNumber` is a recursive function: `ParseNumberLoop` shows that it is
  what its body says, by building the function for the last characters of the string first (`TurnsMore`), and
  `NumberRead` that its value is an `unsigned` and its end behind the first digit and not behind the NUL, by the
  position of the last digit for which that would fail.
- `FormatFieldsDenote`: every field means what its text says. The invariant (`Fields`) says for each part of a
  field how the text from its first character to the parser is cut, and what the specification has of it:
  `BraceSoFar`, with one conjunct for each `pc` from `AtIndex` to `AtClose`, and `PrintfSoFar`, from `OnHeader`
  to `OnLength`. It also says that the last piece is the text before the field (`Behead`), so that the arguments
  the field has used (`Own`) are those after it. It is needed because `FieldsDenote` speaks of finished fields
  only. The proof has one lemma for each action inside a field (`BraceIndexGoes` to `PrintfArgumentGoes`): it
  fails, or the next part is cut off where it ends. `BraceCloseDenotes` and `PrintfConversionDenotes` conclude
  that the cut of the whole field is a witness for `FieldsDenote`, with the remainders of words for `Holds`.
  A number that was read is the remainder of `Val`: the loop stays at the remainder of the digits so far as it
  goes on, and `Val` is a sum over as many digits (`SumsExist`, `SumsAgree`). Since the grammar only reads the
  string and the arguments, which no step changes, what was cut stays cut (`SameCut`, `SameSlices`).

### Model-checked only

- Liveness (`Drained`, `LogReturns`, `RetryingDestructorFinishes`, `AcceptedIsWritten`, `CallsReturn`,
  `CallEnds`): TLAPS has no support for fairness here.

`Delivery` and `TypeOK` of the queue are conjuncts of its `IInv`, which `mpmc_stale` checks, and `WithinOneLap`
follows from it; these and the types of `DailyFile` have theorems and no run of their own. The invariants of
the other proofs were checked on the bounds of the runs as well, and are not among the runs'
properties.

## 6. Where code and documentation disagree

Each has a run, and `PROJECT.json` quotes both sides:

- `async_join`: under `kDiscardLogMsg` the message that ends the worker can be discarded, and `join`
  waits for ever.
- `async_inactive`: after the exception was thrown to one caller, `Log` queues messages for a worker that
  ended.
- `rotate_reopen`: `Reopen` does nothing for a file that has a name, so the message after a rotation
  goes to a null pointer.

Others, seen while modelling. Most are outcomes the models contain and reach; they have no run of
their own:

- A daily file is named before the next rotation is computed, and a rotation is skipped when the rotation
  time passes in between (log/sinks/file_sink.h:184).
- The format call style returns no LineLogger: the function has no return statement
  (log/logger_impl.h:67).
- A destructor that finds the worker's exception skips `join`, and the joinable thread member ends
  the process (log/async_log_helper.h:172), against "Dont crash if thread not joinable" (line 175).
- A caller blocked on a full queue is never told that the worker ended (line 193). This is the
  `Stuck` of `AsyncLog`.
- Two callers move the worker's exception at once (line 289).
- `Open` returns normally after its last failed try (io/file_helper.h:72), against the comment that
  it throws (lines 35-37).
- A backup that exists but cannot be read is taken for missing, and a newer one is removed before it
  (log/sinks/file_sink.h:123). `OnlyOldestRemoved` excludes this case.
- `Write` ignores the result of `fflush` (io/file_helper.h:109). `AckedSurvives` excludes these
  messages.
- `Close` ignores the result of `fclose` (io/file_helper.h:94): messages in the buffer may be gone although their
  `SinkIt` returned and nothing crashed. `AckedOnce` counts them as `dropped`.
- The rotation of the day after a clock change is an hour off (log/sinks/file_sink.h:206), against "on
  the given time" (log/log.h:97).
- The name of a daily file has hour and minute in it (log/sinks/file_sink.h:216), against "the form
  basename.YYYY-MM-DD.extension" (line 210).
- An exception of `_LogMsg` leaves `~LineLogger`, which is noexcept, and ends the process
  (log/line_logger.h:62), against "will throw spdlog_ex upon log exceptions" (log/async_logger.h:33).
- After a formatting error the part of the text that was formatted is logged all the same
  (log/line_logger.h:87).
- A comma is missing in `level_names`, so the names from warning on are off by one
  (log/common_def.h:71).
- `parse_nonnegative_int` compares the product with the number before to see if it wrapped, which
  misses products that wrapped and are larger (util/format.cc:235).
- An integer with a precision, aligned left: the padding on the right may move the buffer after the
  pointer to the digits was taken (util/format.h:2069-2076). `FieldLayout!WritesFreed`.
- `format_error_code` counts the digits of the code as unsigned and writes its sign too, so the text can be one
  character longer than the room inside the object, and a refused allocation leaves a function that is
  noexcept (util/format.cc:199), against "making sure that the output fits into INLINE_BUFFER_SIZE to avoid
  dynamic memory allocation" (lines 191-193). `ErrorsAreDescribed` excludes these codes.
- A centred double without a sign is lost when the growth for its width moves the buffer, because it is not
  part of the content yet (util/format.h:2385). `FieldLayout!LosesNumber`.
- A double aligned left is padded with blanks, whatever the fill, since `snprintf` does it; infinity and NaN
  stand at the left by default (util/format.h:2274-2404).
- In `{:}` the parser looks behind the closing brace for an alignment mark: `{:}=` takes the brace for
  a fill (util/format.cc:958).
- In printf fields zeros win over `-` (util/format.cc:812-817), `%.f` leaves the precision open
  (line 798), a zero loses its `#` before it is converted (line 810), `%Ld` of a `char` writes the number and
  then the character (lines 885-887), and `%ld` of a negative `int` shows it as an unsigned (line 341).

## 7. Not modelled

- Of the format library: wide characters and upper-case digits, which are the same code again; the parts
  for Windows; `MakeValue` and the variadic macros, which choose argument types at compile time; `print`,
  `fprintf` and `print_colored`, one call of the C library each; the rounding of `snprintf`; a string argument of
  size 0 over characters that are there, which is measured up to its NUL (util/format.cc:654-659).
- A system clock that is set back (`DailyFile`).
- The registry and the asynchronous logger class: the repository has declarations only.
- Formatters: declared only. A formatter is a step that may throw, and its identity is a number. In
  `SyncLogger` that ends the process, as with a sink.
- The ostream, stdout, null and syslog sinks: one call each. To the loggers they are abstract sinks.
- `NullMutex`: for one thread, where it has no effect.
- The waiting times of `SleepOrYield` and `Open`; thread ids; names of loggers; the time in a message.
- The tables of level names.
- Positions of the queue as words: `SignedDifference` stands for it (section 2).

## 8. Plan

The core came first: the queue with its proof, the helper over it, then the two file sinks and the
synchronous logger, then the buffers, writers and parsers of the format library. The proofs followed in the
same order: the refinement of the queue, then the safety of the helper, the loggers, the rotating files, the
ownership of blocks, what the parsers keep, what the writers write, and what a field means. What is left
is liveness, which TLC checks on the bounds of section 3.
