-------------------------------- MODULE MpmcQueue --------------------------------
(***************************************************************************)
(* src/common/container/queue/mpmc_bounded_queue.h, one action per access  *)
(* to shared memory.                                                       *)
(*                                                                         *)
(* buffer_ is an array of cells; cell i starts with sequence_ = i.  A cell *)
(* with sequence_ = pos is free for the enqueue that owns position pos, a  *)
(* cell with sequence_ = pos + 1 holds the item of position pos.  An       *)
(* operation loads its position counter, loads the sequence of the cell of *)
(* that position, claims the position with a compare-and-swap, moves the   *)
(* item in or out and stores the next sequence.                            *)
(*                                                                         *)
(* Positions are natural numbers here and not words of size_t;             *)
(* SignedDifference says how long the code cannot tell the two apart.      *)
(***************************************************************************)
EXTENDS Integers, Sequences, FiniteSets

CONSTANTS
  Producers,     \* threads that call enqueue
  Consumers,     \* threads that call dequeue
  Item,          \* the values of T the callers enqueue
  NoItem,        \* a moved-from or default constructed T
  BufferSize,    \* the constructor's buffer_size
  HalfRange,     \* half the number of values of size_t
  MaxTickets,    \* bound: no enqueue is called once this many were claimed
  RelaxedLoads   \* TRUE: a load may return an older value of the variable

\* The constructor throws unless buffer_size is a power of two and at least 2.
ASSUME SizeAssumption ==
  /\ BufferSize \in Nat
  /\ BufferSize >= 2
  /\ \E k \in 1..BufferSize : BufferSize = 2^k

\* The array of cells fits the address space.
ASSUME RangeAssumption == HalfRange \in Nat /\ BufferSize < HalfRange

ASSUME ThreadAssumption == Producers \cap Consumers = {}
ASSUME ItemAssumption == NoItem \notin Item
ASSUME ParameterAssumption == MaxTickets \in Nat /\ RelaxedLoads \in BOOLEAN

VARIABLES
  sequence,   \* cell_t::sequence_
  data,       \* cell_t::data_
  enqPos,     \* enqueue_pos_
  deqPos,     \* dequeue_pos_
  pc,         \* where each thread is in its call; "true" and "false" are results
  pos,        \* the local variable pos
  item,       \* the argument of enqueue, the out-parameter of dequeue
  sent        \* history: the items in the order of the claims of enqueue_pos_

vars == <<sequence, data, enqPos, deqPos, pc, pos, item, sent>>

Thread == Producers \cup Consumers
Cells == 0..(BufferSize - 1)

\* pos & buffer_mask_, for a buffer size that is a power of two.
Cell(n) == n % BufferSize

\* A thread outside a call, at rest with the result of its last one.
Resting == {"idle", "true", "false"}

Init ==
  /\ sequence = [i \in Cells |-> i]
  /\ data = [i \in Cells |-> NoItem]
  /\ enqPos = 0
  /\ deqPos = 0
  /\ pc = [t \in Thread |-> "idle"]
  /\ pos = [t \in Thread |-> 0]
  /\ item = [t \in Thread |-> NoItem]
  /\ sent = <<>>

Goto(t, label) == pc' = [pc EXCEPT ![t] = label]

\* What a load of a position counter may return.
CounterLoads(counter) == IF RelaxedLoads THEN 0..counter ELSE {counter}

\* What a load of a cell's sequence may return: its value, or one of those it
\* went through before, i, i + 1, i + BufferSize, i + BufferSize + 1, ...
SequenceLoads(i) ==
  IF RelaxedLoads
  THEN {v \in i..sequence[i] : v % BufferSize = i \/ (v - 1) % BufferSize = i}
  ELSE {sequence[i]}

-----------------------------------------------------------------------------
(* The steps enqueue and dequeue have in common.                           *)

\* Slip: a cell that another thread already went past is taken for a full or
\* empty queue (dif != 0 instead of dif < 0).
LoadSequenceGivesUp(t, expected) ==
  /\ pc[t] = "load"
  /\ \E seq \in SequenceLoads(Cell(pos[t])) :
       \/ seq = expected /\ Goto(t, "cas")
       \/ seq # expected /\ Goto(t, "false")
  /\ UNCHANGED <<sequence, data, enqPos, deqPos, pos, item, sent>>

\* Load the sequence of the cell of pos[t] and compare it with the one that
\* lets t go on: claim the position, give up, or fetch a newer position.
LoadSequence(t, expected) ==
  /\ pc[t] = "load"
  /\ \E seq \in SequenceLoads(Cell(pos[t])) :
       \/ seq = expected /\ Goto(t, "cas")
       \/ seq < expected /\ Goto(t, "false")
       \/ seq > expected /\ Goto(t, "reload")
  /\ UNCHANGED <<sequence, data, enqPos, deqPos, pos, item, sent>>

\* pos = counter.load(), or the compare_exchange_weak that fails - because the
\* counter moved or for no reason - and leaves what it read in pos.
Reread(t, counter) ==
  /\ pc[t] \in {"reload", "cas"}
  /\ \E n \in CounterLoads(counter) : pos' = [pos EXCEPT ![t] = n]
  /\ Goto(t, "load")
  /\ UNCHANGED <<sequence, data, enqPos, deqPos, item, sent>>

-----------------------------------------------------------------------------
(* enqueue(T&& data)                                                       *)

EnqueueCall(p, m) ==
  /\ pc[p] \in Resting
  /\ enqPos < MaxTickets
  /\ item' = [item EXCEPT ![p] = m]
  /\ \E n \in CounterLoads(enqPos) : pos' = [pos EXCEPT ![p] = n]
  /\ Goto(p, "load")
  /\ UNCHANGED <<sequence, data, enqPos, deqPos, sent>>

EnqueueLoadSequence(p) == LoadSequence(p, pos[p])

EnqueueReread(p) == Reread(p, enqPos)

\* Slip: the position is taken with a plain store instead of a compare-and-swap.
EnqueueClaimUnchecked(p) ==
  /\ pc[p] = "cas"
  /\ enqPos' = pos[p] + 1
  /\ sent' = Append(sent, item[p])
  /\ Goto(p, "move")
  /\ UNCHANGED <<sequence, data, deqPos, pos, item>>

EnqueueClaim(p) ==
  /\ pc[p] = "cas"
  /\ enqPos = pos[p]
  /\ enqPos' = pos[p] + 1
  /\ sent' = Append(sent, item[p])
  /\ Goto(p, "move")
  /\ UNCHANGED <<sequence, data, deqPos, pos, item>>

EnqueueMove(p) ==
  /\ pc[p] = "move"
  /\ data' = [data EXCEPT ![Cell(pos[p])] = item[p]]
  /\ item' = [item EXCEPT ![p] = NoItem]
  /\ Goto(p, "store")
  /\ UNCHANGED <<sequence, enqPos, deqPos, pos, sent>>

\* Slip: the stored sequence is not advanced, so the item stays invisible.
EnqueueStoreUnpublished(p) ==
  /\ pc[p] = "store"
  /\ sequence' = [sequence EXCEPT ![Cell(pos[p])] = pos[p]]
  /\ Goto(p, "true")
  /\ UNCHANGED <<data, enqPos, deqPos, pos, item, sent>>

EnqueueStore(p) ==
  /\ pc[p] = "store"
  /\ sequence' = [sequence EXCEPT ![Cell(pos[p])] = pos[p] + 1]
  /\ Goto(p, "true")
  /\ UNCHANGED <<data, enqPos, deqPos, pos, item, sent>>

EnqueueStep(p) ==
  \/ EnqueueLoadSequence(p) \/ EnqueueReread(p) \/ EnqueueClaim(p)
  \/ EnqueueMove(p) \/ EnqueueStore(p)

-----------------------------------------------------------------------------
(* dequeue(T& data), called with a fresh out-parameter                     *)

DequeueCall(c) ==
  /\ pc[c] \in Resting
  /\ item' = [item EXCEPT ![c] = NoItem]
  /\ \E n \in CounterLoads(deqPos) : pos' = [pos EXCEPT ![c] = n]
  /\ Goto(c, "load")
  /\ UNCHANGED <<sequence, data, enqPos, deqPos, sent>>

\* Slip: the sequence of a free cell is taken for that of a published one.
DequeueLoadSequenceTooEarly(c) == LoadSequence(c, pos[c])

DequeueLoadSequence(c) == LoadSequence(c, pos[c] + 1)

DequeueReread(c) == Reread(c, deqPos)

\* Slip: the position is taken with a plain store instead of a compare-and-swap.
DequeueClaimUnchecked(c) ==
  /\ pc[c] = "cas"
  /\ deqPos' = pos[c] + 1
  /\ Goto(c, "move")
  /\ UNCHANGED <<sequence, data, enqPos, pos, item, sent>>

DequeueClaim(c) ==
  /\ pc[c] = "cas"
  /\ deqPos = pos[c]
  /\ deqPos' = pos[c] + 1
  /\ Goto(c, "move")
  /\ UNCHANGED <<sequence, data, enqPos, pos, item, sent>>

DequeueMove(c) ==
  /\ pc[c] = "move"
  /\ item' = [item EXCEPT ![c] = data[Cell(pos[c])]]
  /\ data' = [data EXCEPT ![Cell(pos[c])] = NoItem]
  /\ Goto(c, "store")
  /\ UNCHANGED <<sequence, enqPos, deqPos, pos, sent>>

\* Slip: the next lap is looked for in the wrong direction.
DequeueStoreBackwards(c) ==
  /\ pc[c] = "store"
  /\ sequence' = [sequence EXCEPT ![Cell(pos[c])] = pos[c] - BufferSize]
  /\ Goto(c, "true")
  /\ UNCHANGED <<data, enqPos, deqPos, pos, item, sent>>

DequeueStore(c) ==
  /\ pc[c] = "store"
  /\ sequence' = [sequence EXCEPT ![Cell(pos[c])] = pos[c] + BufferSize]
  /\ Goto(c, "true")
  /\ UNCHANGED <<data, enqPos, deqPos, pos, item, sent>>

DequeueStep(c) ==
  \/ DequeueLoadSequence(c) \/ DequeueReread(c) \/ DequeueClaim(c)
  \/ DequeueMove(c) \/ DequeueStore(c)

-----------------------------------------------------------------------------

Next ==
  \/ \E p \in Producers : \/ \E m \in Item : EnqueueCall(p, m)
                          \/ EnqueueStep(p)
  \/ \E c \in Consumers : DequeueCall(c) \/ DequeueStep(c)

Spec == Init /\ [][Next]_vars

\* A thread that is inside a call runs on, a compare_exchange_weak that could
\* succeed does not fail for ever, and somebody keeps polling the queue.
Fairness ==
  /\ \A p \in Producers : WF_vars(EnqueueStep(p)) /\ SF_vars(EnqueueClaim(p))
  /\ \A c \in Consumers : /\ WF_vars(DequeueCall(c))
                           /\ WF_vars(DequeueStep(c)) /\ SF_vars(DequeueClaim(c))

FairSpec == Spec /\ Fairness

-----------------------------------------------------------------------------
(* Properties                                                              *)

\* Every variable has its type: sequences and positions are natural numbers,
\* cells and locals hold items or the moved-from item.
TypeOK ==
  /\ sequence \in [Cells -> Nat]
  /\ data \in [Cells -> Item \cup {NoItem}]
  /\ enqPos \in Nat
  /\ deqPos \in Nat
  /\ pc \in [Thread -> {"idle", "load", "cas", "reload", "move", "store", "true", "false"}]
  /\ pos \in [Thread -> Nat]
  /\ item \in [Thread -> Item \cup {NoItem}]
  /\ sent \in Seq(Item)

\* The thread owns the cell of its position: it claimed and did not store yet.
Owns(t) == pc[t] \in {"move", "store"}

\* data_ is not atomic, and only the sequence_ protocol orders the accesses to
\* it (lines 89-90 and 120-121): two threads never own the same cell at once,
\* whether both enqueue, both dequeue, or one of them is a lap behind.
NoDataRace ==
  \A t, u \in Thread :
    t # u /\ Owns(t) /\ Owns(u) => Cell(pos[t]) # Cell(pos[u])

\* The dequeue that claimed position k returns what the enqueue that claimed
\* position k was given: nothing is lost, invented, torn or delivered twice,
\* however far apart the two threads are and however often the ring wrapped.
Delivery ==
  \A c \in Consumers :
    pc[c] \in {"store", "true"} => /\ pos[c] \in 0..(enqPos - 1)
                                  /\ item[c] = sent[pos[c] + 1]

\* An enqueue never laps a position that is not fully drained: while a consumer
\* still owns position k, position k + BufferSize is not claimed, and the two
\* counters never get further apart than the ring is long.
WithinOneLap ==
  /\ deqPos \in (enqPos - BufferSize)..enqPos
  /\ \A c \in Consumers : Owns(c) => enqPos <= pos[c] + BufferSize

\* What an operation compares, and the counter its position came from.
Expected(t) == IF t \in Producers THEN pos[t] ELSE pos[t] + 1
Counter(t) == IF t \in Producers THEN enqPos ELSE deqPos

\* The code subtracts words and looks at the sign (lines 72-73 and 103-104).  The
\* sign is that of the true difference, also after the positions wrapped, unless
\* the counter went through nearly half the range while the thread was stopped
\* between its loads.
SignedDifference ==
  \A t \in Thread :
    pc[t] = "load" /\ Counter(t) - pos[t] <= HalfRange - BufferSize =>
      sequence[Cell(pos[t])] - Expected(t) \in (-HalfRange)..(HalfRange - 1)

\* Every claimed position is dequeued in the end, whatever happens to the
\* threads in between: a full, empty or contended queue never gets stuck.
Drained == \A n \in 0..(MaxTickets + Cardinality(Producers)) : enqPos > n ~> deqPos > n

-----------------------------------------------------------------------------
(* The queue implements TicketFifo.  A claim is the moment an operation     *)
(* takes its place, the store of the sequence the moment it hands over its  *)
(* slot, and the move in between is invisible: the abstract producer gave   *)
(* its item away at the claim, the abstract consumer has it from the claim. *)

AbstractOp(t) ==
  CASE pc[t] = "idle" -> "idle"
    [] pc[t] \in {"load", "cas", "reload"} -> "calling"
    [] pc[t] \in {"move", "store"} -> "holding"
    [] pc[t] = "true" -> "done"
    [] pc[t] = "false" -> "refused"

AbstractItem(t) ==
  IF pc[t] # "move" THEN item[t]
  ELSE IF t \in Producers THEN NoItem ELSE data[Cell(pos[t])]

Fifo == INSTANCE TicketFifo WITH
  Capacity <- BufferSize,
  Spurious <- RelaxedLoads,
  head <- deqPos,
  op <- [t \in Thread |-> AbstractOp(t)],
  ticket <- [t \in Thread |-> IF Owns(t) THEN pos[t] ELSE -1],
  item <- [t \in Thread |-> AbstractItem(t)]

\* The code's steps are steps of TicketFifo or invisible: a refused enqueue
\* means a full ring, a refused dequeue an empty one (or a stale load), the
\* items leave in the order of their tickets, and a refusal keeps the item.
ImplementsTicketFifo == Fifo!Spec

-----------------------------------------------------------------------------
(* The inductive invariant                                                 *)

Window == deqPos..(deqPos + BufferSize - 1)

\* The cell of each position from deqPos on is at one of two stages: claimed or
\* published if the position is taken, free or still being drained if it is not.
CellStages ==
  /\ enqPos \in deqPos..(deqPos + BufferSize)
  /\ Len(sent) = enqPos
  /\ \A j \in Window :
       /\ j < enqPos => sequence[Cell(j)] \in {j, j + 1}
       /\ j >= enqPos => sequence[Cell(j)] \in {j, j + 1 - BufferSize}

\* A local position is never ahead of its counter, and what a thread read before
\* its compare-and-swap still binds the cell as long as the counter did not move.
ClaimReady ==
  /\ \A p \in Producers :
       /\ pos[p] <= enqPos
       /\ pc[p] = "cas" /\ pos[p] = enqPos => sequence[Cell(pos[p])] = pos[p]
  /\ \A c \in Consumers :
       /\ pos[c] <= deqPos
       /\ pc[c] = "cas" /\ pos[c] = deqPos => sequence[Cell(pos[c])] = pos[c] + 1

\* The cell a thread owns is at the stage that only this thread can end.
Ownership ==
  /\ \A p \in Producers : Owns(p) =>
       pos[p] \in deqPos..(enqPos - 1) /\ sequence[Cell(pos[p])] = pos[p]
  /\ \A c \in Consumers : Owns(c) =>
       /\ pos[c] \in (enqPos - BufferSize)..(deqPos - 1)
       /\ sequence[Cell(pos[c])] = pos[c] + 1
  /\ \A t, u \in Thread : t # u /\ Owns(t) /\ Owns(u) => pos[t] # pos[u]

\* Where the item of each position is: with its producer, in its cell, or with
\* its consumer.
ItemPlaces ==
  /\ \A j \in deqPos..(enqPos - 1) :
       sequence[Cell(j)] = j + 1 => data[Cell(j)] = sent[j + 1]
  /\ \A p \in Producers :
       /\ pc[p] = "move" => item[p] = sent[pos[p] + 1]
       /\ pc[p] = "store" => data[Cell(pos[p])] = sent[pos[p] + 1]
       /\ pc[p] \in {"load", "cas", "reload"} => item[p] \in Item
  /\ \A c \in Consumers :
       pc[c] = "move" => data[Cell(pos[c])] = sent[pos[c] + 1]

\* The protocol's invariant: together with the types it is inductive, and
\* NoDataRace, Delivery and WithinOneLap follow from it.
IInv == TypeOK /\ CellStages /\ ClaimReady /\ Ownership /\ ItemPlaces /\ Delivery

=============================================================================
