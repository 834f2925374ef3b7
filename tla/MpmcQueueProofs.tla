---------------------------- MODULE MpmcQueueProofs ----------------------------
(***************************************************************************)
(* Theorems about MpmcQueue, for every number of threads, every buffer     *)
(* size the constructor accepts and both kinds of loads: its invariant,    *)
(* and that it implements TicketFifo.                                      *)
(***************************************************************************)
EXTENDS MpmcQueue, TLAPS

-----------------------------------------------------------------------------
(* Positions and cells                                                     *)

\* A position is a number of whole laps and an index of the buffer.
LEMMA LapAndIndex ==
  ASSUME NEW n \in Int
  PROVE  /\ n \div BufferSize \in Int
         /\ n % BufferSize \in 0..(BufferSize - 1)
         /\ n = BufferSize * (n \div BufferSize) + (n % BufferSize)
BY SizeAssumption

\* A number of laps that is not zero is at least one ring long.
LEMMA WholeLaps ==
  ASSUME NEW k \in Int
  PROVE  /\ k >= 1 => BufferSize * k >= BufferSize
         /\ k <= 0 => BufferSize * k <= 0
BY SizeAssumption

\* Two positions less than one lap apart have different cells.
LEMMA CellsWithinLap ==
  ASSUME NEW i \in Int, NEW j \in Int, i < j, j < i + BufferSize
  PROVE  Cell(i) # Cell(j)
<1> DEFINE a == i \div BufferSize
           b == j \div BufferSize
<1>1. SUFFICES ASSUME i % BufferSize = j % BufferSize PROVE FALSE
  BY DEF Cell
<1>2. /\ a \in Int /\ i = BufferSize * a + (i % BufferSize)
      /\ b \in Int /\ j = BufferSize * b + (j % BufferSize)
  BY LapAndIndex
<1>3. j - i = BufferSize * (b - a)
  <2>1. BufferSize * b - BufferSize * a = BufferSize * (b - a)
    BY <1>2, SizeAssumption
  <2>2. i % BufferSize \in Int /\ BufferSize * a \in Int /\ BufferSize * b \in Int
    BY <1>2, SizeAssumption
  <2> QED
    BY <1>1, <1>2, <2>1, <2>2
<1>4. /\ b - a >= 1 => BufferSize * (b - a) >= BufferSize
      /\ b - a <= 0 => BufferSize * (b - a) <= 0
  BY <1>2, WholeLaps
<1> QED
  BY <1>2, <1>3, <1>4, SizeAssumption

\* A position and the same position one lap later share a cell.
LEMMA CellOfNextLap ==
  ASSUME NEW n \in Int
  PROVE  Cell(n + BufferSize) = Cell(n)
<1> DEFINE a == n \div BufferSize
           r == n % BufferSize
<1>1. a \in Int /\ r \in 0..(BufferSize - 1) /\ n = BufferSize * a + r
  BY LapAndIndex
<1> HIDE DEF a, r
<1>2. n + BufferSize = BufferSize * (a + 1) + r
  <2>1. BufferSize * (a + 1) = BufferSize * a + BufferSize
    BY <1>1, SizeAssumption
  <2>2. BufferSize * a \in Int
    BY <1>1, SizeAssumption
  <2> QED
    BY <1>1, <2>1, <2>2, SizeAssumption
<1>3. ASSUME NEW q \in Int PROVE (BufferSize * q + r) % BufferSize = r
  BY <1>1, SizeAssumption
<1>4. /\ (BufferSize * (a + 1) + r) % BufferSize = r
      /\ (BufferSize * a + r) % BufferSize = r
  BY <1>1, <1>3
<1> QED
  BY <1>1, <1>2, <1>4 DEF Cell

\* What the proofs below use of Cell and BufferSize.
LEMMA CellFacts ==
  /\ BufferSize \in Nat /\ BufferSize >= 2
  /\ \A n \in Int : Cell(n) \in Cells /\ Cell(n + BufferSize) = Cell(n)
  /\ \A i, j \in Int : i < j /\ j < i + BufferSize => Cell(i) # Cell(j)
BY SizeAssumption, LapAndIndex, CellOfNextLap, CellsWithinLap DEF Cell, Cells

\* A load never returns more than the variable holds.
LEMMA LoadsAreNotAhead ==
  ASSUME TypeOK
  PROVE  /\ \A i \in Cells : \A v \in SequenceLoads(i) : v \in Nat /\ v <= sequence[i]
         /\ \A v \in CounterLoads(enqPos) : v \in Nat /\ v <= enqPos
         /\ \A v \in CounterLoads(deqPos) : v \in Nat /\ v <= deqPos
<1>1. ASSUME NEW i \in Cells, NEW v \in SequenceLoads(i)
      PROVE  v \in Nat /\ v <= sequence[i]
  <2>1. sequence[i] \in Nat /\ i \in Nat
    BY SizeAssumption DEF TypeOK, Cells
  <2> QED
    BY <2>1 DEF SequenceLoads
<1> QED
  BY <1>1 DEF TypeOK, CounterLoads

-----------------------------------------------------------------------------
(* The invariant holds initially                                           *)

\* Before the first call no ticket is out.
LEMMA InitInvariant == Init => IInv
<1> SUFFICES ASSUME Init PROVE IInv
  OBVIOUS
<1>1. TypeOK
  BY SizeAssumption DEF Init, TypeOK, Cells
<1>2. ASSUME NEW j \in Window PROVE sequence[Cell(j)] = j
  BY SizeAssumption, j % BufferSize = j DEF Init, Window, Cell, Cells
<1>3. CellStages
  <2>1. enqPos = 0 /\ deqPos = 0 /\ Len(sent) = 0
    BY DEF Init
  <2>2. Window \subseteq Nat /\ 0 \in 0..BufferSize
    BY <2>1, CellFacts DEF Window
  <2> QED
    BY <1>2, <2>1, <2>2, CellFacts DEF CellStages
<1>4. ClaimReady /\ Ownership /\ ItemPlaces /\ Delivery
  BY ThreadAssumption DEF Init, ClaimReady, Ownership, ItemPlaces, Delivery, Owns, Thread
<1> QED
  BY <1>1, <1>3, <1>4 DEF IInv

-----------------------------------------------------------------------------
(* Consequences of the invariant                                           *)

\* The invariant gives the types of the thread's own variables.
LEMMA ThreadTypes ==
  ASSUME TypeOK, NEW t \in Thread
  PROVE  /\ pos[t] \in Nat /\ item[t] \in Item \cup {NoItem}
         /\ Cell(pos[t]) \in Cells /\ sequence[Cell(pos[t])] \in Nat
         /\ enqPos \in Nat /\ deqPos \in Nat
BY CellFacts DEF TypeOK

\* The counters are natural numbers at most a lap apart.
LEMMA CounterTypes ==
  ASSUME IInv
  PROVE  /\ enqPos \in Nat /\ deqPos \in Nat
         /\ deqPos <= enqPos /\ enqPos <= deqPos + BufferSize
BY CellFacts DEF IInv, TypeOK, CellStages

\* Everything between the oldest owned position and enqueue_pos_ fits in a lap.
LEMMA OwnedRange ==
  ASSUME IInv, NEW t \in Thread, Owns(t)
  PROVE  /\ pos[t] \in Int /\ enqPos - BufferSize <= pos[t] /\ pos[t] < enqPos
         /\ deqPos <= enqPos /\ enqPos <= deqPos + BufferSize
<1>1. enqPos \in Nat /\ deqPos \in Nat /\ pos[t] \in Nat
  BY DEF IInv, TypeOK
<1>2. deqPos <= enqPos /\ enqPos <= deqPos + BufferSize
  BY CounterTypes
<1>3. CASE t \in Producers
  BY <1>1, <1>2, <1>3, CellFacts DEF IInv, Ownership
<1>4. CASE t \in Consumers
  BY <1>1, <1>2, <1>4, CellFacts DEF IInv, Ownership
<1> QED
  BY <1>3, <1>4 DEF Thread

\* A cell that is owned for one position is not the cell of another position
\* that is in use.
LEMMA OwnedCellElsewhere ==
  ASSUME IInv, NEW t \in Thread, Owns(t),
         NEW j \in Int, enqPos - BufferSize <= j, j < enqPos, j # pos[t]
  PROVE  Cell(j) # Cell(pos[t])
<1>1. /\ pos[t] \in Int /\ enqPos - BufferSize <= pos[t] /\ pos[t] < enqPos
      /\ enqPos \in Nat
  BY OwnedRange DEF IInv, TypeOK
<1> QED
  BY <1>1, CellFacts

\* No two threads own the same cell.
LEMMA OwnersApart == IInv => NoDataRace
<1> SUFFICES ASSUME IInv, NEW t \in Thread, NEW u \in Thread,
                    t # u, Owns(t), Owns(u)
             PROVE  Cell(pos[t]) # Cell(pos[u])
  BY DEF NoDataRace
<1>1. pos[t] # pos[u]
  BY DEF IInv, Ownership
<1> QED
  BY <1>1, OwnedRange, OwnedCellElsewhere

\* The counters are less than a lap and the oldest owned position apart.
LEMMA InvariantWithinOneLap == IInv => WithinOneLap
<1> SUFFICES ASSUME IInv PROVE WithinOneLap
  OBVIOUS
<1>1. enqPos \in Nat /\ deqPos \in Nat
  BY DEF IInv, TypeOK
<1>2. deqPos \in (enqPos - BufferSize)..enqPos
  BY CounterTypes, CellFacts
<1>3. ASSUME NEW c \in Consumers, Owns(c) PROVE enqPos <= pos[c] + BufferSize
  <2>1. c \in Thread
    BY DEF Thread
  <2> QED
    BY <1>1, <1>3, <2>1, OwnedRange, CellFacts
<1> QED
  BY <1>2, <1>3 DEF WithinOneLap

\* The stage of the cell at dequeue_pos_ and at enqueue_pos_ tells whether the
\* queue has an item or a free cell.
LEMMA CounterCells ==
  ASSUME IInv
  PROVE  /\ sequence[Cell(deqPos)] = deqPos + 1 => deqPos < enqPos
         /\ sequence[Cell(enqPos)] >= enqPos =>
              enqPos < deqPos + BufferSize /\ sequence[Cell(enqPos)] = enqPos
<1>1. enqPos \in Nat /\ deqPos \in Nat /\ deqPos <= enqPos /\ enqPos <= deqPos + BufferSize
  BY CounterTypes
<1>2. deqPos \in Window
  BY <1>1, CellFacts DEF Window
<1>3. /\ deqPos < enqPos => sequence[Cell(deqPos)] \in {deqPos, deqPos + 1}
      /\ deqPos >= enqPos => sequence[Cell(deqPos)] \in {deqPos, deqPos + 1 - BufferSize}
  BY <1>2 DEF IInv, CellStages
<1>4. sequence[Cell(deqPos)] = deqPos + 1 => deqPos < enqPos
  BY <1>1, <1>3, CellFacts
<1>5. CASE enqPos = deqPos + BufferSize
  <2>1. Cell(enqPos) = Cell(deqPos)
    BY <1>1, <1>5, CellFacts
  <2>2. sequence[Cell(enqPos)] <= deqPos + 1
    BY <1>1, <1>3, <1>5, <2>1, CellFacts
  <2> QED
    BY <1>1, <1>4, <1>5, <2>2, CellFacts, sequence[Cell(enqPos)] \in Nat DEF IInv, TypeOK
<1>6. CASE enqPos < deqPos + BufferSize
  <2>1. enqPos \in Window
    BY <1>1, <1>6, CellFacts DEF Window
  <2>2. sequence[Cell(enqPos)] \in {enqPos, enqPos + 1 - BufferSize}
    BY <1>1, <2>1 DEF IInv, CellStages
  <2> QED
    BY <1>1, <1>4, <1>6, <2>2, CellFacts
<1> QED
  BY <1>1, <1>5, <1>6, CellFacts

-----------------------------------------------------------------------------
(* The steps that touch neither a cell nor a counter                       *)

\* A step of one thread t that owns no cell before or after it, changes only
\* its own variables and sets them as its side of the protocol wants.
LEMMA LocalStep ==
  ASSUME IInv, TypeOK', NEW t \in Thread,
         UNCHANGED <<sequence, data, enqPos, deqPos, sent>>,
         \A u \in Thread \ {t} :
           pc'[u] = pc[u] /\ pos'[u] = pos[u] /\ item'[u] = item[u],
         pc'[t] \in {"load", "cas", "reload", "false"},
         t \in Producers =>
           /\ pos'[t] <= enqPos
           /\ item'[t] \in Item
           /\ pc'[t] = "cas" /\ pos'[t] = enqPos => sequence[Cell(pos'[t])] = pos'[t],
         t \in Consumers =>
           /\ pos'[t] <= deqPos
           /\ pc'[t] = "cas" /\ pos'[t] = deqPos => sequence[Cell(pos'[t])] = pos'[t] + 1
  PROVE  IInv'
<1>1. ~Owns(t)' /\ pc'[t] \notin {"move", "store", "true"}
  BY DEF Owns
<1>2. ASSUME NEW u \in Thread, Owns(u)'
      PROVE  u # t /\ Owns(u) /\ pos'[u] = pos[u]
  BY <1>1, <1>2 DEF Owns
<1>3. CellStages'
  BY DEF IInv, CellStages, Window
<1>4. ClaimReady'
  BY ThreadAssumption DEF IInv, ClaimReady, Thread
<1>5. Ownership'
  <2>1. ASSUME NEW p \in Producers, Owns(p)'
        PROVE  (pos[p] \in deqPos..(enqPos - 1) /\ sequence[Cell(pos[p])] = pos[p])'
    BY <1>2, <2>1 DEF IInv, Ownership, Thread
  <2>2. ASSUME NEW c \in Consumers, Owns(c)'
        PROVE  (/\ pos[c] \in (enqPos - BufferSize)..(deqPos - 1)
                /\ sequence[Cell(pos[c])] = pos[c] + 1)'
    BY <1>2, <2>2 DEF IInv, Ownership, Thread
  <2>3. ASSUME NEW u \in Thread, NEW v \in Thread, u # v, Owns(u)', Owns(v)'
        PROVE  pos'[u] # pos'[v]
    BY <1>2, <2>3 DEF IInv, Ownership
  <2> QED
    BY <2>1, <2>2, <2>3 DEF Ownership
<1>6. ItemPlaces'
  <2>1. ASSUME NEW p \in Producers
        PROVE  (/\ pc[p] = "move" => item[p] = sent[pos[p] + 1]
                /\ pc[p] = "store" => data[Cell(pos[p])] = sent[pos[p] + 1]
                /\ pc[p] \in {"load", "cas", "reload"} => item[p] \in Item)'
    BY <1>1, p \in Thread DEF IInv, ItemPlaces, Thread
  <2>2. ASSUME NEW c \in Consumers
        PROVE  (pc[c] = "move" => data[Cell(pos[c])] = sent[pos[c] + 1])'
    BY <1>1, c \in Thread DEF IInv, ItemPlaces, Thread
  <2> QED
    BY <2>1, <2>2 DEF IInv, ItemPlaces
<1>7. Delivery'
  <2> SUFFICES ASSUME NEW c \in Consumers, pc'[c] \in {"store", "true"}
               PROVE  (pos[c] \in 0..(enqPos - 1) /\ item[c] = sent[pos[c] + 1])'
    BY DEF Delivery
  <2> QED
    BY <1>1, c \in Thread DEF IInv, Delivery, Thread
<1> QED
  BY <1>3, <1>4, <1>5, <1>6, <1>7 DEF IInv

\* Loading the sequence only lets an enqueue go on to its compare-and-swap with
\* a position that is free as long as it is still the next one.
LEMMA EnqueueLoadStep ==
  ASSUME IInv, NEW p \in Producers, EnqueueLoadSequence(p)
  PROVE  IInv'
<1> p \in Thread
  BY DEF Thread
<1>1. TypeOK'
  BY DEF EnqueueLoadSequence, LoadSequence, Goto, IInv, TypeOK
<1>2. PICK seq \in SequenceLoads(Cell(pos[p])) :
        \/ seq = pos[p] /\ Goto(p, "cas")
        \/ seq < pos[p] /\ Goto(p, "false")
        \/ seq > pos[p] /\ Goto(p, "reload")
  BY DEF EnqueueLoadSequence, LoadSequence
<1>3. /\ pc'[p] \in {"cas", "false", "reload"}
      /\ pc'[p] = "cas" => seq = pos[p]
      /\ \A u \in Thread \ {p} : pc'[u] = pc[u]
  BY <1>2 DEF Goto, IInv, TypeOK
<1>4. seq <= sequence[Cell(pos[p])]
  BY LoadsAreNotAhead, ThreadTypes DEF IInv
<1>5. pos[p] <= enqPos /\ item[p] \in Item
  BY DEF EnqueueLoadSequence, LoadSequence, IInv, ClaimReady, ItemPlaces
<1>6. pc'[p] = "cas" /\ pos[p] = enqPos => sequence[Cell(pos[p])] = pos[p]
  BY <1>3, <1>4, CounterCells
<1>7. UNCHANGED <<sequence, data, enqPos, deqPos, pos, item, sent>>
  BY DEF EnqueueLoadSequence, LoadSequence
<1> QED
  BY <1>1, <1>3, <1>5, <1>6, <1>7, LocalStep, ThreadAssumption

\* The same for a dequeue: the item of its position is published.
LEMMA DequeueLoadStep ==
  ASSUME IInv, NEW c \in Consumers, DequeueLoadSequence(c)
  PROVE  IInv'
<1> c \in Thread
  BY DEF Thread
<1>1. TypeOK'
  BY DEF DequeueLoadSequence, LoadSequence, Goto, IInv, TypeOK
<1>2. PICK seq \in SequenceLoads(Cell(pos[c])) :
        \/ seq = pos[c] + 1 /\ Goto(c, "cas")
        \/ seq < pos[c] + 1 /\ Goto(c, "false")
        \/ seq > pos[c] + 1 /\ Goto(c, "reload")
  BY DEF DequeueLoadSequence, LoadSequence
<1>3. /\ pc'[c] \in {"cas", "false", "reload"}
      /\ pc'[c] = "cas" => seq = pos[c] + 1
      /\ \A u \in Thread \ {c} : pc'[u] = pc[u]
  BY <1>2 DEF Goto, IInv, TypeOK
<1>4. seq <= sequence[Cell(pos[c])]
  BY LoadsAreNotAhead, ThreadTypes DEF IInv
<1>5. pos[c] <= deqPos
  BY DEF IInv, ClaimReady
<1>6. pc'[c] = "cas" /\ pos[c] = deqPos => sequence[Cell(pos[c])] = pos[c] + 1
  <2> SUFFICES ASSUME pc'[c] = "cas", pos[c] = deqPos
               PROVE  sequence[Cell(deqPos)] = deqPos + 1
    OBVIOUS
  <2>1. sequence[Cell(deqPos)] >= deqPos + 1 /\ sequence[Cell(deqPos)] \in Nat
    BY <1>3, <1>4, ThreadTypes DEF IInv
  <2>2. deqPos \in Window
    BY CounterTypes, CellFacts DEF Window
  <2>3. /\ deqPos < enqPos => sequence[Cell(deqPos)] \in {deqPos, deqPos + 1}
        /\ deqPos >= enqPos => sequence[Cell(deqPos)] \in {deqPos, deqPos + 1 - BufferSize}
    BY <2>2 DEF IInv, CellStages
  <2> QED
    BY <2>1, <2>3, CounterTypes, CellFacts
<1>7. UNCHANGED <<sequence, data, enqPos, deqPos, pos, item, sent>>
  BY DEF DequeueLoadSequence, LoadSequence
<1> QED
  BY <1>1, <1>3, <1>5, <1>6, <1>7, LocalStep, ThreadAssumption

\* A call and a second look at the counter only fetch a position that is not
\* ahead of the counter.
LEMMA EnqueueFetchStep ==
  ASSUME IInv, NEW p \in Producers,
         EnqueueReread(p) \/ \E m \in Item : EnqueueCall(p, m)
  PROVE  IInv'
<1> p \in Thread
  BY DEF Thread
<1>1. PICK n \in CounterLoads(enqPos) : pos' = [pos EXCEPT ![p] = n]
  BY DEF EnqueueReread, Reread, EnqueueCall
<1>2. n \in Nat /\ n <= enqPos
  BY LoadsAreNotAhead DEF IInv
<1>3. UNCHANGED <<sequence, data, enqPos, deqPos, sent>> /\ pc' = [pc EXCEPT ![p] = "load"]
  BY DEF EnqueueReread, Reread, EnqueueCall, Goto
<1>4. /\ item'[p] \in Item
      /\ item' \in [Thread -> Item \cup {NoItem}]
      /\ \A u \in Thread \ {p} : item'[u] = item[u]
  <2>1. CASE EnqueueReread(p)
    BY <2>1 DEF EnqueueReread, Reread, IInv, TypeOK, ItemPlaces
  <2>2. CASE \E m \in Item : EnqueueCall(p, m)
    BY <2>2 DEF EnqueueCall, IInv, TypeOK
  <2> QED
    BY <2>1, <2>2
<1>5. TypeOK'
  BY <1>1, <1>2, <1>3, <1>4 DEF IInv, TypeOK
<1>6. /\ pc'[p] = "load" /\ pos'[p] = n
      /\ \A u \in Thread \ {p} : pc'[u] = pc[u] /\ pos'[u] = pos[u]
  BY <1>1, <1>3 DEF IInv, TypeOK
<1> QED
  BY <1>2, <1>3, <1>4, <1>5, <1>6, LocalStep, ThreadAssumption

\* A consumer that reads the position has no ticket yet.
LEMMA DequeueFetchStep ==
  ASSUME IInv, NEW c \in Consumers, DequeueReread(c) \/ DequeueCall(c)
  PROVE  IInv'
<1> c \in Thread
  BY DEF Thread
<1>1. PICK n \in CounterLoads(deqPos) : pos' = [pos EXCEPT ![c] = n]
  BY DEF DequeueReread, Reread, DequeueCall
<1>2. n \in Nat /\ n <= deqPos
  BY LoadsAreNotAhead DEF IInv
<1>3. UNCHANGED <<sequence, data, enqPos, deqPos, sent>> /\ pc' = [pc EXCEPT ![c] = "load"]
  BY DEF DequeueReread, Reread, DequeueCall, Goto
<1>4. /\ item' \in [Thread -> Item \cup {NoItem}]
      /\ \A u \in Thread \ {c} : item'[u] = item[u]
  BY DEF DequeueReread, Reread, DequeueCall, IInv, TypeOK
<1>5. TypeOK'
  BY <1>1, <1>2, <1>3, <1>4 DEF IInv, TypeOK
<1>6. /\ pc'[c] = "load" /\ pos'[c] = n
      /\ \A u \in Thread \ {c} : pc'[u] = pc[u] /\ pos'[u] = pos[u]
  BY <1>1, <1>3 DEF IInv, TypeOK
<1> QED
  BY <1>2, <1>3, <1>4, <1>5, <1>6, LocalStep, ThreadAssumption

-----------------------------------------------------------------------------
(* enqueue from the claim on                                               *)

\* A successful compare-and-swap takes a free cell that nobody else owns.
LEMMA EnqueueClaimStep ==
  ASSUME IInv, NEW p \in Producers, EnqueueClaim(p)
  PROVE  IInv'
<1> p \in Thread /\ p \notin Consumers
  BY ThreadAssumption DEF Thread
<1>1. /\ pc[p] = "cas" /\ pos[p] = enqPos
      /\ enqPos' = enqPos + 1
      /\ sent' = Append(sent, item[p])
      /\ pc' = [pc EXCEPT ![p] = "move"]
      /\ UNCHANGED <<sequence, data, deqPos, pos, item>>
  BY DEF EnqueueClaim, Goto
<1>2. enqPos \in Nat /\ deqPos \in Nat /\ deqPos <= enqPos
  BY CounterTypes
<1>3. sequence[Cell(enqPos)] = enqPos /\ enqPos < deqPos + BufferSize
  BY <1>1, <1>2, CounterCells DEF IInv, ClaimReady
<1>4. item[p] \in Item /\ sent \in Seq(Item) /\ Len(sent) = enqPos
  BY <1>1 DEF IInv, TypeOK, ItemPlaces, CellStages
<1>5. /\ sent' \in Seq(Item) /\ Len(sent') = enqPos + 1
      /\ sent'[enqPos + 1] = item[p]
      /\ \A j \in Int : 0 <= j /\ j < enqPos => sent'[j + 1] = sent[j + 1]
  BY <1>1, <1>2, <1>4
<1>6. TypeOK'
  BY <1>1, <1>2, <1>5 DEF IInv, TypeOK
<1>7. /\ pc'[p] = "move"
      /\ \A u \in Thread \ {p} : pc'[u] = pc[u] /\ (Owns(u)' <=> Owns(u))
      /\ ~Owns(p)
  BY <1>1 DEF IInv, TypeOK, Owns
<1>8. CellStages'
  <2>1. Window' = Window
    BY <1>1 DEF Window
  <2>2. ASSUME NEW j \in Window
        PROVE  /\ j < enqPos + 1 => sequence[Cell(j)] \in {j, j + 1}
               /\ j >= enqPos + 1 => sequence[Cell(j)] \in {j, j + 1 - BufferSize}
    BY <1>2, <1>3 DEF IInv, CellStages, Window
  <2>3. enqPos' \in deqPos'..(deqPos' + BufferSize) /\ Len(sent') = enqPos'
    <3>1. BufferSize \in Nat
      BY SizeAssumption
    <3>2. enqPos' = enqPos + 1 /\ deqPos' = deqPos
      BY <1>1
    <3>3. enqPos < deqPos + BufferSize
      BY <1>3
    <3> QED
      BY <1>2, <1>5, <3>1, <3>2, <3>3
  <2>4. enqPos' = enqPos + 1 /\ sequence' = sequence
    BY <1>1
  <2> QED
    BY <2>1, <2>2, <2>3, <2>4 DEF CellStages, Cell
<1>9. ClaimReady'
  BY <1>1, <1>2, <1>7 DEF IInv, ClaimReady, TypeOK, Thread
<1>10. Ownership'
  <2>1. ASSUME NEW q \in Producers, Owns(q)'
        PROVE  (pos[q] \in deqPos..(enqPos - 1) /\ sequence[Cell(pos[q])] = pos[q])'
    <3>1. CASE q = p
      BY <1>1, <1>2, <1>3, <3>1
    <3>2. CASE q # p
      BY <1>1, <1>2, <1>7, <2>1, <3>2 DEF IInv, Ownership, Thread
    <3> QED
      BY <3>1, <3>2
  <2>2. ASSUME NEW c \in Consumers, Owns(c)'
        PROVE  (/\ pos[c] \in (enqPos - BufferSize)..(deqPos - 1)
                /\ sequence[Cell(pos[c])] = pos[c] + 1)'
    <3>1. /\ pos[c] \in (enqPos - BufferSize)..(deqPos - 1)
          /\ sequence[Cell(pos[c])] = pos[c] + 1
      BY <1>7, <2>2 DEF IInv, Ownership, Thread
    <3>2. pos[c] # enqPos - BufferSize
      <4> SUFFICES ASSUME pos[c] = enqPos - BufferSize PROVE FALSE
        OBVIOUS
      <4>1. pos[c] \in Int /\ enqPos = pos[c] + BufferSize
        BY <1>2, <3>1, CellFacts
      <4>2. Cell(enqPos) = Cell(pos[c])
        BY <4>1, CellFacts
      <4> QED
        BY <1>3, <3>1, <4>1, <4>2, CellFacts
    <3>3. pos[c] \in (enqPos + 1 - BufferSize)..(deqPos - 1)
      BY <1>2, <3>1, <3>2, CellFacts
    <3>4. enqPos' = enqPos + 1 /\ UNCHANGED <<deqPos, pos, sequence>>
      BY <1>1
    <3>5. pos'[c] \in (enqPos' - BufferSize)..(deqPos' - 1)
      BY <1>2, <3>3, <3>4, CellFacts
    <3>6. sequence'[Cell(pos'[c])] = pos'[c] + 1
      BY <3>1, <3>4
    <3> QED
      BY <3>5, <3>6
  <2>3. ASSUME NEW u \in Thread, NEW v \in Thread, u # v, Owns(u)', Owns(v)'
        PROVE  pos'[u] # pos'[v]
    <3>1. \A w \in Thread \ {p} : Owns(w) => pos[w] < enqPos
      BY OwnedRange
    <3> QED
      BY <1>1, <1>2, <1>7, <2>3, <3>1 DEF IInv, Ownership
  <2> QED
    BY <2>1, <2>2, <2>3 DEF Ownership
<1>11. ItemPlaces'
  <2>1. ASSUME NEW j \in deqPos..enqPos, sequence[Cell(j)] = j + 1
        PROVE  data[Cell(j)] = sent'[j + 1]
    <3>1. j # enqPos
      BY <1>2, <1>3, <2>1
    <3> QED
      BY <1>2, <1>5, <2>1, <3>1 DEF IInv, ItemPlaces
  <2>2. ASSUME NEW q \in Producers
        PROVE  (/\ pc[q] = "move" => item[q] = sent[pos[q] + 1]
                /\ pc[q] = "store" => data[Cell(pos[q])] = sent[pos[q] + 1]
                /\ pc[q] \in {"load", "cas", "reload"} => item[q] \in Item)'
    <3>1. CASE q = p
      BY <1>1, <1>5, <1>7, <3>1
    <3>2. CASE q # p
      <4>1. Owns(q) => pos[q] \in Int /\ 0 <= pos[q] /\ pos[q] < enqPos
        BY <1>2 DEF IInv, Ownership
      <4> QED
        BY <1>1, <1>5, <1>7, <3>2, <4>1 DEF IInv, ItemPlaces, Owns, Thread
    <3> QED
      BY <3>1, <3>2
  <2>3. ASSUME NEW c \in Consumers
        PROVE  (pc[c] = "move" => data[Cell(pos[c])] = sent[pos[c] + 1])'
    <3>1. Owns(c) => pos[c] \in Int /\ 0 <= pos[c] /\ pos[c] < enqPos
      BY OwnedRange, ThreadTypes DEF Thread, IInv
    <3> QED
      BY <1>1, <1>5, <1>7, <3>1 DEF IInv, ItemPlaces, Owns, Thread
  <2>4. deqPos' = deqPos /\ enqPos' - 1 = enqPos /\ UNCHANGED <<sequence, data>>
    BY <1>1, <1>2
  <2> QED
    BY <2>1, <2>2, <2>3, <2>4 DEF ItemPlaces
<1>12. Delivery'
  <2> SUFFICES ASSUME NEW c \in Consumers, pc'[c] \in {"store", "true"}
               PROVE  (pos[c] \in 0..(enqPos - 1) /\ item[c] = sent[pos[c] + 1])'
    BY DEF Delivery
  <2>1. pos[c] \in 0..(enqPos - 1) /\ item[c] = sent[pos[c] + 1]
    BY <1>7 DEF IInv, Delivery, Thread
  <2> QED
    BY <1>1, <1>2, <1>5, <2>1
<1> QED
  BY <1>6, <1>8, <1>9, <1>10, <1>11, <1>12 DEF IInv

\* Moving the item in disturbs no other position's item.
LEMMA EnqueueMoveStep ==
  ASSUME IInv, NEW p \in Producers, EnqueueMove(p)
  PROVE  IInv'
<1> p \in Thread /\ p \notin Consumers
  BY ThreadAssumption DEF Thread
<1>1. /\ pc[p] = "move" /\ Owns(p)
      /\ data' = [data EXCEPT ![Cell(pos[p])] = item[p]]
      /\ item' = [item EXCEPT ![p] = NoItem]
      /\ pc' = [pc EXCEPT ![p] = "store"]
      /\ UNCHANGED <<sequence, enqPos, deqPos, pos, sent>>
  BY DEF EnqueueMove, Goto, Owns
<1>2. /\ enqPos \in Nat /\ deqPos \in Nat /\ deqPos <= enqPos /\ enqPos <= deqPos + BufferSize
      /\ Cell(pos[p]) \in Cells
  BY CounterTypes, ThreadTypes DEF IInv
<1>3. TypeOK'
  BY <1>1, <1>2 DEF IInv, TypeOK
<1>4. /\ pc'[p] = "store"
      /\ data'[Cell(pos[p])] = item[p]
      /\ \A u \in Thread \ {p} : pc'[u] = pc[u] /\ item'[u] = item[u]
      /\ \A u \in Thread : Owns(u)' <=> Owns(u)
  BY <1>1, <1>2 DEF IInv, TypeOK, Owns
<1>5. \A u \in Thread \ {p} : Owns(u) => data'[Cell(pos[u])] = data[Cell(pos[u])]
  BY <1>1, OwnersApart, ThreadTypes DEF NoDataRace, IInv, TypeOK
<1>6. CellStages' /\ ClaimReady'
  BY <1>1, <1>4 DEF IInv, CellStages, ClaimReady, Window, Thread
<1>7. Ownership'
  BY <1>1, <1>4 DEF IInv, Ownership, Thread
<1>8. ItemPlaces'
  <2>1. ASSUME NEW j \in deqPos..(enqPos - 1), sequence[Cell(j)] = j + 1
        PROVE  data'[Cell(j)] = sent[j + 1]
    <3>1. j # pos[p]
      BY <1>1, <2>1 DEF IInv, Ownership
    <3>2. Cell(j) # Cell(pos[p]) /\ Cell(j) \in Cells
      BY <1>1, <1>2, <3>1, OwnedCellElsewhere, CellFacts
    <3> QED
      BY <1>1, <2>1, <3>2 DEF IInv, ItemPlaces, TypeOK
  <2>2. ASSUME NEW q \in Producers
        PROVE  (/\ pc[q] = "move" => item[q] = sent[pos[q] + 1]
                /\ pc[q] = "store" => data[Cell(pos[q])] = sent[pos[q] + 1]
                /\ pc[q] \in {"load", "cas", "reload"} => item[q] \in Item)'
    <3>1. CASE q = p
      BY <1>1, <1>4, <3>1 DEF IInv, ItemPlaces
    <3>2. CASE q # p
      BY <1>1, <1>4, <1>5, <3>2 DEF IInv, ItemPlaces, Owns, Thread
    <3> QED
      BY <3>1, <3>2
  <2>3. ASSUME NEW c \in Consumers
        PROVE  (pc[c] = "move" => data[Cell(pos[c])] = sent[pos[c] + 1])'
    BY <1>1, <1>4, <1>5 DEF IInv, ItemPlaces, Owns, Thread
  <2> QED
    BY <1>1, <2>1, <2>2, <2>3 DEF ItemPlaces
<1>9. Delivery'
  BY <1>1, <1>4 DEF IInv, Delivery, Thread
<1> QED
  BY <1>3, <1>6, <1>7, <1>8, <1>9 DEF IInv

\* Storing pos + 1 publishes the item and moves no other cell.
LEMMA EnqueueStoreStep ==
  ASSUME IInv, NEW p \in Producers, EnqueueStore(p)
  PROVE  IInv'
<1> p \in Thread /\ p \notin Consumers
  BY ThreadAssumption DEF Thread
<1>1. /\ pc[p] = "store" /\ Owns(p)
      /\ sequence' = [sequence EXCEPT ![Cell(pos[p])] = pos[p] + 1]
      /\ pc' = [pc EXCEPT ![p] = "true"]
      /\ UNCHANGED <<data, enqPos, deqPos, pos, item, sent>>
  BY DEF EnqueueStore, Goto, Owns
<1>2. /\ enqPos \in Nat /\ deqPos \in Nat /\ deqPos <= enqPos /\ enqPos <= deqPos + BufferSize
      /\ pos[p] \in Nat /\ Cell(pos[p]) \in Cells
      /\ deqPos <= pos[p] /\ pos[p] < enqPos /\ sequence[Cell(pos[p])] = pos[p]
  BY <1>1, CounterTypes, ThreadTypes DEF IInv, Ownership
<1>3. TypeOK'
  BY <1>1, <1>2 DEF IInv, TypeOK
<1>4. /\ pc'[p] = "true" /\ ~Owns(p)'
      /\ \A u \in Thread \ {p} : pc'[u] = pc[u] /\ (Owns(u)' <=> Owns(u))
  BY <1>1, <1>2 DEF IInv, TypeOK, Owns
<1>5. /\ sequence'[Cell(pos[p])] = pos[p] + 1
      /\ \A i \in Cells : i # Cell(pos[p]) => sequence'[i] = sequence[i]
  BY <1>1, <1>2 DEF IInv, TypeOK
<1>6. \A u \in Thread \ {p} : Owns(u) => sequence'[Cell(pos[u])] = sequence[Cell(pos[u])]
  BY <1>1, <1>5, OwnersApart, ThreadTypes DEF NoDataRace, IInv
<1>7. CellStages'
  <2>1. ASSUME NEW j \in Window
        PROVE  /\ j < enqPos => sequence'[Cell(j)] \in {j, j + 1}
               /\ j >= enqPos => sequence'[Cell(j)] \in {j, j + 1 - BufferSize}
    <3>1. CASE j = pos[p]
      BY <1>2, <1>5, <3>1
    <3>2. CASE j # pos[p]
      <4>1. Cell(j) # Cell(pos[p]) /\ Cell(j) \in Cells
        BY <1>2, <3>2, CellFacts DEF Window
      <4> QED
        BY <1>5, <4>1 DEF IInv, CellStages
    <3> QED
      BY <3>1, <3>2
  <2> QED
    BY <1>1, <2>1 DEF IInv, CellStages, Window
<1>8. ClaimReady'
  <2>1. ASSUME NEW q \in Producers, pc'[q] = "cas", pos[q] = enqPos
        PROVE  sequence'[Cell(enqPos)] = enqPos
    <3>1. sequence[Cell(enqPos)] = enqPos
      BY <1>4, <2>1 DEF IInv, ClaimReady, Thread
    <3>2. Cell(enqPos) # Cell(pos[p])
      BY <1>2, <3>1
    <3> QED
      BY <1>2, <1>5, <3>1, <3>2, CellFacts
  <2>2. ASSUME NEW c \in Consumers, pc'[c] = "cas", pos[c] = deqPos
        PROVE  sequence'[Cell(deqPos)] = deqPos + 1
    <3>1. sequence[Cell(deqPos)] = deqPos + 1
      BY <1>4, <2>2 DEF IInv, ClaimReady, Thread
    <3>2. Cell(deqPos) # Cell(pos[p])
      <4>1. Cell(deqPos) # Cell(deqPos + 1)
        BY <1>2, CellFacts
      <4> QED
        BY <1>2, <3>1, <4>1
    <3> QED
      BY <1>2, <1>5, <3>1, <3>2, CellFacts
  <2> QED
    BY <1>1, <2>1, <2>2 DEF IInv, ClaimReady
<1>9. Ownership'
  BY <1>1, <1>4, <1>6 DEF IInv, Ownership, Thread
<1>10. ItemPlaces'
  <2>1. ASSUME NEW j \in deqPos..(enqPos - 1), sequence'[Cell(j)] = j + 1
        PROVE  data[Cell(j)] = sent[j + 1]
    <3>1. CASE j = pos[p]
      BY <1>1, <3>1 DEF IInv, ItemPlaces
    <3>2. CASE j # pos[p]
      <4>1. Cell(j) # Cell(pos[p]) /\ Cell(j) \in Cells
        BY <1>1, <1>2, <3>2, OwnedCellElsewhere, CellFacts
      <4> QED
        BY <1>5, <2>1, <4>1 DEF IInv, ItemPlaces
    <3> QED
      BY <3>1, <3>2
  <2> QED
    BY <1>1, <1>4, <2>1 DEF IInv, ItemPlaces, Thread
<1>11. Delivery'
  BY <1>1, <1>4 DEF IInv, Delivery, Thread
<1> QED
  BY <1>3, <1>7, <1>8, <1>9, <1>10, <1>11 DEF IInv

-----------------------------------------------------------------------------
(* dequeue from the claim on                                               *)

\* A successful compare-and-swap takes a published item that nobody else owns.
LEMMA DequeueClaimStep ==
  ASSUME IInv, NEW c \in Consumers, DequeueClaim(c)
  PROVE  IInv'
<1> c \in Thread /\ c \notin Producers
  BY ThreadAssumption DEF Thread
<1>1. /\ pc[c] = "cas" /\ pos[c] = deqPos
      /\ deqPos' = deqPos + 1
      /\ pc' = [pc EXCEPT ![c] = "move"]
      /\ UNCHANGED <<sequence, data, enqPos, pos, item, sent>>
  BY DEF DequeueClaim, Goto
<1>2. enqPos \in Nat /\ deqPos \in Nat /\ deqPos <= enqPos /\ enqPos <= deqPos + BufferSize
  BY CounterTypes
<1>3. sequence[Cell(deqPos)] = deqPos + 1 /\ deqPos < enqPos
  BY <1>1, CounterCells DEF IInv, ClaimReady
<1>4. TypeOK'
  BY <1>1, <1>2 DEF IInv, TypeOK
<1>5. /\ pc'[c] = "move" /\ ~Owns(c)
      /\ \A u \in Thread \ {c} : pc'[u] = pc[u] /\ (Owns(u)' <=> Owns(u))
  BY <1>1 DEF IInv, TypeOK, Owns
<1>6. CellStages'
  <2>1. ASSUME NEW j \in (deqPos + 1)..(deqPos + BufferSize)
        PROVE  /\ j < enqPos => sequence[Cell(j)] \in {j, j + 1}
               /\ j >= enqPos => sequence[Cell(j)] \in {j, j + 1 - BufferSize}
    <3>1. CASE j = deqPos + BufferSize
      <4>1. Cell(j) = Cell(deqPos)
        BY <1>2, <3>1, CellFacts
      <4> QED
        BY <1>2, <1>3, <3>1, <4>1, CellFacts
    <3>2. CASE j # deqPos + BufferSize
      <4>1. j \in Window
        BY <1>2, <3>2, CellFacts DEF Window
      <4> QED
        BY <4>1 DEF IInv, CellStages
    <3> QED
      BY <3>1, <3>2
  <2>2. Window' = (deqPos + 1)..(deqPos + BufferSize)
    BY <1>1, <1>2, CellFacts DEF Window
  <2>3. enqPos' \in (deqPos..(deqPos + BufferSize))'
    BY <1>1, <1>2, <1>3, CellFacts
  <2> QED
    BY <1>1, <2>1, <2>2, <2>3 DEF IInv, CellStages
<1>7. ClaimReady'
  BY <1>1, <1>2, <1>5 DEF IInv, ClaimReady, TypeOK, Thread
<1>8. Ownership'
  <2>1. ASSUME NEW q \in Producers, Owns(q)'
        PROVE  (pos[q] \in deqPos..(enqPos - 1) /\ sequence[Cell(pos[q])] = pos[q])'
    <3>1. pos[q] \in deqPos..(enqPos - 1) /\ sequence[Cell(pos[q])] = pos[q]
      BY <1>5, <2>1 DEF IInv, Ownership, Thread
    <3>2. pos[q] # deqPos
      BY <1>2, <1>3, <3>1
    <3> QED
      BY <1>1, <1>2, <3>1, <3>2
  <2>2. ASSUME NEW d \in Consumers, Owns(d)'
        PROVE  (/\ pos[d] \in (enqPos - BufferSize)..(deqPos - 1)
                /\ sequence[Cell(pos[d])] = pos[d] + 1)'
    <3>1. /\ (enqPos - BufferSize)' = enqPos - BufferSize
          /\ (deqPos - 1)' = deqPos /\ UNCHANGED <<pos, sequence>>
      BY <1>1, <1>2
    <3>2. CASE d = c
      <4>1. pos[c] \in (enqPos - BufferSize)..deqPos
        BY <1>1, <1>2, CellFacts
      <4> QED
        BY <1>1, <1>3, <3>1, <3>2, <4>1
    <3>3. CASE d # c
      <4>1. /\ pos[d] \in (enqPos - BufferSize)..(deqPos - 1)
            /\ sequence[Cell(pos[d])] = pos[d] + 1
        BY <1>5, <2>2, <3>3 DEF IInv, Ownership, Thread
      <4>2. pos[d] \in (enqPos - BufferSize)..deqPos
        BY <1>2, <4>1, CellFacts
      <4> QED
        BY <3>1, <4>1, <4>2
    <3> QED
      BY <3>2, <3>3
  <2>3. ASSUME NEW u \in Thread \ {c}, Owns(u) PROVE pos[u] # deqPos
    <3>1. CASE u \in Producers
      BY <1>2, <1>3, <2>3, <3>1 DEF IInv, Ownership
    <3>2. CASE u \in Consumers
      BY <1>2, <2>3, <3>2, CellFacts DEF IInv, Ownership
    <3> QED
      BY <3>1, <3>2 DEF Thread
  <2>4. ASSUME NEW u \in Thread, NEW v \in Thread, u # v, Owns(u)', Owns(v)'
        PROVE  pos'[u] # pos'[v]
    BY <1>1, <1>5, <2>3, <2>4 DEF IInv, Ownership
  <2> QED
    BY <2>1, <2>2, <2>4 DEF Ownership
<1>9. ItemPlaces'
  <2>1. ASSUME NEW j \in (deqPos + 1)..(enqPos - 1), sequence[Cell(j)] = j + 1
        PROVE  data[Cell(j)] = sent[j + 1]
    <3>1. j \in deqPos..(enqPos - 1)
      BY <1>2
    <3> QED
      BY <2>1, <3>1 DEF IInv, ItemPlaces
  <2>2. ASSUME NEW d \in Consumers
        PROVE  (pc[d] = "move" => data[Cell(pos[d])] = sent[pos[d] + 1])'
    <3>1. CASE d = c
      <4>1. deqPos \in deqPos..(enqPos - 1)
        BY <1>2, <1>3
      <4>2. data[Cell(deqPos)] = sent[deqPos + 1]
        BY <1>3, <4>1 DEF IInv, ItemPlaces
      <4> QED
        BY <1>1, <3>1, <4>2
    <3>2. CASE d # c
      BY <1>1, <1>5, <3>2 DEF IInv, ItemPlaces, Thread
    <3> QED
      BY <3>1, <3>2
  <2>3. ASSUME NEW q \in Producers
        PROVE  (/\ pc[q] = "move" => item[q] = sent[pos[q] + 1]
                /\ pc[q] = "store" => data[Cell(pos[q])] = sent[pos[q] + 1]
                /\ pc[q] \in {"load", "cas", "reload"} => item[q] \in Item)'
    BY <1>1, <1>5 DEF IInv, ItemPlaces, Thread
  <2> QED
    BY <1>1, <2>1, <2>2, <2>3 DEF ItemPlaces
<1>10. Delivery'
  BY <1>1, <1>5 DEF IInv, Delivery, Thread
<1> QED
  BY <1>4, <1>6, <1>7, <1>8, <1>9, <1>10 DEF IInv

\* Moving the item out hands over the item of the claimed position and disturbs
\* no other position's item.
LEMMA DequeueMoveStep ==
  ASSUME IInv, NEW c \in Consumers, DequeueMove(c)
  PROVE  IInv'
<1> c \in Thread /\ c \notin Producers
  BY ThreadAssumption DEF Thread
<1>1. /\ pc[c] = "move" /\ Owns(c)
      /\ item' = [item EXCEPT ![c] = data[Cell(pos[c])]]
      /\ data' = [data EXCEPT ![Cell(pos[c])] = NoItem]
      /\ pc' = [pc EXCEPT ![c] = "store"]
      /\ UNCHANGED <<sequence, enqPos, deqPos, pos, sent>>
  BY DEF DequeueMove, Goto, Owns
<1>2. /\ enqPos \in Nat /\ deqPos \in Nat /\ deqPos <= enqPos /\ enqPos <= deqPos + BufferSize
      /\ pos[c] \in Nat /\ Cell(pos[c]) \in Cells
      /\ pos[c] < deqPos
  BY <1>1, CounterTypes, ThreadTypes DEF IInv, Ownership
<1>3. TypeOK'
  BY <1>1, <1>2 DEF IInv, TypeOK
<1>4. /\ pc'[c] = "store" /\ item'[c] = data[Cell(pos[c])]
      /\ \A u \in Thread \ {c} : pc'[u] = pc[u] /\ item'[u] = item[u]
      /\ \A u \in Thread : Owns(u)' <=> Owns(u)
  BY <1>1, <1>2 DEF IInv, TypeOK, Owns
<1>5. \A u \in Thread \ {c} : Owns(u) => data'[Cell(pos[u])] = data[Cell(pos[u])]
  BY <1>1, OwnersApart, ThreadTypes DEF NoDataRace, IInv, TypeOK
<1>6. CellStages' /\ ClaimReady'
  BY <1>1, <1>4 DEF IInv, CellStages, ClaimReady, Window, Thread
<1>7. Ownership'
  BY <1>1, <1>4 DEF IInv, Ownership, Thread
<1>8. ItemPlaces'
  <2>1. ASSUME NEW j \in deqPos..(enqPos - 1), sequence[Cell(j)] = j + 1
        PROVE  data'[Cell(j)] = sent[j + 1]
    <3>1. Cell(j) # Cell(pos[c]) /\ Cell(j) \in Cells
      BY <1>1, <1>2, OwnedCellElsewhere, CellFacts
    <3> QED
      BY <1>1, <2>1, <3>1 DEF IInv, ItemPlaces, TypeOK
  <2>2. ASSUME NEW q \in Producers
        PROVE  (/\ pc[q] = "move" => item[q] = sent[pos[q] + 1]
                /\ pc[q] = "store" => data[Cell(pos[q])] = sent[pos[q] + 1]
                /\ pc[q] \in {"load", "cas", "reload"} => item[q] \in Item)'
    BY <1>1, <1>4, <1>5 DEF IInv, ItemPlaces, Owns, Thread
  <2>3. ASSUME NEW d \in Consumers
        PROVE  (pc[d] = "move" => data[Cell(pos[d])] = sent[pos[d] + 1])'
    BY <1>1, <1>4, <1>5 DEF IInv, ItemPlaces, Owns, Thread
  <2> QED
    BY <1>1, <2>1, <2>2, <2>3 DEF ItemPlaces
<1>9. Delivery'
  <2>1. ASSUME NEW d \in Consumers, pc'[d] \in {"store", "true"}
        PROVE  (pos[d] \in 0..(enqPos - 1) /\ item[d] = sent[pos[d] + 1])'
    <3>1. CASE d = c
      BY <1>1, <1>2, <1>4, <3>1 DEF IInv, ItemPlaces
    <3>2. CASE d # c
      BY <1>1, <1>4, <2>1, <3>2 DEF IInv, Delivery, Thread
    <3> QED
      BY <3>1, <3>2
  <2> QED
    BY <2>1 DEF Delivery
<1> QED
  BY <1>3, <1>6, <1>7, <1>8, <1>9 DEF IInv

\* Storing pos + BufferSize frees the cell for the position one lap ahead.
LEMMA DequeueStoreStep ==
  ASSUME IInv, NEW c \in Consumers, DequeueStore(c)
  PROVE  IInv'
<1> c \in Thread /\ c \notin Producers
  BY ThreadAssumption DEF Thread
<1>1. /\ pc[c] = "store" /\ Owns(c)
      /\ sequence' = [sequence EXCEPT ![Cell(pos[c])] = pos[c] + BufferSize]
      /\ pc' = [pc EXCEPT ![c] = "true"]
      /\ UNCHANGED <<data, enqPos, deqPos, pos, item, sent>>
  BY DEF DequeueStore, Goto, Owns
<1>2. /\ enqPos \in Nat /\ deqPos \in Nat /\ deqPos <= enqPos /\ enqPos <= deqPos + BufferSize
      /\ pos[c] \in Nat /\ Cell(pos[c]) \in Cells
      /\ enqPos - BufferSize <= pos[c] /\ pos[c] < deqPos
      /\ sequence[Cell(pos[c])] = pos[c] + 1
  BY <1>1, CounterTypes, ThreadTypes, CellFacts DEF IInv, Ownership
<1>3. TypeOK'
  <2>1. pos[c] + BufferSize \in Nat
    BY <1>2, CellFacts
  <2> QED
    BY <1>1, <1>2, <2>1 DEF IInv, TypeOK
<1>4. /\ pc'[c] = "true" /\ ~Owns(c)'
      /\ \A u \in Thread \ {c} : pc'[u] = pc[u] /\ (Owns(u)' <=> Owns(u))
  BY <1>1, <1>2 DEF IInv, TypeOK, Owns
<1>5. /\ sequence'[Cell(pos[c])] = pos[c] + BufferSize
      /\ \A i \in Cells : i # Cell(pos[c]) => sequence'[i] = sequence[i]
  BY <1>1, <1>2 DEF IInv, TypeOK
<1>6. \A u \in Thread \ {c} : Owns(u) => sequence'[Cell(pos[u])] = sequence[Cell(pos[u])]
  BY <1>1, <1>5, OwnersApart, ThreadTypes DEF NoDataRace, IInv
<1>7. CellStages'
  <2>1. ASSUME NEW j \in Window
        PROVE  /\ j < enqPos => sequence'[Cell(j)] \in {j, j + 1}
               /\ j >= enqPos => sequence'[Cell(j)] \in {j, j + 1 - BufferSize}
    <3>1. CASE j = pos[c] + BufferSize
      BY <1>2, <1>5, <3>1, CellFacts
    <3>2. CASE j # pos[c] + BufferSize
      <4>1. Cell(j) # Cell(pos[c] + BufferSize)
        <5>1. j \in Int /\ pos[c] + BufferSize \in Int
          BY <1>2, CellFacts DEF Window
        <5>2. j < pos[c] + BufferSize => pos[c] + BufferSize < j + BufferSize
          BY <1>2, CellFacts DEF Window
        <5>3. j > pos[c] + BufferSize => j < pos[c] + BufferSize + BufferSize
          BY <1>2, CellFacts DEF Window
        <5> QED
          BY <3>2, <5>1, <5>2, <5>3, CellFacts
      <4>2. Cell(j) # Cell(pos[c]) /\ Cell(j) \in Cells
        BY <1>2, <4>1, CellFacts DEF Window
      <4> QED
        BY <1>5, <4>2 DEF IInv, CellStages
    <3> QED
      BY <3>1, <3>2
  <2> QED
    BY <1>1, <2>1 DEF IInv, CellStages, Window
<1>8. ClaimReady'
  <2>1. ASSUME NEW p \in Producers, pc'[p] = "cas", pos[p] = enqPos
        PROVE  sequence'[Cell(enqPos)] = enqPos
    <3>1. sequence[Cell(enqPos)] = enqPos
      BY <1>4, <2>1 DEF IInv, ClaimReady, Thread
    <3>2. Cell(enqPos) # Cell(pos[c])
      <4>1. Cell(pos[c]) # Cell(pos[c] + 1)
        BY <1>2, CellFacts
      <4> QED
        BY <1>2, <3>1, <4>1
    <3> QED
      BY <1>2, <1>5, <3>1, <3>2, CellFacts
  <2>2. ASSUME NEW d \in Consumers, pc'[d] = "cas", pos[d] = deqPos
        PROVE  sequence'[Cell(deqPos)] = deqPos + 1
    <3>1. sequence[Cell(deqPos)] = deqPos + 1
      BY <1>4, <2>2 DEF IInv, ClaimReady, Thread
    <3>2. Cell(deqPos) # Cell(pos[c])
      BY <1>2, <3>1
    <3> QED
      BY <1>2, <1>5, <3>1, <3>2, CellFacts
  <2> QED
    BY <1>1, <2>1, <2>2 DEF IInv, ClaimReady
<1>9. Ownership'
  BY <1>1, <1>4, <1>6 DEF IInv, Ownership, Thread
<1>10. ItemPlaces'
  <2>1. ASSUME NEW j \in deqPos..(enqPos - 1), sequence'[Cell(j)] = j + 1
        PROVE  data[Cell(j)] = sent[j + 1]
    <3>1. Cell(j) # Cell(pos[c]) /\ Cell(j) \in Cells
      BY <1>1, <1>2, OwnedCellElsewhere, CellFacts
    <3> QED
      BY <1>5, <2>1, <3>1 DEF IInv, ItemPlaces
  <2> QED
    BY <1>1, <1>4, <2>1 DEF IInv, ItemPlaces, Thread
<1>11. Delivery'
  BY <1>1, <1>4 DEF IInv, Delivery, Thread
<1> QED
  BY <1>3, <1>7, <1>8, <1>9, <1>10, <1>11 DEF IInv

-----------------------------------------------------------------------------
(* The signed difference                                                   *)

\* Some position of the window uses the cell of n.
LEMMA CellInWindow ==
  ASSUME IInv, NEW n \in Int
  PROVE  \E j \in Window : Cell(j) = Cell(n)
<1> DEFINE q == (n - deqPos) \div BufferSize
           r == (n - deqPos) % BufferSize
           a == n \div BufferSize
           s == n % BufferSize
<1>1. deqPos \in Nat /\ enqPos \in Nat
  BY DEF IInv, TypeOK
<1>2. /\ q \in Int /\ r \in 0..(BufferSize - 1)
      /\ n - deqPos = BufferSize * q + r
  BY <1>1, LapAndIndex
<1>3. /\ a \in Int /\ s \in 0..(BufferSize - 1)
      /\ n = BufferSize * a + s
  BY LapAndIndex
<1> HIDE DEF q, r, a, s
<1>4. deqPos + r = BufferSize * (a - q) + s
  <2>1. BufferSize * (a - q) = BufferSize * a - BufferSize * q
    BY <1>2, <1>3, SizeAssumption
  <2>2. BufferSize * a \in Int /\ BufferSize * q \in Int
    BY <1>2, <1>3, SizeAssumption
  <2> QED
    BY <1>1, <1>2, <1>3, <2>1, <2>2, SizeAssumption
<1>5. ASSUME NEW k \in Int PROVE (BufferSize * k + s) % BufferSize = s
  BY <1>3, SizeAssumption
<1>6. Cell(deqPos + r) = Cell(n)
  BY <1>2, <1>3, <1>4, <1>5 DEF Cell
<1>7. deqPos + r \in Window
  BY <1>1, <1>2, SizeAssumption DEF Window
<1> QED
  BY <1>6, <1>7

\* Between what bounds the sequence of a cell lies: no less than a lap behind the
\* position that looks at it, no more than a lap ahead of the counter.
LEMMA SequenceBounds ==
  ASSUME IInv, NEW t \in Thread
  PROVE  LET dif == sequence[Cell(pos[t])] - Expected(t)
         IN  -BufferSize <= dif /\ dif <= Counter(t) - pos[t] + BufferSize - 1
<1> DEFINE n == pos[t]
<1>1. /\ n \in Nat /\ deqPos \in Nat /\ enqPos \in Nat
      /\ deqPos <= enqPos /\ enqPos <= deqPos + BufferSize
      /\ sequence[Cell(n)] \in Nat
  BY CounterTypes, ThreadTypes DEF IInv
<1>2. PICK j \in Window : Cell(j) = Cell(n)
  BY <1>1, CellInWindow
<1>3. /\ j \in Int /\ deqPos <= j /\ j < deqPos + BufferSize
      /\ j < enqPos => sequence[Cell(n)] \in {j, j + 1}
      /\ j >= enqPos => sequence[Cell(n)] \in {j, j + 1 - BufferSize}
  BY <1>1, <1>2, CellFacts DEF IInv, CellStages, Window
<1>4. n <= deqPos + BufferSize /\ (n < deqPos + BufferSize => n <= j)
  <2>1. n <= deqPos + BufferSize
    <3>1. n <= enqPos \/ n <= deqPos
      BY DEF IInv, ClaimReady, Thread
    <3> QED
      BY <1>1, <3>1, CellFacts
  <2>2. ~(j < n /\ n < j + BufferSize)
    BY <1>1, <1>2, <1>3, CellFacts
  <2> QED
    BY <1>1, <1>3, <2>1, <2>2, CellFacts
<1>5. n = deqPos + BufferSize => j = deqPos
  <2>1. n = deqPos + BufferSize => Cell(n) = Cell(deqPos)
    BY <1>1, CellFacts
  <2> QED
    BY <1>1, <1>2, <1>3, <2>1, CellFacts
<1> HIDE DEF n
<1>6. CASE t \in Producers
  <2>1. n <= enqPos /\ Expected(t) = n /\ Counter(t) = enqPos
    BY <1>6 DEF IInv, ClaimReady, Expected, Counter, n
  <2> QED
    BY <1>1, <1>3, <1>4, <1>5, <2>1, CellFacts DEF n
<1>7. CASE t \in Consumers
  <2>1. n <= deqPos /\ Expected(t) = n + 1 /\ Counter(t) = deqPos
    BY <1>7, ThreadAssumption DEF IInv, ClaimReady, Expected, Counter, n
  <2> QED
    BY <1>1, <1>3, <1>4, <2>1, CellFacts DEF n
<1> QED
  BY <1>6, <1>7 DEF Thread

-----------------------------------------------------------------------------
(* The theorems                                                            *)

\* The invariant is inductive: every step of every thread preserves it.
LEMMA StepInvariant == IInv /\ [Next]_vars => IInv'
<1> SUFFICES ASSUME IInv, [Next]_vars PROVE IInv'
  OBVIOUS
<1>1. ASSUME NEW p \in Producers, EnqueueStep(p) \/ \E m \in Item : EnqueueCall(p, m)
      PROVE  IInv'
  BY <1>1, EnqueueLoadStep, EnqueueFetchStep, EnqueueClaimStep, EnqueueMoveStep,
     EnqueueStoreStep DEF EnqueueStep
<1>2. ASSUME NEW c \in Consumers, DequeueStep(c) \/ DequeueCall(c)
      PROVE  IInv'
  BY <1>2, DequeueLoadStep, DequeueFetchStep, DequeueClaimStep, DequeueMoveStep,
     DequeueStoreStep DEF DequeueStep
<1>3. CASE UNCHANGED vars
  BY <1>3 DEF vars, IInv, TypeOK, CellStages, Window, ClaimReady, Ownership, Owns,
     ItemPlaces, Delivery
<1> QED
  BY <1>1, <1>2, <1>3 DEF Next

\* The protocol of claims and sequences keeps its invariant in every behaviour,
\* for any number of threads and with loads that may return old values.
THEOREM QueueInvariant == Spec => []IInv
BY InitInvariant, StepInvariant, PTL DEF Spec

\* Variables keep their types.
THEOREM QueueTypes == Spec => []TypeOK
<1>1. IInv => TypeOK
  BY DEF IInv
<1> QED
  BY <1>1, QueueInvariant, PTL

\* The unsynchronised accesses of enqueue and dequeue to a cell's data_ never
\* overlap.
THEOREM QueueNoDataRace == Spec => []NoDataRace
BY OwnersApart, QueueInvariant, PTL

\* A dequeue returns the item its position was claimed for.
THEOREM QueueDelivery == Spec => []Delivery
<1>1. IInv => Delivery
  BY DEF IInv
<1> QED
  BY <1>1, QueueInvariant, PTL

\* An enqueue never laps a position that is still being drained.
THEOREM QueueWithinOneLap == Spec => []WithinOneLap
BY InvariantWithinOneLap, QueueInvariant, PTL

\* The sign of the difference of two words is that of the difference of the two
\* positions, for every range of size_t that is longer than the ring.
THEOREM QueueSignedDifference == Spec => []SignedDifference
<1>1. IInv => SignedDifference
  <2> SUFFICES ASSUME IInv, NEW t \in Thread,
                      Counter(t) - pos[t] <= HalfRange - BufferSize
               PROVE  sequence[Cell(pos[t])] - Expected(t)
                        \in (-HalfRange)..(HalfRange - 1)
    BY DEF SignedDifference
  <2>1. /\ sequence[Cell(pos[t])] \in Nat /\ pos[t] \in Nat
        /\ Expected(t) \in Nat /\ Counter(t) \in Nat
    BY ThreadTypes DEF IInv, Expected, Counter
  <2> QED
    BY <2>1, SequenceBounds, SizeAssumption, RangeAssumption
<1> QED
  BY <1>1, QueueInvariant, PTL

-----------------------------------------------------------------------------
(* No cell is abandoned                                                    *)

\* A cell that is claimed but not published has a producer at work on it, a cell
\* that is taken but not yet free a consumer: what makes an enqueue see a full
\* queue or a dequeue an empty one is always the present work of some thread.
Attended ==
  \A j \in Window :
    /\ j < enqPos /\ sequence[Cell(j)] = j =>
         \E p \in Producers : Owns(p) /\ pos[p] = j
    /\ j >= enqPos /\ sequence[Cell(j)] # j =>
         \E c \in Consumers : Owns(c) /\ pos[c] = j - BufferSize

\* All cells are free in the beginning.
LEMMA InitAttended == Init => Attended
<1> SUFFICES ASSUME Init, NEW j \in Window
             PROVE  ~(j < enqPos) /\ sequence[Cell(j)] = j
  BY DEF Attended
<1>1. sequence[Cell(j)] = j
  BY SizeAssumption, j % BufferSize = j DEF Init, Window, Cell, Cells
<1>2. ~(j < enqPos)
  BY CellFacts DEF Init, Window
<1> QED
  BY <1>1, <1>2

\* A step that changes no cell and no counter, and after which every owner still
\* owns its position, abandons nothing.
LEMMA LocalAttended ==
  ASSUME Attended, UNCHANGED <<sequence, enqPos, deqPos>>,
         \A u \in Thread : Owns(u) => Owns(u)' /\ pos'[u] = pos[u]
  PROVE  Attended'
BY DEF Attended, Window, Thread

\* Only the store of a thread gives its position up.
LEMMA EnqueueAttended ==
  ASSUME IInv, Attended, NEW p \in Producers,
         EnqueueStep(p) \/ \E m \in Item : EnqueueCall(p, m)
  PROVE  Attended'
<1> p \in Thread /\ pc \in [Thread -> {"idle", "load", "cas", "reload", "move", "store", "true", "false"}]
                 /\ pos \in [Thread -> Nat]
  BY DEF Thread, IInv, TypeOK
<1>1. CASE (\E m \in Item : EnqueueCall(p, m)) \/ EnqueueLoadSequence(p) \/ EnqueueReread(p)
  <2>1. UNCHANGED <<sequence, enqPos, deqPos>> /\ pc[p] \notin {"move", "store"}
    BY <1>1 DEF EnqueueCall, EnqueueLoadSequence, LoadSequence, EnqueueReread, Reread, Resting
  <2>2. \A u \in Thread \ {p} : pc'[u] = pc[u] /\ pos'[u] = pos[u]
    BY <1>1 DEF EnqueueCall, EnqueueLoadSequence, LoadSequence, EnqueueReread, Reread, Goto
  <2> QED
    BY <2>1, <2>2, LocalAttended DEF Owns
<1>2. CASE EnqueueMove(p)
  <2>1. UNCHANGED <<sequence, enqPos, deqPos, pos>> /\ pc' = [pc EXCEPT ![p] = "store"]
    BY <1>2 DEF EnqueueMove, Goto
  <2> QED
    BY <2>1, LocalAttended DEF Owns
<1>3. CASE EnqueueClaim(p)
  <2>1. /\ enqPos' = enqPos + 1 /\ pos[p] = enqPos /\ pc' = [pc EXCEPT ![p] = "move"]
        /\ UNCHANGED <<sequence, deqPos, pos>>
    BY <1>3 DEF EnqueueClaim, Goto
  <2>2. \A u \in Thread : Owns(u) => Owns(u)'
    BY <2>1 DEF Owns
  <2>3. Owns(p)' /\ enqPos \in Nat /\ Window \subseteq Int /\ Window' = Window
    BY <2>1, CellFacts DEF Owns, Window, IInv, TypeOK
  <2> SUFFICES ASSUME NEW j \in Window
               PROVE  /\ j < enqPos + 1 /\ sequence[Cell(j)] = j =>
                           \E q \in Producers : Owns(q)' /\ pos[q] = j
                      /\ j >= enqPos + 1 /\ sequence[Cell(j)] # j =>
                           \E c \in Consumers : Owns(c)' /\ pos[c] = j - BufferSize
    BY <2>1, <2>3 DEF Attended, Cell
  <2>4. CASE j = enqPos
    BY <2>1, <2>3, <2>4
  <2>5. CASE j # enqPos
    BY <2>2, <2>3, <2>5 DEF Attended, Thread
  <2> QED
    BY <2>4, <2>5
<1>4. CASE EnqueueStore(p)
  <2>1. /\ Owns(p) /\ pc' = [pc EXCEPT ![p] = "true"]
        /\ sequence' = [sequence EXCEPT ![Cell(pos[p])] = pos[p] + 1]
        /\ UNCHANGED <<enqPos, deqPos, pos>>
    BY <1>4 DEF EnqueueStore, Goto, Owns
  <2>2. \A u \in Thread \ {p} : Owns(u) => Owns(u)'
    BY <2>1 DEF Owns
  <2>3. /\ enqPos \in Nat /\ deqPos \in Nat /\ deqPos <= enqPos /\ enqPos <= deqPos + BufferSize
        /\ pos[p] \in Nat /\ deqPos <= pos[p] /\ pos[p] < enqPos
        /\ sequence \in [Cells -> Nat] /\ BufferSize \in Nat
    <3>1. pos[p] \in deqPos..(enqPos - 1)
      BY <2>1 DEF IInv, Ownership
    <3>2. BufferSize \in Nat /\ sequence \in [Cells -> Nat] /\ pos[p] \in Nat
      BY SizeAssumption DEF IInv, TypeOK
    <3> QED
      BY <3>1, <3>2, CounterTypes
  <2>4. ASSUME NEW j \in Window, j # pos[p] PROVE sequence'[Cell(j)] = sequence[Cell(j)]
    <3>1. j \in Int /\ deqPos <= j /\ j < deqPos + BufferSize
      BY <2>3 DEF Window
    <3>2. Cell(j) # Cell(pos[p])
      <4>1. j < pos[p] + BufferSize /\ pos[p] < j + BufferSize /\ (j < pos[p] \/ pos[p] < j)
        BY <2>3, <2>4, <3>1
      <4> QED
        BY <2>3, <3>1, <4>1, CellsWithinLap
    <3> QED
      BY <2>1, <2>3, <3>1, <3>2, CellFacts
  <2>5. sequence'[Cell(pos[p])] = pos[p] + 1
    BY <2>1, <2>3, CellFacts
  <2> SUFFICES ASSUME NEW j \in Window
               PROVE  /\ j < enqPos /\ sequence'[Cell(j)] = j =>
                           \E q \in Producers : Owns(q)' /\ pos[q] = j
                      /\ j >= enqPos /\ sequence'[Cell(j)] # j =>
                           \E c \in Consumers : Owns(c)' /\ pos[c] = j - BufferSize
    BY <2>1, <2>3 DEF Attended, Cell, Window
  <2>6. CASE j = pos[p]
    BY <2>3, <2>5, <2>6
  <2>7. CASE j # pos[p]
    <3>1. p \notin Consumers
      BY ThreadAssumption
    <3> QED
      BY <2>2, <2>4, <2>7, <3>1 DEF Attended, Thread
  <2> QED
    BY <2>6, <2>7
<1> QED
  BY <1>1, <1>2, <1>3, <1>4 DEF EnqueueStep

\* Every step of a consumer keeps the cells attended.
LEMMA DequeueAttended ==
  ASSUME IInv, Attended, NEW c \in Consumers, DequeueStep(c) \/ DequeueCall(c)
  PROVE  Attended'
<1> c \in Thread /\ pc \in [Thread -> {"idle", "load", "cas", "reload", "move", "store", "true", "false"}]
                 /\ pos \in [Thread -> Nat]
  BY DEF Thread, IInv, TypeOK
<1>1. CASE DequeueCall(c) \/ DequeueLoadSequence(c) \/ DequeueReread(c)
  <2>1. UNCHANGED <<sequence, enqPos, deqPos>> /\ pc[c] \notin {"move", "store"}
    BY <1>1 DEF DequeueCall, DequeueLoadSequence, LoadSequence, DequeueReread, Reread, Resting
  <2>2. \A u \in Thread \ {c} : pc'[u] = pc[u] /\ pos'[u] = pos[u]
    BY <1>1 DEF DequeueCall, DequeueLoadSequence, LoadSequence, DequeueReread, Reread, Goto
  <2> QED
    BY <2>1, <2>2, LocalAttended DEF Owns
<1>2. CASE DequeueMove(c)
  <2>1. UNCHANGED <<sequence, enqPos, deqPos, pos>> /\ pc' = [pc EXCEPT ![c] = "store"]
    BY <1>2 DEF DequeueMove, Goto
  <2> QED
    BY <2>1, LocalAttended DEF Owns
<1>3. CASE DequeueClaim(c)
  <2>1. /\ deqPos' = deqPos + 1 /\ pos[c] = deqPos /\ pc' = [pc EXCEPT ![c] = "move"]
        /\ pc[c] = "cas" /\ UNCHANGED <<sequence, enqPos, pos>>
    BY <1>3 DEF DequeueClaim, Goto
  <2>2. \A u \in Thread : Owns(u) => Owns(u)'
    BY <2>1 DEF Owns
  <2>3. /\ Owns(c)' /\ enqPos \in Nat /\ deqPos \in Nat /\ BufferSize \in Nat /\ BufferSize >= 2
        /\ sequence[Cell(deqPos)] = deqPos + 1
    BY <2>1, CellFacts DEF Owns, IInv, TypeOK, ClaimReady
  <2> SUFFICES ASSUME NEW j \in (deqPos + 1)..(deqPos + BufferSize)
               PROVE  /\ j < enqPos /\ sequence[Cell(j)] = j =>
                           \E q \in Producers : Owns(q)' /\ pos[q] = j
                      /\ j >= enqPos /\ sequence[Cell(j)] # j =>
                           \E d \in Consumers : Owns(d)' /\ pos[d] = j - BufferSize
    BY <2>1, <2>3 DEF Attended, Cell, Window
  <2>4. CASE j = deqPos + BufferSize
    <3>1. enqPos <= deqPos + BufferSize
      BY CounterTypes
    <3>2. pos[c] = j - BufferSize /\ ~(j < enqPos)
      BY <2>1, <2>3, <2>4, <3>1
    <3> QED
      BY <2>3, <3>2
  <2>5. CASE j # deqPos + BufferSize
    <3>1. j \in Window
      BY <2>3, <2>5 DEF Window
    <3> QED
      BY <2>2, <3>1 DEF Attended, Thread
  <2> QED
    BY <2>4, <2>5
<1>4. CASE DequeueStore(c)
  <2>1. /\ Owns(c) /\ pc' = [pc EXCEPT ![c] = "true"]
        /\ sequence' = [sequence EXCEPT ![Cell(pos[c])] = pos[c] + BufferSize]
        /\ UNCHANGED <<enqPos, deqPos, pos>>
    BY <1>4 DEF DequeueStore, Goto, Owns
  <2>2. \A u \in Thread \ {c} : Owns(u) => Owns(u)'
    BY <2>1 DEF Owns
  <2> DEFINE n == pos[c] + BufferSize
  <2>3. /\ enqPos \in Nat /\ deqPos \in Nat /\ deqPos <= enqPos /\ enqPos <= deqPos + BufferSize
        /\ pos[c] \in Nat /\ enqPos <= n /\ n < deqPos + BufferSize
        /\ sequence \in [Cells -> Nat] /\ BufferSize \in Nat
        /\ n \in Nat /\ Cell(n) = Cell(pos[c])
    <3>1. pos[c] \in (enqPos - BufferSize)..(deqPos - 1)
      BY <2>1 DEF IInv, Ownership
    <3>2. BufferSize \in Nat /\ sequence \in [Cells -> Nat] /\ pos[c] \in Nat
      BY SizeAssumption DEF IInv, TypeOK
    <3>3. Cell(pos[c] + BufferSize) = Cell(pos[c])
      BY <3>2, CellFacts
    <3> QED
      BY <3>1, <3>2, <3>3, CounterTypes
  <2>4. sequence' = [sequence EXCEPT ![Cell(n)] = n]
    BY <2>1, <2>3
  <2>5. n - BufferSize = pos[c]
    BY <2>3
  <2> HIDE DEF n
  <2>6. ASSUME NEW j \in Window, j # n PROVE sequence'[Cell(j)] = sequence[Cell(j)]
    <3>1. j \in Int /\ deqPos <= j /\ j < deqPos + BufferSize
      BY <2>3 DEF Window
    <3>2. Cell(j) # Cell(n)
      <4>1. j < n + BufferSize /\ n < j + BufferSize /\ (j < n \/ n < j)
        BY <2>3, <2>6, <3>1
      <4> QED
        BY <2>3, <3>1, <4>1, CellsWithinLap
    <3> QED
      BY <2>3, <2>4, <3>1, <3>2, CellFacts
  <2>7. sequence'[Cell(n)] = n
    BY <2>3, <2>4, CellFacts
  <2> SUFFICES ASSUME NEW j \in Window
               PROVE  /\ j < enqPos /\ sequence'[Cell(j)] = j =>
                           \E q \in Producers : Owns(q)' /\ pos[q] = j
                      /\ j >= enqPos /\ sequence'[Cell(j)] # j =>
                           \E d \in Consumers : Owns(d)' /\ pos[d] = j - BufferSize
    BY <2>1, <2>3 DEF Attended, Cell, Window
  <2>8. CASE j = n
    BY <2>3, <2>7, <2>8
  <2>9. CASE j # n
    <3>1. c \notin Producers /\ j \in Int
      BY <2>3, ThreadAssumption DEF Window
    <3>2. j - BufferSize # pos[c]
      BY <2>3, <2>5, <2>9, <3>1
    <3> QED
      BY <2>2, <2>6, <2>9, <3>1, <3>2 DEF Attended, Thread
  <2> QED
    BY <2>8, <2>9
<1> QED
  BY <1>1, <1>2, <1>3, <1>4 DEF DequeueStep

\* A full ring is full of work in progress: no cell is ever abandoned.
THEOREM QueueAttended == Spec => []Attended
<1>1. IInv /\ Attended /\ [Next]_vars => Attended'
  <2>1. IInv /\ Attended /\ Next => Attended'
    BY EnqueueAttended, DequeueAttended DEF Next
  <2>2. Attended /\ UNCHANGED vars => Attended'
    BY DEF Attended, vars, Window, Owns, Cell
  <2> QED
    BY <2>1, <2>2
<1> QED
  BY <1>1, InitAttended, QueueInvariant, PTL DEF Spec

-----------------------------------------------------------------------------
(* The refinement mapping                                                  *)

\* TicketFifo's variables in a state of the queue.
OpOf == [t \in Thread |-> AbstractOp(t)]
TicketOf == [t \in Thread |-> IF Owns(t) THEN pos[t] ELSE -1]
ItemOf == [t \in Thread |-> AbstractItem(t)]

\* Initially every thread rests, without a ticket and without an item.
LEMMA InitRefines == Init => Fifo!Init
BY DEF Init, Fifo!Init, AbstractOp, AbstractItem, Owns, Fifo!Thread, Thread, Fifo!NoTicket

\* The item an owner has or will have does not depend on what others do to the
\* buffer: it is that of its ticket.
LEMMA HeldItem ==
  ASSUME IInv, NEW t \in Thread, pc[t] = "move"
  PROVE  /\ pos[t] + 1 \in 1..Len(sent)
         /\ t \in Consumers => AbstractItem(t) = sent[pos[t] + 1]
<1>1. Owns(t) /\ pos[t] \in Nat /\ enqPos \in Nat /\ Len(sent) = enqPos
  BY DEF Owns, IInv, TypeOK, CellStages
<1>2. pos[t] < enqPos
  BY <1>1, OwnedRange
<1>3. t \in Consumers => AbstractItem(t) = sent[pos[t] + 1]
  BY ThreadAssumption DEF IInv, ItemPlaces, AbstractItem
<1> QED
  BY <1>1, <1>2, <1>3

\* A step that changes the variables of one thread, and of the shared ones none
\* that it does not own, changes TicketFifo's variables for that thread alone.
LEMMA AbstractStep ==
  ASSUME IInv, IInv', NEW t \in Thread,
         \A u \in Thread \ {t} : pc'[u] = pc[u] /\ pos'[u] = pos[u] /\ item'[u] = item[u],
         \/ sent' = sent
         \/ \E x \in Item : sent' = Append(sent, x)
  PROVE  /\ OpOf' = [OpOf EXCEPT ![t] = AbstractOp(t)']
         /\ TicketOf' = [TicketOf EXCEPT ![t] = IF Owns(t)' THEN pos'[t] ELSE -1]
         /\ ItemOf' = [ItemOf EXCEPT ![t] = AbstractItem(t)']
<1>1. \A u \in Thread \ {t} : AbstractOp(u)' = AbstractOp(u) /\ (Owns(u)' <=> Owns(u))
  BY DEF AbstractOp, Owns
<1>2. ASSUME NEW u \in Thread \ {t} PROVE AbstractItem(u)' = AbstractItem(u)
  <2>1. CASE pc[u] # "move"
    BY <2>1 DEF AbstractItem
  <2>2. CASE pc[u] = "move" /\ u \in Producers
    BY <2>2 DEF AbstractItem
  <2>3. CASE pc[u] = "move" /\ u \in Consumers
    <3>1. sent'[pos[u] + 1] = sent[pos[u] + 1]
      BY <2>3, HeldItem DEF IInv, TypeOK
    <3>2. AbstractItem(u) = sent[pos[u] + 1]
      BY <2>3, HeldItem
    <3>3. AbstractItem(u)' = sent'[pos'[u] + 1]
      <4>1. pc'[u] = "move" /\ u \notin Producers
        BY <2>3, ThreadAssumption
      <4> QED
        BY <4>1, <2>3 DEF IInv, ItemPlaces, AbstractItem
    <3> QED
      BY <3>1, <3>2, <3>3
  <2> QED
    BY <2>1, <2>2, <2>3 DEF Thread
<1> QED
  BY <1>1, <1>2 DEF OpOf, TicketOf, ItemOf

\* When an exact load makes an enqueue give up, the ring is full: its cell
\* belongs to the ticket one lap behind, which waits for a consumer.
LEMMA GivesUpWhenFull ==
  ASSUME IInv, Attended, NEW p \in Producers, sequence[Cell(pos[p])] < pos[p]
  PROVE  Fifo!Full
<1>1. /\ pos[p] \in Nat /\ pos[p] <= enqPos /\ sequence[Cell(pos[p])] \in Nat
      /\ enqPos \in Nat /\ deqPos \in Nat /\ deqPos <= enqPos /\ enqPos <= deqPos + BufferSize
  BY CounterTypes, ThreadTypes DEF IInv, ClaimReady, Thread
<1>2. Len(sent) = enqPos
  BY DEF IInv, CellStages
<1>3. pos[p] = enqPos
  <2>1. PICK j \in Window : Cell(j) = Cell(pos[p])
    BY <1>1, CellInWindow
  <2>2. /\ j \in Int /\ deqPos <= j /\ j < deqPos + BufferSize
        /\ j < enqPos => sequence[Cell(j)] \in {j, j + 1}
        /\ j >= enqPos => sequence[Cell(j)] \in {j, j + 1 - BufferSize}
    BY <1>1, <2>1, CellFacts DEF IInv, CellStages, Window
  <2>3. ~(j < pos[p] /\ pos[p] < j + BufferSize) /\ ~(pos[p] < j /\ j < pos[p] + BufferSize)
    BY <1>1, <2>1, <2>2, CellFacts
  <2> QED
    BY <1>1, <2>1, <2>2, <2>3, CellFacts
<1>4. CASE enqPos = deqPos + BufferSize
  BY <1>2, <1>4 DEF Fifo!Full, Fifo!tail
<1>5. CASE enqPos # deqPos + BufferSize
  <2>1. enqPos \in Window
    BY <1>1, <1>5, CellFacts DEF Window
  <2>2. PICK c \in Consumers : Owns(c) /\ pos[c] = enqPos - BufferSize
    BY <1>1, <1>3, <2>1 DEF Attended
  <2>3. c \in Thread /\ pos[c] \in Nat /\ pos[c] + BufferSize = enqPos
    BY <1>1, <2>2, CellFacts DEF Thread, IInv, TypeOK
  <2> QED
    BY <1>2, <2>2, <2>3 DEF Fifo!Full, Fifo!tail, Fifo!NoTicket
<1> QED
  BY <1>4, <1>5

\* When an exact load makes a dequeue give up, the queue looks empty: there is
\* no next ticket, or its producer has not published it.
LEMMA GivesUpWhenEmpty ==
  ASSUME IInv, Attended, NEW c \in Consumers, sequence[Cell(pos[c])] < pos[c] + 1
  PROVE  Fifo!Empty
<1>1. /\ pos[c] \in Nat /\ pos[c] <= deqPos /\ sequence[Cell(pos[c])] \in Nat
      /\ enqPos \in Nat /\ deqPos \in Nat /\ deqPos <= enqPos /\ enqPos <= deqPos + BufferSize
  BY CounterTypes, ThreadTypes DEF IInv, ClaimReady, Thread
<1>2. Len(sent) = enqPos
  BY DEF IInv, CellStages
<1>3. pos[c] = deqPos
  <2>1. PICK j \in Window : Cell(j) = Cell(pos[c])
    BY <1>1, CellInWindow
  <2>2. /\ j \in Int /\ deqPos <= j /\ j < deqPos + BufferSize
        /\ j < enqPos => sequence[Cell(j)] \in {j, j + 1}
        /\ j >= enqPos => sequence[Cell(j)] \in {j, j + 1 - BufferSize}
    BY <1>1, <2>1, CellFacts DEF IInv, CellStages, Window
  <2>3. ~(pos[c] < j /\ j < pos[c] + BufferSize)
    BY <1>1, <2>1, <2>2, CellFacts
  <2> QED
    BY <1>1, <2>1, <2>2, <2>3, CellFacts
<1>4. CASE deqPos = enqPos
  BY <1>2, <1>4 DEF Fifo!Empty, Fifo!tail
<1>5. CASE deqPos # enqPos
  <2>1. deqPos \in Window /\ sequence[Cell(deqPos)] \in {deqPos, deqPos + 1}
    BY <1>1, <1>5, CellFacts DEF Window, IInv, CellStages
  <2>2. PICK p \in Producers : Owns(p) /\ pos[p] = deqPos
    BY <1>1, <1>3, <1>5, <2>1 DEF Attended
  <2> QED
    BY <2>2 DEF Fifo!Empty, Thread
<1> QED
  BY <1>4, <1>5

-----------------------------------------------------------------------------
(* Every step is a step of TicketFifo or invisible                         *)

\* A step inside the search for a position, after which the thread searches on.
LEMMA SearchIsInvisible ==
  ASSUME IInv, IInv', NEW t \in Thread,
         {pc[t], pc'[t]} \subseteq {"load", "cas", "reload"}, item'[t] = item[t],
         \A u \in Thread \ {t} : pc'[u] = pc[u] /\ pos'[u] = pos[u] /\ item'[u] = item[u],
         UNCHANGED <<deqPos, sent>>
  PROVE  UNCHANGED Fifo!fifoVars
<1>1. /\ AbstractOp(t)' = AbstractOp(t) /\ ~Owns(t) /\ ~Owns(t)'
      /\ AbstractItem(t)' = AbstractItem(t)
  BY DEF AbstractOp, Owns, AbstractItem
<1>2. OpOf' = OpOf /\ TicketOf' = TicketOf /\ ItemOf' = ItemOf
  BY <1>1, AbstractStep DEF OpOf, TicketOf, ItemOf
<1> QED
  BY <1>2 DEF Fifo!fifoVars, OpOf, TicketOf, ItemOf

\* A call is TicketFifo's call.
LEMMA CallsRefine ==
  ASSUME IInv, IInv'
  PROVE  /\ \A p \in Producers, m \in Item : EnqueueCall(p, m) => Fifo!CallEnqueue(p, m)
         /\ \A c \in Consumers : DequeueCall(c) => Fifo!CallDequeue(c)
<1>1. ASSUME NEW t \in Thread, NEW m \in Item \cup {NoItem},
             pc[t] \in Resting, pc' = [pc EXCEPT ![t] = "load"],
             item' = [item EXCEPT ![t] = m], UNCHANGED <<deqPos, sent>>,
             \A u \in Thread \ {t} : pos'[u] = pos[u]
      PROVE  /\ OpOf[t] \in Fifo!Resting /\ OpOf' = [OpOf EXCEPT ![t] = "calling"]
             /\ TicketOf' = TicketOf
             /\ ItemOf' = [ItemOf EXCEPT ![t] = m]
  <2>1. /\ \A u \in Thread \ {t} : pc'[u] = pc[u] /\ item'[u] = item[u]
        /\ pc'[t] = "load" /\ item'[t] = m
    BY <1>1 DEF IInv, TypeOK
  <2>2. /\ AbstractOp(t)' = "calling" /\ AbstractItem(t)' = m
        /\ ~Owns(t) /\ ~Owns(t)' /\ AbstractOp(t) \in Fifo!Resting
    BY <1>1, <2>1 DEF AbstractOp, AbstractItem, Owns, Resting, Fifo!Resting
  <2> QED
    BY <1>1, <2>1, <2>2, AbstractStep DEF OpOf, TicketOf
<1>2. ASSUME NEW p \in Producers, NEW m \in Item, EnqueueCall(p, m)
      PROVE  Fifo!CallEnqueue(p, m)
  <2>1. /\ p \in Thread /\ \A u \in Thread \ {p} : pos'[u] = pos[u]
    BY <1>2 DEF EnqueueCall, Thread
  <2> QED
    BY <1>1, <1>2, <2>1 DEF EnqueueCall, Goto, Fifo!CallEnqueue, OpOf, TicketOf, ItemOf
<1>3. ASSUME NEW c \in Consumers, DequeueCall(c)
      PROVE  Fifo!CallDequeue(c)
  <2>1. /\ c \in Thread /\ \A u \in Thread \ {c} : pos'[u] = pos[u]
    BY <1>3 DEF DequeueCall, Thread
  <2> QED
    BY <1>1, <1>3, <2>1 DEF DequeueCall, Goto, Fifo!CallDequeue, OpOf, TicketOf, ItemOf
<1> QED
  BY <1>2, <1>3

\* Giving up is a refusal, and leaves the item of the caller alone.
LEMMA GiveUpStep ==
  ASSUME IInv, IInv', NEW t \in Thread, pc[t] = "load", pc' = [pc EXCEPT ![t] = "false"],
         UNCHANGED <<deqPos, pos, item, sent>>
  PROVE  /\ OpOf[t] = "calling" /\ OpOf' = [OpOf EXCEPT ![t] = "refused"]
         /\ TicketOf' = TicketOf /\ ItemOf' = ItemOf
<1>1. \A u \in Thread \ {t} : pc'[u] = pc[u]
  OBVIOUS
<1>2. /\ AbstractOp(t) = "calling" /\ AbstractOp(t)' = "refused"
      /\ ~Owns(t) /\ ~Owns(t)' /\ AbstractItem(t)' = AbstractItem(t)
  BY DEF AbstractOp, AbstractItem, Owns, IInv, TypeOK
<1> QED
  BY <1>1, <1>2, AbstractStep DEF OpOf, TicketOf, ItemOf

\* A look at the cell is invisible, or refuses the operation for a reason: an
\* exact load for a full or an empty queue, a stale one because it was stale.
LEMMA EnqueueLoadRefines ==
  ASSUME IInv, IInv', Attended, NEW p \in Producers, EnqueueLoadSequence(p)
  PROVE  Fifo!RefuseEnqueue(p) \/ UNCHANGED Fifo!fifoVars
<1> p \in Thread
  BY DEF Thread
<1>1. PICK seq \in SequenceLoads(Cell(pos[p])) :
           \/ seq = pos[p] /\ Goto(p, "cas")
           \/ seq < pos[p] /\ Goto(p, "false")
           \/ seq > pos[p] /\ Goto(p, "reload")
  BY DEF EnqueueLoadSequence, LoadSequence
<1>2. pc[p] = "load" /\ UNCHANGED <<sequence, data, enqPos, deqPos, pos, item, sent>>
  BY DEF EnqueueLoadSequence, LoadSequence
<1>3. CASE seq < pos[p] /\ Goto(p, "false")
  <2>1. RelaxedLoads \/ Fifo!Full
    BY <1>3, GivesUpWhenFull, ParameterAssumption DEF SequenceLoads
  <2> QED
    BY <1>2, <1>3, <2>1, GiveUpStep DEF Goto, Fifo!RefuseEnqueue, OpOf, TicketOf, ItemOf
<1>4. CASE Goto(p, "cas") \/ Goto(p, "reload")
  <2>1. pc'[p] \in {"cas", "reload"} /\ \A u \in Thread \ {p} : pc'[u] = pc[u]
    BY <1>4 DEF Goto, IInv, TypeOK
  <2> QED
    BY <1>2, <2>1, SearchIsInvisible
<1> QED
  BY <1>1, <1>3, <1>4

\* A consumer that reads a cell's sequence refuses, because the queue is empty, or stutters.
LEMMA DequeueLoadRefines ==
  ASSUME IInv, IInv', Attended, NEW c \in Consumers, DequeueLoadSequence(c)
  PROVE  Fifo!RefuseDequeue(c) \/ UNCHANGED Fifo!fifoVars
<1> c \in Thread
  BY DEF Thread
<1>1. PICK seq \in SequenceLoads(Cell(pos[c])) :
           \/ seq = pos[c] + 1 /\ Goto(c, "cas")
           \/ seq < pos[c] + 1 /\ Goto(c, "false")
           \/ seq > pos[c] + 1 /\ Goto(c, "reload")
  BY DEF DequeueLoadSequence, LoadSequence
<1>2. pc[c] = "load" /\ UNCHANGED <<sequence, data, enqPos, deqPos, pos, item, sent>>
  BY DEF DequeueLoadSequence, LoadSequence
<1>3. CASE seq < pos[c] + 1 /\ Goto(c, "false")
  <2>1. RelaxedLoads \/ Fifo!Empty
    BY <1>3, GivesUpWhenEmpty, ParameterAssumption DEF SequenceLoads
  <2> QED
    BY <1>2, <1>3, <2>1, GiveUpStep DEF Goto, Fifo!RefuseDequeue, OpOf, TicketOf, ItemOf
<1>4. CASE Goto(c, "cas") \/ Goto(c, "reload")
  <2>1. pc'[c] \in {"cas", "reload"} /\ \A u \in Thread \ {c} : pc'[u] = pc[u]
    BY <1>4 DEF Goto, IInv, TypeOK
  <2> QED
    BY <1>2, <2>1, SearchIsInvisible
<1> QED
  BY <1>1, <1>3, <1>4

\* Fetching a newer position is invisible.
LEMMA RereadRefines ==
  ASSUME IInv, IInv', NEW t \in Thread, NEW counter, Reread(t, counter)
  PROVE  UNCHANGED Fifo!fifoVars
<1>1. /\ pc[t] \in {"reload", "cas"} /\ pc' = [pc EXCEPT ![t] = "load"]
      /\ \A u \in Thread \ {t} : pos'[u] = pos[u]
      /\ UNCHANGED <<deqPos, item, sent>>
  BY DEF Reread, Goto
<1>2. pc'[t] = "load" /\ \A u \in Thread \ {t} : pc'[u] = pc[u]
  BY <1>1 DEF IInv, TypeOK
<1> QED
  BY <1>1, <1>2, SearchIsInvisible

\* A claim of enqueue_pos_ is a reservation: the ring is not full, and the item
\* takes the next place.
LEMMA EnqueueClaimRefines ==
  ASSUME IInv, IInv', NEW p \in Producers, EnqueueClaim(p)
  PROVE  Fifo!Reserve(p)
<1>1. /\ p \in Thread /\ pc[p] = "cas" /\ pos[p] = enqPos
      /\ sent' = Append(sent, item[p]) /\ pc' = [pc EXCEPT ![p] = "move"]
      /\ UNCHANGED <<sequence, data, deqPos, pos, item>>
  BY DEF EnqueueClaim, Goto, Thread
<1>2. pc'[p] = "move" /\ \A u \in Thread \ {p} : pc'[u] = pc[u]
  BY <1>1 DEF IInv, TypeOK
<1>3. item[p] \in Item /\ Len(sent) = enqPos /\ enqPos \in Nat
  BY <1>1 DEF IInv, ItemPlaces, CellStages, TypeOK
<1>4. ~Fifo!Full
  <2>1. sequence[Cell(enqPos)] = enqPos /\ enqPos < deqPos + BufferSize
    BY <1>1, <1>3, CounterCells DEF IInv, ClaimReady
  <2>2. ASSUME NEW c \in Consumers, Owns(c) PROVE pos[c] + BufferSize # enqPos
    <3>1. pos[c] \in Nat /\ sequence[Cell(pos[c])] = pos[c] + 1
      BY <2>2 DEF IInv, TypeOK, Ownership, Thread
    <3> QED
      BY <2>1, <3>1, CellFacts
  <2> QED
    BY <1>3, <2>1, <2>2, CounterTypes, SizeAssumption
       DEF Fifo!Full, Fifo!tail, Fifo!NoTicket, Thread
<1>5. /\ OpOf' = [OpOf EXCEPT ![p] = AbstractOp(p)']
      /\ TicketOf' = [TicketOf EXCEPT ![p] = IF Owns(p)' THEN pos'[p] ELSE -1]
      /\ ItemOf' = [ItemOf EXCEPT ![p] = AbstractItem(p)']
  BY <1>1, <1>2, <1>3, AbstractStep
<1>6. /\ AbstractOp(p) = "calling" /\ AbstractOp(p)' = "holding" /\ Owns(p)'
      /\ AbstractItem(p) = item[p] /\ AbstractItem(p)' = NoItem
  BY <1>1, <1>2 DEF AbstractOp, AbstractItem, Owns
<1> QED
  BY <1>1, <1>3, <1>4, <1>5, <1>6 DEF Fifo!Reserve, Fifo!tail, OpOf, TicketOf, ItemOf

\* A claim of dequeue_pos_ takes the item of the next ticket, and that one is
\* published.
LEMMA DequeueClaimRefines ==
  ASSUME IInv, IInv', NEW c \in Consumers, DequeueClaim(c)
  PROVE  Fifo!Take(c)
<1>1. /\ c \in Thread /\ pc[c] = "cas" /\ pos[c] = deqPos /\ deqPos' = deqPos + 1
      /\ pc' = [pc EXCEPT ![c] = "move"]
      /\ UNCHANGED <<sequence, data, enqPos, pos, item, sent>>
  BY DEF DequeueClaim, Goto, Thread
<1>2. pc'[c] = "move" /\ \A u \in Thread \ {c} : pc'[u] = pc[u]
  BY <1>1 DEF IInv, TypeOK
<1>3. ~Fifo!Empty
  <2>1. sequence[Cell(deqPos)] = deqPos + 1 /\ Len(sent) = enqPos /\ deqPos \in Nat
    BY <1>1 DEF IInv, ClaimReady, CellStages, TypeOK
  <2>2. deqPos < enqPos
    BY <2>1, CounterCells
  <2>3. ASSUME NEW p \in Producers, Owns(p) PROVE pos[p] # deqPos
    <3>1. sequence[Cell(pos[p])] = pos[p]
      BY <2>3 DEF IInv, Ownership
    <3> QED
      BY <2>1, <3>1
  <2> QED
    BY <2>1, <2>2, <2>3, CounterTypes DEF Fifo!Empty, Fifo!tail, Thread
<1>4. /\ OpOf' = [OpOf EXCEPT ![c] = AbstractOp(c)']
      /\ TicketOf' = [TicketOf EXCEPT ![c] = IF Owns(c)' THEN pos'[c] ELSE -1]
      /\ ItemOf' = [ItemOf EXCEPT ![c] = AbstractItem(c)']
  BY <1>1, <1>2, AbstractStep
<1>5. AbstractItem(c)' = sent[deqPos + 1]
  BY <1>1, <1>2, ThreadAssumption DEF AbstractItem, IInv, ItemPlaces
<1>6. AbstractOp(c) = "calling" /\ AbstractOp(c)' = "holding" /\ Owns(c)'
  BY <1>1, <1>2 DEF AbstractOp, Owns
<1> QED
  BY <1>1, <1>3, <1>4, <1>5, <1>6 DEF Fifo!Take, OpOf, TicketOf, ItemOf

\* Moving the item is invisible: the producer gave it away at the claim, the
\* consumer has it from the claim.
LEMMA MoveRefines ==
  ASSUME IInv, IInv', NEW t \in Thread,
         t \in Producers => EnqueueMove(t), t \in Consumers => DequeueMove(t)
  PROVE  UNCHANGED Fifo!fifoVars
<1>1. /\ pc[t] = "move" /\ pc' = [pc EXCEPT ![t] = "store"]
      /\ \A u \in Thread \ {t} : item'[u] = item[u]
      /\ UNCHANGED <<deqPos, pos, sent>>
  <2>1. EnqueueMove(t) \/ DequeueMove(t)
    BY DEF Thread
  <2>2. CASE EnqueueMove(t)
    BY <2>2 DEF EnqueueMove, Goto
  <2>3. CASE DequeueMove(t)
    BY <2>3 DEF DequeueMove, Goto
  <2> QED
    BY <2>1, <2>2, <2>3
<1>2. pc'[t] = "store" /\ \A u \in Thread \ {t} : pc'[u] = pc[u]
  BY <1>1 DEF IInv, TypeOK
<1>3. AbstractItem(t)' = AbstractItem(t)
  <2>1. CASE t \in Producers
    BY <1>1, <1>2, <2>1, ThreadAssumption DEF AbstractItem, EnqueueMove, IInv, TypeOK
  <2>2. CASE t \in Consumers
    BY <1>1, <1>2, <2>2, ThreadAssumption DEF AbstractItem, DequeueMove, IInv, TypeOK
  <2> QED
    BY <2>1, <2>2 DEF Thread
<1>4. /\ AbstractOp(t)' = AbstractOp(t)
      /\ (IF Owns(t)' THEN pos'[t] ELSE -1) = (IF Owns(t) THEN pos[t] ELSE -1)
  BY <1>1, <1>2 DEF AbstractOp, Owns
<1>5. /\ OpOf' = [OpOf EXCEPT ![t] = AbstractOp(t)']
      /\ TicketOf' = [TicketOf EXCEPT ![t] = IF Owns(t)' THEN pos'[t] ELSE -1]
      /\ ItemOf' = [ItemOf EXCEPT ![t] = AbstractItem(t)']
  BY <1>1, <1>2, AbstractStep
<1>6. OpOf' = OpOf /\ TicketOf' = TicketOf /\ ItemOf' = ItemOf
  BY <1>3, <1>4, <1>5 DEF OpOf, TicketOf, ItemOf
<1> QED
  BY <1>1, <1>6 DEF Fifo!fifoVars, OpOf, TicketOf, ItemOf

\* The store of the sequence publishes the ticket, or releases its slot.
LEMMA StoreRefines ==
  ASSUME IInv, IInv'
  PROVE  /\ \A p \in Producers : EnqueueStore(p) => Fifo!Publish(p)
         /\ \A c \in Consumers : DequeueStore(c) => Fifo!Release(c)
<1>1. ASSUME NEW t \in Thread, EnqueueStore(t) \/ DequeueStore(t)
      PROVE  /\ OpOf[t] = "holding" /\ OpOf' = [OpOf EXCEPT ![t] = "done"]
             /\ TicketOf' = [TicketOf EXCEPT ![t] = -1]
             /\ ItemOf' = ItemOf /\ UNCHANGED <<deqPos, sent>>
  <2>1. /\ pc[t] = "store" /\ pc' = [pc EXCEPT ![t] = "true"]
        /\ UNCHANGED <<deqPos, pos, item, sent>>
    BY <1>1 DEF EnqueueStore, DequeueStore, Goto
  <2>2. pc'[t] = "true" /\ \A u \in Thread \ {t} : pc'[u] = pc[u]
    BY <2>1 DEF IInv, TypeOK
  <2>3. /\ AbstractOp(t) = "holding" /\ AbstractOp(t)' = "done" /\ ~Owns(t)'
        /\ AbstractItem(t)' = AbstractItem(t)
    BY <2>1, <2>2 DEF AbstractOp, AbstractItem, Owns
  <2> QED
    BY <2>1, <2>2, <2>3, AbstractStep DEF OpOf, TicketOf, ItemOf
<1> QED
  BY <1>1 DEF Thread, Fifo!Publish, Fifo!Release, Fifo!NoTicket, OpOf, TicketOf, ItemOf

\* One step of the queue, as TicketFifo sees it.
LEMMA StepRefines ==
  IInv /\ IInv' /\ Attended /\ [Next]_vars => [Fifo!Next]_Fifo!fifoVars
<1> SUFFICES ASSUME IInv, IInv', Attended, [Next]_vars
             PROVE  Fifo!Next \/ UNCHANGED Fifo!fifoVars
  OBVIOUS
<1>1. ASSUME NEW p \in Producers, NEW m \in Item, EnqueueCall(p, m)
      PROVE  Fifo!CallEnqueue(p, m)
  BY <1>1, CallsRefine
<1>2. ASSUME NEW p \in Producers, EnqueueStep(p)
      PROVE  \/ Fifo!Reserve(p) \/ Fifo!Publish(p) \/ Fifo!RefuseEnqueue(p)
             \/ UNCHANGED Fifo!fifoVars
  <2> p \in Thread
    BY DEF Thread
  <2>1. EnqueueReread(p) => UNCHANGED Fifo!fifoVars
    BY RereadRefines DEF EnqueueReread
  <2>2. ASSUME EnqueueMove(p) PROVE UNCHANGED Fifo!fifoVars
    BY <2>2, MoveRefines, ThreadAssumption
  <2> QED
    BY <1>2, <2>1, <2>2, EnqueueLoadRefines, EnqueueClaimRefines, StoreRefines
       DEF EnqueueStep
<1>3. ASSUME NEW c \in Consumers, DequeueCall(c) \/ DequeueStep(c)
      PROVE  \/ Fifo!CallDequeue(c) \/ Fifo!Take(c) \/ Fifo!Release(c)
             \/ Fifo!RefuseDequeue(c) \/ UNCHANGED Fifo!fifoVars
  <2> c \in Thread
    BY DEF Thread
  <2>1. DequeueReread(c) => UNCHANGED Fifo!fifoVars
    BY RereadRefines DEF DequeueReread
  <2>2. ASSUME DequeueMove(c) PROVE UNCHANGED Fifo!fifoVars
    BY <2>2, MoveRefines, ThreadAssumption
  <2> QED
    BY <1>3, <2>1, <2>2, CallsRefine, DequeueLoadRefines, DequeueClaimRefines, StoreRefines
       DEF DequeueStep
<1>4. CASE UNCHANGED vars
  <2>1. OpOf' = OpOf /\ TicketOf' = TicketOf /\ ItemOf' = ItemOf
    BY <1>4 DEF vars, OpOf, TicketOf, ItemOf, AbstractOp, AbstractItem, Owns
  <2> QED
    BY <1>4, <2>1 DEF vars, Fifo!fifoVars, OpOf, TicketOf, ItemOf
<1> QED
  BY <1>1, <1>2, <1>3, <1>4 DEF Next, Fifo!Next

\* Every behaviour of the queue is one of the bounded FIFO: an enqueue is
\* refused only by a full ring and a dequeue only by an empty one (or by a stale
\* load), items leave in the order of their tickets, and a refused item stays
\* with its caller.
THEOREM QueueImplementsTicketFifo == Spec => ImplementsTicketFifo
BY InitRefines, StepRefines, QueueInvariant, QueueAttended, PTL
   DEF Spec, ImplementsTicketFifo, Fifo!Spec

=============================================================================
