---------------------------- MODULE MemoryBuffer ----------------------------
(* The buffers of the format library (common/util/format.h), as operators.  *)
(*                                                                          *)
(* A call on a writer works on a record m: the buffer itself (ptr, size,    *)
(* capacity and the cells of the storage ptr points to), and what the call  *)
(* shares with the rest of the program: the allocated blocks (heap), how    *)
(* often the call moved the storage (gen), the exception that ends it       *)
(* (error) and what it did wrong to memory (faults).  A pointer into the    *)
(* storage remembers the gen it was taken in: after a growth it dangles.    *)
(* Once there is an exception nothing of the call happens any more.         *)
EXTENDS Integers, Sequences, FiniteSets

CONSTANTS INLINE_BUFFER_SIZE,  \* cells inside the object
          Blocks               \* what the allocator can hand out

ASSUME SizeAssumption == INLINE_BUFFER_SIZE \in Nat \ {0}
ASSUME BlockAssumption == Blocks \subseteq Nat \ {0}

data_ == 0       \* the pointer to the cells inside the object
JUNK == "junk"   \* a cell nothing was written to

Max2(a, b) == IF a > b THEN a ELSE b
Storage(n) == [i \in 0..(n - 1) |-> JUNK]

NewBuffer == [ptr |-> data_, size |-> 0, capacity |-> INLINE_BUFFER_SIZE,
              cells |-> Storage(INLINE_BUFFER_SIZE)]

Cell(b, i) == IF i \in DOMAIN b.cells THEN b.cells[i] ELSE JUNK

\* The beginning and the end of a call: a buffer b, the allocated blocks h.  What
\* a call leaves behind the size is not content, and nothing may rely on it.
Enter(b, h) == [ptr |-> b.ptr, size |-> b.size, capacity |-> b.capacity,
                cells |-> b.cells, heap |-> h, avail |-> Blocks, gen |-> 0,
                error |-> "", faults |-> {}]
Leave(m) == [ptr |-> m.ptr, size |-> m.size, capacity |-> m.capacity,
             cells |-> [i \in DOMAIN m.cells |->
                          IF i < m.size THEN Cell(m, i) ELSE JUNK]]

Content(b) == [i \in 1..b.size |-> Cell(b, i - 1)]

Throw(m, what) == IF m.error = "" THEN [m EXCEPT !.error = what] ELSE m

-----------------------------------------------------------------------------
\* Slip: the new storage is not filled from the old.
GrowNoCopy(m, n) ==
  IF m.avail \subseteq m.heap THEN Throw(m, "bad_alloc")
  ELSE LET new == CHOOSE b \in m.avail : b \notin m.heap
           room == Max2(n, m.capacity + m.capacity \div 2)
       IN  [m EXCEPT !.ptr = new, !.capacity = room, !.cells = Storage(room),
                     !.heap = (@ \cup {new}) \ {m.ptr}, !.gen = @ + 1]

\* grow: the new block is allocated while the old one is still in use, only the
\* first size_ cells are copied, and a block that was outgrown is given back.
Grow(m, n) ==
  IF m.avail \subseteq m.heap THEN Throw(m, "bad_alloc")
  ELSE LET new == CHOOSE b \in m.avail : b \notin m.heap
           room == Max2(n, m.capacity + m.capacity \div 2)
       IN  [m EXCEPT !.ptr = new, !.capacity = room,
                     !.cells = [i \in 0..(room - 1) |->
                                  IF i < m.size THEN Cell(m, i) ELSE JUNK],
                     !.heap = (@ \cup {new}) \ {m.ptr}, !.gen = @ + 1]

Reserve(m, n) == IF m.error = "" /\ n > m.capacity THEN Grow(m, n) ELSE m

\* Slip: resize compares with the size, so it lets the size outgrow the storage.
ResizeUnchecked(m, n) == IF m.error = "" THEN [m EXCEPT !.size = n] ELSE m

Resize(m, n) ==
  LET r == Reserve(m, n)
  IN  IF r.error = "" THEN [r EXCEPT !.size = n] ELSE r

Cleared(m) == IF m.error = "" THEN [m EXCEPT !.size = 0] ELSE m

-----------------------------------------------------------------------------
(* Writing through a pointer p = [gen, off] into the storage.               *)
Pointer(m, off) == [gen |-> m.gen, off |-> off]
Plus(p, k) == [p EXCEPT !.off = @ + k]

Put(m, p, s) ==
  IF m.error # "" \/ s = <<>> THEN m
  ELSE [m EXCEPT
          !.cells = IF p.gen = m.gen
                    THEN [i \in DOMAIN m.cells |->
                            IF i \in p.off..(p.off + Len(s) - 1)
                            THEN s[i - p.off + 1] ELSE m.cells[i]]
                    ELSE m.cells,
          !.faults = @ \cup (IF p.gen # m.gen THEN {"dangling"} ELSE {})
                       \cup (IF \A i \in p.off..(p.off + Len(s) - 1) :
                                   i \in DOMAIN m.cells
                             THEN {} ELSE {"overrun"})]

PushBack(m, c) ==
  LET r == IF m.error = "" /\ m.size = m.capacity THEN Grow(m, m.size + 1) ELSE m
      w == Put(r, Pointer(r, r.size), <<c>>)
  IN  IF w.error = "" THEN [w EXCEPT !.size = @ + 1] ELSE w

\* Slip: append asks for the space of the new characters alone.
AppendShort(m, s) ==
  LET r == Reserve(m, Len(s))
      w == Put(r, Pointer(r, r.size), s)
  IN  IF w.error = "" THEN [w EXCEPT !.size = @ + Len(s)] ELSE w

AppendChars(m, s) ==
  LET r == Reserve(m, m.size + Len(s))
      w == Put(r, Pointer(r, r.size), s)
  IN  IF w.error = "" THEN [w EXCEPT !.size = @ + Len(s)] ELSE w

-----------------------------------------------------------------------------
(* Moving and freeing.  The block changes hands; what is inside the object  *)
(* is copied.  The object moved from keeps its size and capacity.           *)
MovedTo(other) ==
  [other EXCEPT !.cells =
     IF other.ptr = data_
     THEN [i \in 0..(INLINE_BUFFER_SIZE - 1) |->
             IF i < other.size THEN other.cells[i] ELSE JUNK]
     ELSE @]

\* Slip: the object moved from keeps its pointer to the block.
MovedFromShares(other) == other

MovedFrom(other) ==
  IF other.ptr = data_ THEN other
  ELSE [other EXCEPT !.ptr = data_, !.cells = Storage(INLINE_BUFFER_SIZE)]

\* The blocks left when buffer b frees its own.
Freed(b, h) == IF b.ptr # data_ THEN h \ {b.ptr} ELSE h
=============================================================================
