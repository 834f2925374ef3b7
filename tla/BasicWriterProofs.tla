--------------------------- MODULE BasicWriterProofs ---------------------------
(***************************************************************************)
(* Lemmas about the operators of MemoryBuffer, BasicWriter, FieldLayout:   *)
(* what every statement of a writer appends, that it leaves alone the text *)
(* before it, and that what it appends is the text FieldLayout asks for.   *)
(*                                                                         *)
(* A call is a row of steps on one buffer.  Fits says what every step      *)
(* needs of it, From that a step leaves the text of its call alone,        *)
(* Appended that it puts a text behind it, and Written what a statement    *)
(* does, the two kinds that are known to go wrong included.                *)
(***************************************************************************)
EXTENDS FieldLayout, FiniteSetTheorems, SequenceTheorems, WellFoundedInduction, TLAPS

-----------------------------------------------------------------------------
(* The buffer during a call                                                *)

\* AppendChars with the size it adds to named.
LEMMA AppendCharsSize ==
  ASSUME NEW m, NEW s
  PROVE  AppendChars(m, s) =
           LET r == Reserve(m, m.size + Len(s))
               w == Put(r, Pointer(r, r.size), s)
           IN  IF w.error = "" THEN [w EXCEPT !.size = w.size + Len(s)] ELSE w
BY Z3 DEF AppendChars

\* The fields of a buffer in a call.
Fields == {"ptr", "size", "capacity", "cells", "heap", "avail", "gen", "error", "faults"}

\* What a cell can hold: any string.  The characters the code itself writes are
\* named, since to the provers a literal is no string.
Letters == {"x", "X", "b", "B"}
Marks == {JUNK, NUL, " ", "+", "-", ":", "e", "r", "o"} \cup Letters \cup {Digits[i] : i \in 1..16}
Char == STRING \cup Marks

\* The marks and digits that are written are characters.
LEMMA MarksAreChars ==
  /\ JUNK \in Char /\ NUL \in Char /\ " " \in Char /\ "+" \in Char /\ "-" \in Char
  /\ \A i \in 1..16 : Digits[i] \in Char
<1>1. JUNK \in Marks /\ NUL \in Marks /\ " " \in Marks /\ "+" \in Marks /\ "-" \in Marks
  BY Zenon DEF Marks
<1>2. \A i \in 1..16 : Digits[i] \in Marks
  BY Zenon DEF Marks
<1> QED
  BY <1>1, <1>2, Zenon DEF Char

\* The letters of the bases, and what stands in front of an error.
LEMMA LettersAreChars ==
  /\ Letters \subseteq Char
  /\ ":" \in Char /\ "e" \in Char /\ "r" \in Char /\ "o" \in Char
<1>1. Letters \subseteq Marks /\ ":" \in Marks /\ "e" \in Marks /\ "r" \in Marks /\ "o" \in Marks
  BY Zenon DEF Marks
<1> QED
  BY <1>1, Zenon DEF Char

\* So is what a cell holds that nothing was written to.
LEMMA JunkIsChar == JUNK \in Char
BY MarksAreChars, Zenon

\* The size is within the storage, and the storage is what the pointer leads to: the
\* cells of the object, or those of a block.
Fits(m) ==
  /\ DOMAIN m = Fields /\ m.avail \subseteq Blocks
  /\ m.size \in Nat /\ m.capacity \in Nat /\ m.gen \in Nat
  /\ m.size <= m.capacity /\ INLINE_BUFFER_SIZE <= m.capacity
  /\ m.cells \in [0..(m.capacity - 1) -> Char]
  /\ m.ptr = data_ => m.capacity = INLINE_BUFFER_SIZE

\* No exception so far; after one nothing happens.
Runs(m) == m.error = ""
Idle(m, r) == ~Runs(m) => r = m

\* At r, a call that began with m has left the text before it alone.
From(m, r) ==
  /\ Fits(r)
  /\ m.size <= r.size /\ m.capacity <= r.capacity /\ m.gen <= r.gen
  /\ \A i \in 0..(m.size - 1) : r.cells[i] = m.cells[i]
  /\ Idle(m, r)

\* A call that has done nothing follows itself.
LEMMA FromSelf ==
  ASSUME NEW m, Fits(m)
  PROVE  From(m, m)
BY DEF Fits, From, Idle

\* What follows a step that follows the call follows the call.
LEMMA FromChain ==
  ASSUME NEW m, NEW r, NEW s, Fits(m), From(m, r), From(r, s)
  PROVE  From(m, s)
<1>1. Fits(r) /\ Fits(s)
  BY DEF From
<1>2. m.size \in Nat /\ r.size \in Nat /\ s.size \in Nat
      /\ m.capacity \in Nat /\ r.capacity \in Nat /\ s.capacity \in Nat
      /\ m.gen \in Nat /\ r.gen \in Nat /\ s.gen \in Nat
  BY <1>1 DEF Fits
<1>3. m.size <= s.size /\ m.capacity <= s.capacity /\ m.gen <= s.gen
  BY <1>2 DEF From
<1>4. ASSUME NEW i \in 0..(m.size - 1)
      PROVE  s.cells[i] = m.cells[i]
  <2>1. i \in 0..(r.size - 1)
    BY <1>2 DEF From
  <2>2. s.cells[i] = r.cells[i] /\ r.cells[i] = m.cells[i]
    BY <2>1 DEF From
  <2> QED
    BY <2>2
<1>5. Idle(m, s)
  BY Zenon DEF From, Idle, Runs
<1> QED
  BY <1>1, <1>3, <1>4, <1>5, Zenon DEF From

\* An exception changes nothing of the buffer.
LEMMA ThrowFits ==
  ASSUME NEW m, Fits(m), NEW what
  PROVE  LET t == Throw(m, what)
         IN  /\ Fits(t) /\ Idle(m, t)
             /\ t.size = m.size /\ t.capacity = m.capacity /\ t.gen = m.gen /\ t.cells = m.cells
             /\ t.faults = m.faults
             /\ what # "" => ~Runs(t)
<1> DEFINE t == [m EXCEPT !.error = what]
<1>1. /\ DOMAIN t = Fields /\ t.ptr = m.ptr /\ t.avail = m.avail
      /\ t.size = m.size /\ t.capacity = m.capacity /\ t.gen = m.gen /\ t.cells = m.cells
      /\ t.faults = m.faults /\ t.error = what
  BY DEF Fits, Fields
<1> HIDE DEF t
<1>2. Fits(t)
  BY <1>1 DEF Fits
<1>3. Throw(m, what) = IF m.error = "" THEN t ELSE m
  BY Zenon DEF Throw, t
<1>4. CASE Runs(m)
  BY <1>1, <1>2, <1>3, <1>4, Zenon DEF Idle, Runs
<1>5. CASE ~Runs(m)
  BY <1>3, <1>5, Zenon DEF Idle, Runs
<1> QED
  BY <1>4, <1>5

\* grow() asks for the size that is needed, or half again the capacity if that is more.
LEMMA GrowthRoom ==
  ASSUME NEW n \in Nat, NEW c \in Nat
  PROVE  LET room == Max2(n, c + c \div 2)
         IN  room \in Nat /\ n <= room /\ c <= room
BY DEF Max2

\* What a growth leaves of the buffer.
LEMMA GrowCells ==
  ASSUME NEW m, Fits(m), Runs(m), NEW n \in Nat, m.capacity < n
  PROVE  LET g == Grow(m, n)
             room == Max2(n, m.capacity + m.capacity \div 2)
         IN  /\ Fits(g) /\ g.faults = m.faults /\ g.size = m.size
             /\ ~Runs(g) => g.cells = m.cells /\ g.capacity = m.capacity /\ g.gen = m.gen
             /\ Runs(g) => /\ g.capacity = room /\ g.gen = m.gen + 1
                                /\ \A i \in 0..(room - 1) :
                                     g.cells[i] = IF i < m.size THEN m.cells[i] ELSE JUNK
<1> DEFINE room == Max2(n, m.capacity + m.capacity \div 2)
           g == Grow(m, n)
<1>1. CASE m.avail \subseteq m.heap
  <2>1. g = Throw(m, "bad_alloc")
    BY <1>1 DEF Grow
  <2>2. ~Runs(g) /\ Fits(g) /\ g.faults = m.faults /\ g.size = m.size
        /\ g.cells = m.cells /\ g.capacity = m.capacity /\ g.gen = m.gen
    BY <2>1, ThrowFits DEF Fields
  <2> HIDE DEF g
  <2> QED
    BY <2>2 DEF g
<1>2. CASE ~(m.avail \subseteq m.heap)
  <2> DEFINE new == CHOOSE b \in m.avail : b \notin m.heap
             c == [i \in 0..(room - 1) |-> IF i < m.size THEN Cell(m, i) ELSE JUNK]
  <2>1. new \in Blocks /\ new # data_
    BY <1>2, BlockAssumption DEF Fits, data_
  <2>2. room \in Nat /\ n <= room /\ m.capacity <= room
    BY Zenon, GrowthRoom DEF Fits
  <2>3. c \in [0..(room - 1) -> Char] /\ \A i \in 0..(room - 1) :
                                     c[i] = IF i < m.size THEN m.cells[i] ELSE JUNK
    <3>1. m.size \in Nat /\ m.capacity \in Nat /\ m.size <= m.capacity
          /\ m.cells \in [0..(m.capacity - 1) -> Char]
      BY DEF Fits
    <3> HIDE DEF room
    <3>2. ASSUME NEW i \in 0..(room - 1)
          PROVE  (IF i < m.size THEN Cell(m, i) ELSE JUNK) = (IF i < m.size THEN m.cells[i] ELSE JUNK)
      BY <2>2, <3>1 DEF Cell
    <3>3. ASSUME NEW i \in 0..(room - 1)
          PROVE  (IF i < m.size THEN m.cells[i] ELSE JUNK) \in Char
      BY <2>2, <3>1, JunkIsChar
    <3> QED
      BY <3>2, <3>3
  <2>4. g = [m EXCEPT !.ptr = new, !.capacity = room, !.cells = c,
                      !.heap = (@ \cup {new}) \ {m.ptr}, !.gen = @ + 1]
    BY <1>2 DEF Grow
  <2> HIDE DEF room, c, new
  <2>5. /\ DOMAIN g = Fields /\ g.ptr = new /\ g.capacity = room /\ g.cells = c /\ g.gen = m.gen + 1
        /\ g.size = m.size /\ g.avail = m.avail /\ Runs(g) /\ g.faults = m.faults
    BY <2>4 DEF Fits, Fields, Runs
  <2> HIDE DEF g
  <2>6. Fits(g)
    <3>1. g.size \in Nat /\ g.capacity \in Nat /\ g.gen \in Nat
          /\ g.size <= g.capacity /\ INLINE_BUFFER_SIZE <= g.capacity
      BY <2>2, <2>5, SizeAssumption DEF Fits
    <3> QED
      BY <2>1, <2>3, <2>5, <3>1, Zenon DEF Fits
  <2> QED
    BY <2>3, <2>5, <2>6 DEF g, room
<1> QED
  BY <1>1, <1>2

-----------------------------------------------------------------------------
(* reserve() and resize()                                                  *)

\* reserve(): nothing, or a growth.
LEMMA ReserveCells ==
  ASSUME NEW m, Fits(m), Runs(m), NEW n \in Nat
  PROVE  LET r == Reserve(m, n)
         IN  /\ Fits(r) /\ r.faults = m.faults /\ r.size = m.size
             /\ n <= m.capacity => r = m
             /\ n > m.capacity => r = Grow(m, n)
             /\ Runs(r) => n <= r.capacity
             /\ From(m, r)
<1> DEFINE r == Reserve(m, n)
<1>1. m.capacity \in Nat /\ m.size \in Nat /\ m.gen \in Nat /\ m.size <= m.capacity
  BY DEF Fits
<1>2. r = IF n > m.capacity THEN Grow(m, n) ELSE m
  BY Zenon DEF Reserve, Runs
<1> HIDE DEF r
<1>3. CASE n > m.capacity
  <2> DEFINE g == Grow(m, n)
             room == Max2(n, m.capacity + m.capacity \div 2)
  <2>1. /\ Fits(g) /\ g.faults = m.faults /\ g.size = m.size
        /\ ~Runs(g) => g.cells = m.cells /\ g.capacity = m.capacity /\ g.gen = m.gen
        /\ Runs(g) => /\ g.capacity = room /\ g.gen = m.gen + 1
                      /\ \A i \in 0..(room - 1) :
                           g.cells[i] = IF i < m.size THEN m.cells[i] ELSE JUNK
    <3>1. m.capacity < n
      BY <1>1, <1>3
    <3> QED
      BY <3>1, GrowCells, Zenon
  <2>2. r = g
    BY <1>2, <1>3
  <2>3. room \in Nat /\ n <= room /\ m.capacity <= room
    BY <1>1, GrowthRoom
  <2> HIDE DEF g, room
  <2>4. \A i \in 0..(m.size - 1) : g.cells[i] = m.cells[i]
    BY <1>1, <2>1, <2>3
  <2>5. m.size <= g.size /\ m.capacity <= g.capacity /\ m.gen <= g.gen
    BY <1>1, <2>1, <2>3
  <2>6. From(m, g)
    BY <2>1, <2>4, <2>5, Zenon DEF From, Idle
  <2>7. Runs(g) => n <= g.capacity
    BY <2>1, <2>3
  <2>8. ~(n <= m.capacity)
    BY <1>1, <1>3
  <2> QED
    BY <1>3, <2>1, <2>2, <2>6, <2>7, <2>8, Zenon DEF r, g
<1>4. CASE ~(n > m.capacity)
  <2>1. r = m /\ n <= m.capacity
    BY <1>1, <1>2, <1>4
  <2>2. From(m, m)
    BY FromSelf
  <2> QED
    BY <1>4, <2>1, <2>2, Zenon DEF r
<1> QED
  BY <1>3, <1>4, Zenon

\* A size within the capacity changes nothing else of the buffer.
LEMMA SizeCells ==
  ASSUME NEW m, Fits(m), NEW n \in Nat, n <= m.capacity
  PROVE  LET r == [m EXCEPT !.size = n]
         IN  /\ Fits(r) /\ r.faults = m.faults /\ r.size = n /\ (Runs(r) <=> Runs(m))
             /\ r.capacity = m.capacity /\ r.cells = m.cells /\ r.gen = m.gen
<1> DEFINE r == [m EXCEPT !.size = n]
<1>1. /\ DOMAIN r = Fields /\ r.ptr = m.ptr /\ r.capacity = m.capacity /\ r.cells = m.cells
      /\ r.gen = m.gen /\ r.avail = m.avail /\ r.faults = m.faults /\ r.error = m.error /\ r.size = n
  BY DEF Fits, Fields
<1> HIDE DEF r
<1>2. Fits(r)
  BY <1>1 DEF Fits
<1> QED
  BY <1>1, <1>2, Zenon DEF r, Runs

\* resize(): the content is kept, cells behind the old size are JUNK if it moved.
LEMMA ResizeCells ==
  ASSUME NEW m, Fits(m), Runs(m), NEW n \in Nat
  PROVE  LET r == Resize(m, n)
             room == Max2(n, m.capacity + m.capacity \div 2)
         IN  /\ Fits(r) /\ r.faults = m.faults
             /\ \A i \in 0..(m.size - 1) : r.cells[i] = m.cells[i]
             /\ m.capacity <= r.capacity /\ m.gen <= r.gen
             /\ ~Runs(r) => r.size = m.size
             /\ Runs(r) => r.size = n
             /\ Runs(r) /\ n <= m.capacity => /\ r.capacity = m.capacity /\ r.gen = m.gen
                                              /\ r.cells = m.cells
             /\ Runs(r) /\ n > m.capacity => /\ r.capacity = room /\ r.gen = m.gen + 1
                                             /\ \A i \in m.size..(room - 1) : r.cells[i] = JUNK
<1> DEFINE q == Reserve(m, n)
           s == [q EXCEPT !.size = n]
           r == Resize(m, n)
           room == Max2(n, m.capacity + m.capacity \div 2)
<1>1. /\ Fits(q) /\ q.faults = m.faults /\ q.size = m.size
      /\ n <= m.capacity => q = m
      /\ n > m.capacity => q = Grow(m, n)
      /\ Runs(q) => n <= q.capacity
      /\ From(m, q)
  BY ReserveCells, Zenon
<1>2. m.size <= q.size /\ m.capacity <= q.capacity /\ m.gen <= q.gen
      /\ \A i \in 0..(m.size - 1) : q.cells[i] = m.cells[i]
  BY <1>1, Zenon DEF From
<1>3. r = IF Runs(q) THEN s ELSE q
  BY Zenon DEF Resize, Runs
<1>0. m.size \in Nat /\ m.capacity \in Nat
  BY DEF Fits
<1> HIDE DEF r, q, s, room
<1>4. CASE ~Runs(q)
  BY <1>1, <1>2, <1>3, <1>4, Zenon DEF r
<1>5. CASE Runs(q)
  <2>1. /\ Fits(s) /\ s.faults = q.faults /\ s.size = n /\ (Runs(s) <=> Runs(q))
        /\ s.capacity = q.capacity /\ s.cells = q.cells /\ s.gen = q.gen
    BY <1>1, <1>5, SizeCells, Zenon DEF s
  <2>2. ASSUME n > m.capacity
        PROVE  s.capacity = room /\ s.gen = m.gen + 1 /\ \A i \in m.size..(room - 1) : s.cells[i] = JUNK
    <3>1. q = Grow(m, n) /\ m.capacity < n
      BY <1>0, <1>1, <2>2
    <3>2. q.capacity = room /\ q.gen = m.gen + 1
          /\ \A i \in 0..(room - 1) : q.cells[i] = IF i < m.size THEN m.cells[i] ELSE JUNK
      BY <1>5, <3>1, GrowCells, Zenon DEF room
    <3>3. ASSUME NEW i \in m.size..(room - 1)
          PROVE  i \in 0..(room - 1) /\ ~(i < m.size)
      BY <1>0
    <3> QED
      BY <2>1, <3>2, <3>3, Zenon
  <2>3. ASSUME n <= m.capacity
        PROVE  s.capacity = m.capacity /\ s.gen = m.gen /\ s.cells = m.cells
    BY <1>1, <2>1, <2>3, Zenon
  <2> QED
    BY <1>1, <1>2, <1>3, <1>5, <2>1, <2>2, <2>3, Zenon DEF r, room
<1> QED
  BY <1>4, <1>5, Zenon

\* A resize() later in a call, to no less than the size before the call.
LEMMA ResizeFrom ==
  ASSUME NEW m, NEW r, Fits(m), From(m, r), NEW n \in Nat, m.size <= n
  PROVE  From(m, Resize(r, n))
<1>1. Fits(r)
  BY Zenon DEF From
<1>2. CASE Runs(r)
  <2> DEFINE q == Resize(r, n)
  <2>1. /\ Fits(q) /\ \A i \in 0..(r.size - 1) : q.cells[i] = r.cells[i]
        /\ r.capacity <= q.capacity /\ r.gen <= q.gen
        /\ q.size = n \/ q.size = r.size
    BY <1>1, <1>2, ResizeCells, Zenon
  <2> HIDE DEF q
  <2>2. m.size \in Nat /\ r.size \in Nat /\ m.capacity \in Nat /\ r.capacity \in Nat /\ q.capacity \in Nat
        /\ m.gen \in Nat /\ r.gen \in Nat /\ q.gen \in Nat
    BY <1>1, <2>1 DEF Fits
  <2>3. m.size <= r.size /\ m.capacity <= r.capacity /\ m.gen <= r.gen
        /\ \A i \in 0..(m.size - 1) : r.cells[i] = m.cells[i]
    BY Zenon DEF From
  <2>4. m.size <= q.size /\ m.capacity <= q.capacity /\ m.gen <= q.gen
    BY <2>1, <2>2, <2>3
  <2>5. \A i \in 0..(m.size - 1) : i \in 0..(r.size - 1)
    BY <2>2, <2>3
  <2>6. \A i \in 0..(m.size - 1) : q.cells[i] = m.cells[i]
    BY <2>1, <2>3, <2>5, Zenon
  <2>7. Idle(m, q)
    BY <1>2, Zenon DEF From, Idle
  <2> QED
    BY <2>1, <2>4, <2>6, <2>7, Zenon DEF From, q
<1>3. CASE ~Runs(r)
  <2>1. Resize(r, n) = r
    BY <1>3, Zenon DEF Resize, Reserve, Runs
  <2> QED
    BY <2>1, Zenon
<1> QED
  BY <1>2, <1>3, Zenon

\* A reserve() later in a call.
LEMMA ReserveFrom ==
  ASSUME NEW m, NEW r, Fits(m), From(m, r), NEW n \in Nat
  PROVE  From(m, Reserve(r, n))
<1>1. Fits(r)
  BY Zenon DEF From
<1>2. CASE Runs(r)
  <2>1. From(r, Reserve(r, n))
    BY <1>1, <1>2, ReserveCells, Zenon
  <2> QED
    BY <2>1, FromChain, Zenon
<1>3. CASE ~Runs(r)
  <2>1. Reserve(r, n) = r
    BY <1>3, Zenon DEF Reserve, Runs
  <2> QED
    BY <2>1, Zenon
<1> QED
  BY <1>2, <1>3, Zenon

-----------------------------------------------------------------------------
(* Storing characters                                                      *)

\* After an exception nothing is stored.
LEMMA PutIdle ==
  ASSUME NEW m, NEW p, NEW s, ~Runs(m)
  PROVE  Put(m, p, s) = m
BY Zenon DEF Put, Runs

\* What is stored where: the rest of the buffer is as it was.
LEMMA PutCells ==
  ASSUME NEW m, Fits(m), Runs(m), NEW p, p.off \in Int, NEW s \in Seq(Char)
  PROVE  LET w == Put(m, p, s)
         IN  /\ Fits(w) /\ Runs(w)
             /\ w.size = m.size /\ w.capacity = m.capacity /\ w.gen = m.gen
             /\ p.gen = m.gen => \A i \in 0..(m.capacity - 1) :
                  w.cells[i] = IF p.off <= i /\ i < p.off + Len(s) THEN s[i - p.off + 1] ELSE m.cells[i]
             /\ p.gen # m.gen => w.cells = m.cells
             /\ p.gen = m.gen /\ 0 <= p.off /\ p.off + Len(s) <= m.capacity => w.faults = m.faults
             /\ p.gen # m.gen /\ s # <<>> => w.faults # {}
<1>1. m.capacity \in Nat /\ m.cells \in [0..(m.capacity - 1) -> Char]
  BY DEF Fits
<1>2. Len(s) \in Nat /\ \A k \in 1..Len(s) : s[k] \in Char
  OBVIOUS
<1> DEFINE w == Put(m, p, s)
<1>3. CASE s = <<>>
  <2>1. w = m
    BY <1>3, Zenon DEF Put
  <2>2. Len(s) = 0
    BY <1>3
  <2>3. \A i \in 0..(m.capacity - 1) :
          m.cells[i] = IF p.off <= i /\ i < p.off + Len(s) THEN s[i - p.off + 1] ELSE m.cells[i]
    BY <1>1, <2>2
  <2> QED
    BY <1>3, <2>1, <2>3, Zenon
<1>4. CASE s # <<>>
  <2> DEFINE area == p.off..(p.off + Len(s) - 1)
             new == [i \in DOMAIN m.cells |-> IF i \in area THEN s[i - p.off + 1] ELSE m.cells[i]]
             c == IF p.gen = m.gen THEN new ELSE m.cells
             f == m.faults \cup (IF p.gen # m.gen THEN {"dangling"} ELSE {})
                           \cup (IF \A i \in area : i \in DOMAIN m.cells THEN {} ELSE {"overrun"})
  <2>1. w = [m EXCEPT !.cells = c, !.faults = f]
    BY <1>4, Zenon DEF Put, Runs
  <2>2. DOMAIN m.cells = 0..(m.capacity - 1)
    BY <1>1
  <2>3. ASSUME NEW i \in 0..(m.capacity - 1)
        PROVE  new[i] = IF p.off <= i /\ i < p.off + Len(s) THEN s[i - p.off + 1] ELSE m.cells[i]
    <3>1. new[i] = IF i \in area THEN s[i - p.off + 1] ELSE m.cells[i]
      BY <2>2
    <3>2. i \in area <=> p.off <= i /\ i < p.off + Len(s)
      BY <1>1, <1>2
    <3> HIDE DEF new, area
    <3> QED
      BY <3>1, <3>2, Zenon
  <2>4. ASSUME NEW i \in 0..(m.capacity - 1)
        PROVE  new[i] \in Char
    <3> HIDE DEF new
    <3>1. CASE p.off <= i /\ i < p.off + Len(s)
      <4>1. new[i] = s[i - p.off + 1]
        BY <2>3, <3>1, Zenon
      <4>2. i - p.off + 1 \in 1..Len(s)
        BY <1>1, <1>2, <3>1
      <4> QED
        BY <1>2, <4>1, <4>2
    <3>2. CASE ~(p.off <= i /\ i < p.off + Len(s))
      <4>1. new[i] = m.cells[i]
        BY <2>3, <3>2, Zenon
      <4> QED
        BY <1>1, <4>1
    <3> QED
      BY <3>1, <3>2, Zenon
  <2>5. new \in [0..(m.capacity - 1) -> Char]
    <3>1. new = [i \in 0..(m.capacity - 1) |-> new[i]]
      BY <2>2
    <3> HIDE DEF new
    <3> QED
      BY <2>4, <3>1
  <2>6. p.gen = m.gen /\ 0 <= p.off /\ p.off + Len(s) <= m.capacity => f = m.faults
    <3>1. ASSUME 0 <= p.off, p.off + Len(s) <= m.capacity
          PROVE  \A i \in area : i \in DOMAIN m.cells
      BY <1>1, <1>2, <2>2, <3>1
    <3> HIDE DEF area
    <3> QED
      BY <3>1, Zenon DEF f
  <2>7. p.gen # m.gen => "dangling" \in f
    BY Zenon DEF f
  <2>8. c \in [0..(m.capacity - 1) -> Char]
    BY <1>1, <2>5, Zenon DEF c
  <2> HIDE DEF new, c, f, area
  <2>9. /\ DOMAIN w = Fields /\ w.ptr = m.ptr /\ w.capacity = m.capacity /\ w.cells = c
        /\ w.gen = m.gen /\ w.avail = m.avail /\ w.faults = f /\ w.error = m.error /\ w.size = m.size
    BY <2>1 DEF Fits, Fields
  <2> HIDE DEF w
  <2>10. Fits(w)
    BY <2>8, <2>9 DEF Fits
  <2>11. Runs(w)
    BY <2>9, Zenon DEF Runs
  <2>12. p.gen = m.gen => c = new
    BY Zenon DEF c
  <2>13. p.gen # m.gen => c = m.cells
    BY Zenon DEF c
  <2> QED
    BY <1>4, <2>3, <2>6, <2>7, <2>9, <2>10, <2>11, <2>12, <2>13, Zenon DEF w
<1> QED
  BY <1>3, <1>4, Zenon

\* What is stored behind the text before the call leaves that text alone.
LEMMA PutFrom ==
  ASSUME NEW m, NEW r, Fits(m), From(m, r), NEW p, p.off \in Int, m.size <= p.off, NEW s \in Seq(Char)
  PROVE  From(m, Put(r, p, s))
<1>1. Fits(r)
  BY Zenon DEF From
<1>2. CASE Runs(r)
  <2> DEFINE w == Put(r, p, s)
  <2>1. /\ Fits(w) /\ Runs(w)
        /\ w.size = r.size /\ w.capacity = r.capacity /\ w.gen = r.gen
        /\ p.gen = r.gen => \A i \in 0..(r.capacity - 1) :
             w.cells[i] = IF p.off <= i /\ i < p.off + Len(s) THEN s[i - p.off + 1] ELSE r.cells[i]
        /\ p.gen # r.gen => w.cells = r.cells
    BY <1>1, <1>2, PutCells, Zenon
  <2> HIDE DEF w
  <2>2. m.size \in Nat /\ r.size \in Nat /\ r.capacity \in Nat /\ r.size <= r.capacity
    BY <1>1 DEF Fits
  <2>3. m.size <= r.size /\ m.capacity <= r.capacity /\ m.gen <= r.gen
        /\ \A i \in 0..(m.size - 1) : r.cells[i] = m.cells[i]
    BY Zenon DEF From
  <2>4. ASSUME NEW i \in 0..(m.size - 1)
        PROVE  w.cells[i] = m.cells[i]
    <3>1. i \in 0..(r.capacity - 1) /\ ~(p.off <= i)
      BY <2>2, <2>3
    <3> QED
      BY <2>1, <2>3, <3>1, Zenon
  <2>5. Idle(m, w)
    BY <1>2, Zenon DEF From, Idle
  <2>6. m.size <= w.size /\ m.capacity <= w.capacity /\ m.gen <= w.gen
    BY <2>1, <2>3, Zenon
  <2> QED
    BY <2>1, <2>4, <2>5, <2>6, Zenon DEF From, w
<1>3. CASE ~Runs(r)
  BY <1>3, PutIdle, Zenon
<1> QED
  BY <1>2, <1>3, Zenon

\* Storing nothing.
LEMMA PutNothing ==
  ASSUME NEW m, NEW p
  PROVE  Put(m, p, <<>>) = m
BY Zenon DEF Put

\* Storing within the storage, through a pointer that is good.
LEMMA StoreIn ==
  ASSUME NEW m, Fits(m), Runs(m), NEW p, NEW s \in Seq(Char), NEW off \in Nat, NEW n \in Nat,
         Len(s) = n, p.off = off, p.gen = m.gen, off + n <= m.capacity
  PROVE  LET w == Put(m, p, s)
         IN  /\ Fits(w) /\ Runs(w) /\ w.size = m.size /\ w.capacity = m.capacity /\ w.gen = m.gen
             /\ w.faults = m.faults
             /\ \A i \in 0..(m.capacity - 1) :
                  w.cells[i] = IF off <= i /\ i < off + n THEN s[i - off + 1] ELSE m.cells[i]
<1>1. p.off \in Int /\ 0 <= p.off /\ p.off + Len(s) <= m.capacity
  OBVIOUS
<1> QED
  BY <1>1, PutCells

\* The cells from off hold the text s.
Holds(m, off, s) == \A i \in 1..Len(s) : m.cells[off + i - 1] = s[i]

\* The empty text and the order in which texts are joined do not matter.
LEMMA Joins ==
  ASSUME NEW s \in Seq(Char), NEW t \in Seq(Char), NEW u \in Seq(Char)
  PROVE  /\ <<>> \o s = s /\ s \o <<>> = s
         /\ (s \o t) \o u = s \o (t \o u)
         /\ s \o t \in Seq(Char) /\ Len(s \o t) = Len(s) + Len(t)
BY ConcatEmptySeq, ConcatAssociative, ConcatProperties

\* The characters of two texts that are joined.
LEMMA Joined ==
  ASSUME NEW s \in Seq(Char), NEW t \in Seq(Char)
  PROVE  /\ s \o t \in Seq(Char) /\ Len(s \o t) = Len(s) + Len(t)
         /\ \A i \in 1..(Len(s) + Len(t)) : (s \o t)[i] = IF i <= Len(s) THEN s[i] ELSE t[i - Len(s)]
BY ConcatProperties

\* No characters are a text, too.
LEMMA EmptyText == <<>> \in Seq(Char) /\ Len(<<>>) = 0
BY EmptySeq

\* Two texts one behind the other are one text.
LEMMA HoldsJoined ==
  ASSUME NEW m, NEW s \in Seq(Char), NEW t \in Seq(Char), NEW o \in Nat, NEW n \in Nat, NEW k \in Nat,
         Len(s) = n, o + n = k, Holds(m, o, s), Holds(m, k, t)
  PROVE  Holds(m, o, s \o t)
<1>1. /\ Len(t) \in Nat /\ Len(s \o t) = n + Len(t)
      /\ \A i \in 1..(n + Len(t)) : (s \o t)[i] = IF i <= n THEN s[i] ELSE t[i - n]
  <2>1. /\ Len(t) \in Nat /\ Len(s \o t) = Len(s) + Len(t)
        /\ \A i \in 1..(Len(s) + Len(t)) : (s \o t)[i] = IF i <= Len(s) THEN s[i] ELSE t[i - Len(s)]
    BY Joined, LenProperties
  <2> DEFINE u == s \o t
  <2> HIDE DEF u
  <2> QED
    BY <2>1, Zenon DEF u
<1> DEFINE u == s \o t
<1> HIDE DEF u
<1>2. ASSUME NEW i \in 1..(n + Len(t))
      PROVE  m.cells[o + i - 1] = u[i]
  <2>1. CASE i <= n
    <3>1. i \in 1..n
      BY <1>1, <2>1
    <3> QED
      BY <1>1, <2>1, <3>1, Zenon DEF Holds, u
  <2>2. CASE ~(i <= n)
    <3>1. i - n \in 1..Len(t) /\ k + (i - n) - 1 = o + i - 1
      BY <1>1, <2>2
    <3>2. m.cells[k + (i - n) - 1] = t[i - n]
      BY <3>1, Zenon DEF Holds
    <3> QED
      BY <1>1, <2>2, <3>1, <3>2, Zenon DEF u
  <2> QED
    BY <2>1, <2>2, Zenon
<1> QED
  BY <1>1, <1>2, Zenon DEF Holds, u

\* What was stored is there, and what stood elsewhere still is.
LEMMA StoreHolds ==
  ASSUME NEW m, Fits(m), Runs(m), NEW p, NEW s \in Seq(Char), NEW off \in Nat, NEW n \in Nat,
         Len(s) = n, p.off = off, p.gen = m.gen, off + n <= m.capacity
  PROVE  Holds(Put(m, p, s), off, s)
<1> DEFINE w == Put(m, p, s)
<1>1. \A i \in 0..(m.capacity - 1) :
        w.cells[i] = IF off <= i /\ i < off + n THEN s[i - off + 1] ELSE m.cells[i]
  BY StoreIn
<1>2. m.capacity \in Nat
  BY DEF Fits
<1> HIDE DEF w
<1>3. ASSUME NEW i \in 1..n
      PROVE  w.cells[off + i - 1] = s[i]
  <2> DEFINE k == off + i - 1
  <2>1. k \in 0..(m.capacity - 1) /\ off <= k /\ k < off + n /\ k - off + 1 = i
    BY <1>2
  <2> HIDE DEF k
  <2>2. w.cells[k] = s[i]
    BY <1>1, <2>1, Zenon
  <2> QED
    BY <2>2, Zenon DEF k
<1> QED
  BY <1>3, Zenon DEF Holds, w

\* A store leaves what is held by cells that it does not reach.
LEMMA StoreLeaves ==
  ASSUME NEW m, Fits(m), Runs(m), NEW p, NEW s \in Seq(Char), NEW off \in Nat, NEW n \in Nat,
         Len(s) = n, p.off = off, p.gen = m.gen, off + n <= m.capacity,
         NEW o \in Nat, NEW t, NEW k \in Nat, Len(t) = k, o + k <= m.capacity,
         o + k <= off \/ off + n <= o, Holds(m, o, t)
  PROVE  Holds(Put(m, p, s), o, t)
<1> DEFINE w == Put(m, p, s)
<1>1. \A i \in 0..(m.capacity - 1) :
        w.cells[i] = IF off <= i /\ i < off + n THEN s[i - off + 1] ELSE m.cells[i]
  BY StoreIn
<1>2. m.capacity \in Nat
  BY DEF Fits
<1> HIDE DEF w
<1>3. ASSUME NEW i \in 1..k
      PROVE  w.cells[o + i - 1] = t[i]
  <2> DEFINE j == o + i - 1
  <2>1. j \in 0..(m.capacity - 1) /\ ~(off <= j /\ j < off + n)
    BY <1>2
  <2>2. m.cells[j] = t[i]
    BY Zenon DEF Holds
  <2> HIDE DEF j
  <2>3. w.cells[j] = t[i]
    BY <1>1, <2>1, <2>2, Zenon
  <2> QED
    BY <2>3, Zenon DEF j
<1> QED
  BY <1>3, Zenon DEF Holds, w

\* A text behind the size is left alone by whatever follows.
LEMMA FromHolds ==
  ASSUME NEW m, NEW r, From(m, r), NEW o \in Nat, NEW t, NEW k \in Nat, Len(t) = k,
         m.size \in Nat, o + k <= m.size, Holds(m, o, t)
  PROVE  Holds(r, o, t)
<1>1. \A i \in 0..(m.size - 1) : r.cells[i] = m.cells[i]
  BY Zenon DEF From
<1>2. ASSUME NEW i \in 1..k
      PROVE  r.cells[o + i - 1] = t[i]
  <2>1. o + i - 1 \in 0..(m.size - 1)
    OBVIOUS
  <2> QED
    BY <1>1, <2>1, Zenon DEF Holds
<1> QED
  BY <1>2, Zenon DEF Holds

-----------------------------------------------------------------------------
(* Appending                                                               *)

\* The call that began with m has appended s, unless an exception came first.
Appended(m, s, r) ==
  /\ From(m, r) /\ r.faults = m.faults
  /\ Runs(r) => /\ r.size = m.size + Len(s)
                /\ \A i \in 1..Len(s) : r.cells[m.size + i - 1] = s[i]

\* Such a call fits.
LEMMA FromFits ==
  ASSUME NEW m, NEW r, From(m, r)
  PROVE  Fits(r)
BY Zenon DEF From

\* Appending twice appends both.
LEMMA AppendedChain ==
  ASSUME NEW m, Fits(m), NEW s \in Seq(Char), NEW r, Appended(m, s, r),
         NEW t \in Seq(Char), NEW q, Appended(r, t, q)
  PROVE  Appended(m, s \o t, q)
<1>1. From(m, r) /\ From(r, q) /\ r.faults = m.faults /\ q.faults = r.faults
  BY Zenon DEF Appended
<1>2. From(m, q)
  BY <1>1, FromChain, Zenon
<1>3. ASSUME Runs(q)
      PROVE  /\ q.size = m.size + Len(s \o t)
             /\ \A i \in 1..Len(s \o t) : q.cells[m.size + i - 1] = (s \o t)[i]
  <2>1. Runs(r)
    BY <1>1, <1>3, Zenon DEF From, Idle
  <2>2. /\ r.size = m.size + Len(s) /\ \A i \in 1..Len(s) : r.cells[m.size + i - 1] = s[i]
        /\ q.size = r.size + Len(t) /\ \A i \in 1..Len(t) : q.cells[r.size + i - 1] = t[i]
        /\ \A i \in 0..(r.size - 1) : q.cells[i] = r.cells[i]
    BY <1>1, <1>3, <2>1, Zenon DEF Appended, From
  <2>3. m.size \in Nat
    BY DEF Fits
  <2>4. /\ Len(s) \in Nat /\ Len(t) \in Nat /\ Len(s \o t) = Len(s) + Len(t)
        /\ \A i \in 1..Len(s \o t) : (s \o t)[i] = IF i <= Len(s) THEN s[i] ELSE t[i - Len(s)]
    BY ConcatProperties
  <2>5. ASSUME NEW i \in 1..Len(s \o t)
        PROVE  q.cells[m.size + i - 1] = (s \o t)[i]
    <3>1. CASE i <= Len(s)
      <4>1. i \in 1..Len(s) /\ m.size + i - 1 \in 0..(r.size - 1)
        BY <2>2, <2>3, <2>4, <3>1
      <4> QED
        BY <2>2, <2>4, <3>1, <4>1, Zenon
    <3>2. CASE ~(i <= Len(s))
      <4>1. i - Len(s) \in 1..Len(t) /\ r.size + (i - Len(s)) - 1 = m.size + i - 1
        BY <2>2, <2>3, <2>4, <3>2
      <4>2. q.cells[r.size + (i - Len(s)) - 1] = t[i - Len(s)]
        BY <2>2, <4>1, Zenon
      <4> QED
        BY <2>4, <3>2, <4>1, <4>2, Zenon
    <3> QED
      BY <3>1, <3>2, Zenon
  <2>6. q.size = m.size + Len(s \o t)
    BY <2>2, <2>3, <2>4
  <2> QED
    BY <2>5, <2>6
<1> QED
  BY <1>1, <1>2, <1>3, Zenon DEF Appended

\* A call that has thrown appends nothing.
LEMMA AppendedIdle ==
  ASSUME NEW m, Fits(m), NEW s, ~Runs(m)
  PROVE  Appended(m, s, m)
BY FromSelf, Zenon DEF Appended

\* Storing s behind the size, in a buffer with room for it, and counting it.
LEMMA StoreBehind ==
  ASSUME NEW m, Fits(m), NEW r, From(m, r), r.faults = m.faults, NEW s \in Seq(Char),
         Runs(r) => r.size = m.size /\ m.size + Len(s) <= r.capacity
  PROVE  LET w == Put(r, Pointer(r, r.size), s)
         IN  Appended(m, s, IF Runs(w) THEN [w EXCEPT !.size = w.size + Len(s)] ELSE w)
<1> DEFINE p == Pointer(r, r.size)
           w == Put(r, p, s)
           v == [w EXCEPT !.size = w.size + Len(s)]
<1>0. Fits(r) /\ Len(s) \in Nat
  BY FromFits, Zenon, LenProperties
<1>1. m.size \in Nat /\ r.size \in Nat /\ r.capacity \in Nat /\ m.size <= r.size
  BY <1>0 DEF Fits, From
<1>2. p.off = r.size /\ p.gen = r.gen
  BY DEF Pointer
<1> HIDE DEF p
<1>3. CASE ~Runs(r)
  <2>1. w = r
    BY <1>3, PutIdle, Zenon
  <2>2. Appended(m, s, r)
    BY <1>3, Zenon DEF Appended
  <2> QED
    BY <1>3, <2>1, <2>2, Zenon DEF p
<1>4. CASE Runs(r)
  <2>1. r.size = m.size /\ m.size + Len(s) <= r.capacity /\ p.off \in Int /\ 0 <= p.off /\ p.off + Len(s) <= r.capacity
    BY <1>1, <1>2, <1>4
  <2>2. /\ Fits(w) /\ Runs(w)
        /\ w.size = r.size /\ w.capacity = r.capacity /\ w.gen = r.gen /\ w.faults = r.faults
        /\ \A i \in 0..(r.capacity - 1) :
             w.cells[i] = IF p.off <= i /\ i < p.off + Len(s) THEN s[i - p.off + 1] ELSE r.cells[i]
    BY <1>0, <1>2, <1>4, <2>1, PutCells, Zenon
  <2> HIDE DEF w
  <2>3. w.size + Len(s) \in Nat /\ w.size + Len(s) <= w.capacity
    BY <1>0, <1>1, <2>1, <2>2
  <2>4. /\ Fits(v) /\ v.faults = w.faults /\ v.size = w.size + Len(s) /\ (Runs(v) <=> Runs(w))
        /\ v.capacity = w.capacity /\ v.cells = w.cells /\ v.gen = w.gen
    BY <2>2, <2>3, SizeCells, Zenon
  <2> HIDE DEF v
  <2>5. ASSUME NEW i \in 1..Len(s)
        PROVE  v.cells[m.size + i - 1] = s[i]
    <3> DEFINE k == m.size + i - 1
    <3>1. k \in 0..(r.capacity - 1) /\ p.off <= k /\ k < p.off + Len(s) /\ k - p.off + 1 = i
      BY <1>0, <1>1, <1>2, <2>1
    <3> HIDE DEF k
    <3>2. v.cells[k] = s[i]
      BY <2>2, <2>4, <3>1, Zenon
    <3> QED
      BY <3>2, Zenon DEF k
  <2>6. /\ m.size <= r.size /\ m.capacity <= r.capacity /\ m.gen <= r.gen
        /\ \A i \in 0..(m.size - 1) : r.cells[i] = m.cells[i]
        /\ Idle(m, r)
    BY Zenon DEF From
  <2>7. ASSUME NEW i \in 0..(m.size - 1)
        PROVE  v.cells[i] = m.cells[i]
    <3>1. i \in 0..(r.capacity - 1) /\ ~(p.off <= i)
      BY <1>0, <1>1, <1>2, <2>1
    <3> QED
      BY <2>2, <2>4, <2>6, <3>1, Zenon
  <2>8. v.size = m.size + Len(s) /\ m.size <= v.size
    BY <1>0, <1>1, <2>1, <2>2, <2>4
  <2>9. Idle(m, v)
    BY <1>4, <2>6, Zenon DEF Idle
  <2>10. From(m, v)
    BY <2>2, <2>4, <2>6, <2>7, <2>8, <2>9, Zenon DEF From
  <2>11. Appended(m, s, v)
    BY <2>2, <2>4, <2>5, <2>8, <2>10, Zenon DEF Appended
  <2> QED
    BY <2>2, <2>11, Zenon DEF w, v, p
<1> QED
  BY <1>3, <1>4, Zenon

\* append() appends its characters.
LEMMA AppendCharsAppended ==
  ASSUME NEW m, Fits(m), NEW s \in Seq(Char)
  PROVE  Appended(m, s, AppendChars(m, s))
<1> DEFINE r == Reserve(m, m.size + Len(s))
           w == Put(r, Pointer(r, r.size), s)
<1>1. m.size + Len(s) \in Nat
  BY LenProperties DEF Fits
<1>2. From(m, r) /\ r.faults = m.faults /\ (Runs(r) => r.size = m.size /\ m.size + Len(s) <= r.capacity)
  <2>1. CASE Runs(m)
    BY <1>1, <2>1, ReserveCells, Zenon
  <2>2. CASE ~Runs(m)
    <3>1. r = m
      BY <2>2, Zenon DEF Reserve, Runs
    <3> QED
      BY <2>2, <3>1, FromSelf, Zenon
  <2> QED
    BY <2>1, <2>2, Zenon
<1>3. AppendChars(m, s) = IF Runs(w) THEN [w EXCEPT !.size = w.size + Len(s)] ELSE w
  BY AppendCharsSize, Zenon DEF Runs
<1> HIDE DEF r
<1>4. Appended(m, s, IF Runs(w) THEN [w EXCEPT !.size = w.size + Len(s)] ELSE w)
  BY <1>2, StoreBehind, Zenon
<1> QED
  BY <1>3, <1>4, Zenon

\* push_back() appends its character.
LEMMA PushBackAppended ==
  ASSUME NEW m, Fits(m), NEW c \in Char
  PROVE  Appended(m, <<c>>, PushBack(m, c))
<1> DEFINE r == IF Runs(m) /\ m.size = m.capacity THEN Grow(m, m.size + 1) ELSE m
           s == <<c>>
           w == Put(r, Pointer(r, r.size), s)
<1>0. s \in Seq(Char) /\ Len(s) = 1
  OBVIOUS
<1>1. m.size + 1 \in Nat /\ m.size <= m.capacity /\ m.size \in Nat /\ m.capacity \in Nat
  BY DEF Fits
<1>2. From(m, r) /\ r.faults = m.faults /\ (Runs(r) => r.size = m.size /\ m.size + 1 <= r.capacity)
  <2>1. CASE Runs(m) /\ m.size = m.capacity
    <3>1. m.size + 1 > m.capacity
      BY <1>1, <2>1
    <3>2. r = Reserve(m, m.size + 1)
      BY <2>1, <3>1, Zenon DEF Reserve, Runs
    <3> HIDE DEF r
    <3> QED
      BY <1>1, <2>1, <3>2, ReserveCells, Zenon
  <2>2. CASE ~(Runs(m) /\ m.size = m.capacity)
    <3>1. r = m
      BY <2>2, Zenon
    <3>2. Runs(m) => m.size + 1 <= m.capacity
      BY <1>1, <2>2
    <3> QED
      BY <3>1, <3>2, FromSelf, Zenon
  <2> QED
    BY <2>1, <2>2, Zenon
<1>3. PushBack(m, c) = IF Runs(w) THEN [w EXCEPT !.size = @ + 1] ELSE w
  BY Zenon DEF PushBack, Runs
<1>4. [w EXCEPT !.size = @ + 1] = [w EXCEPT !.size = w.size + 1]
  OBVIOUS
<1> HIDE DEF r, s
<1>5. Appended(m, s, IF Runs(w) THEN [w EXCEPT !.size = w.size + Len(s)] ELSE w)
  BY <1>0, <1>2, StoreBehind, Zenon
<1> QED
  BY <1>0, <1>3, <1>4, <1>5, Zenon DEF s

-----------------------------------------------------------------------------
(* Areas and fields                                                        *)

\* A run of one character.
LEMMA RepSeq ==
  ASSUME NEW c \in Char, NEW n \in Nat
  PROVE  /\ Rep(c, n) \in Seq(Char) /\ Len(Rep(c, n)) = n
         /\ \A i \in 1..n : Rep(c, n)[i] = c
         /\ n = 0 => Rep(c, n) = <<>>
<1>1. Rep(c, n) \in [1..n -> Char]
  BY DEF Rep
<1>2. Rep(c, n) \in Seq(Char)
  BY <1>1, SeqDef
<1>3. Len(Rep(c, n)) = n
  BY <1>1, <1>2, LenProperties DEF Rep
<1>4. \A i \in 1..n : Rep(c, n)[i] = c
  BY DEF Rep
<1>5. n = 0 => Rep(c, n) = <<>>
  BY <1>2, <1>3, EmptySeq
<1> QED
  BY <1>2, <1>3, <1>4, <1>5, Zenon

\* A pointer and what is added to it.
IsPointer(p) == DOMAIN p = {"gen", "off"}

\* A pointer has an offset into the block that the buffer has now.
LEMMA PointerFields ==
  ASSUME NEW m, NEW off
  PROVE  LET p == Pointer(m, off) IN IsPointer(p) /\ p.off = off /\ p.gen = m.gen
BY DEF Pointer, IsPointer

\* Pointer arithmetic stays within a block.
LEMMA PlusFields ==
  ASSUME NEW p, IsPointer(p), NEW k
  PROVE  LET q == Plus(p, k) IN IsPointer(q) /\ q.off = p.off + k /\ q.gen = p.gen
BY DEF Plus, IsPointer

\* grow_buffer() and the pointer to what it added.
LEMMA GrowArea ==
  ASSUME NEW m, Fits(m), NEW n \in Nat
  PROVE  LET g == GrowBuffer(m, n)
             p == AreaOf(m, g)
         IN  /\ From(m, g) /\ g.faults = m.faults
             /\ IsPointer(p) /\ p.off = m.size /\ p.gen = g.gen
             /\ Runs(g) => /\ Runs(m) /\ g.size = m.size + n /\ g.size <= g.capacity
                           /\ m.size + n <= m.capacity => g.cells = m.cells /\ g.gen = m.gen /\ g.capacity = m.capacity
                           /\ m.size + n > m.capacity =>
                                /\ g.gen = m.gen + 1
                                /\ g.capacity = Max2(m.size + n, m.capacity + m.capacity \div 2)
                                /\ \A i \in m.size..(g.capacity - 1) : g.cells[i] = JUNK
<1> DEFINE g == GrowBuffer(m, n)
           p == AreaOf(m, g)
<1>1. IsPointer(p) /\ p.off = m.size /\ p.gen = g.gen
  BY PointerFields, Zenon DEF AreaOf
<1>2. m.size \in Nat /\ m.size + n \in Nat /\ m.size <= m.size + n
  BY DEF Fits
<1>3. g = Resize(m, m.size + n)
  BY Zenon DEF GrowBuffer
<1> HIDE DEF g, p
<1>4. From(m, g)
  BY <1>2, <1>3, FromSelf, ResizeFrom, Zenon
<1>5. CASE Runs(m)
  <2>1. g.size <= g.capacity
    BY <1>4, FromFits DEF Fits
  <2>2. /\ g.faults = m.faults
        /\ Runs(g) => g.size = m.size + n
        /\ Runs(g) /\ m.size + n <= m.capacity => g.capacity = m.capacity /\ g.gen = m.gen /\ g.cells = m.cells
        /\ Runs(g) /\ m.size + n > m.capacity =>
             /\ g.capacity = Max2(m.size + n, m.capacity + m.capacity \div 2) /\ g.gen = m.gen + 1
             /\ \A i \in m.size..(g.capacity - 1) : g.cells[i] = JUNK
    <3> DEFINE k == m.size + n
    <3>1. k \in Nat /\ g = Resize(m, k)
      BY <1>2, <1>3, Zenon
    <3> HIDE DEF k
    <3>2. /\ g.faults = m.faults
          /\ Runs(g) => g.size = k
          /\ Runs(g) /\ k <= m.capacity => g.capacity = m.capacity /\ g.gen = m.gen /\ g.cells = m.cells
          /\ Runs(g) /\ k > m.capacity =>
               /\ g.capacity = Max2(k, m.capacity + m.capacity \div 2) /\ g.gen = m.gen + 1
               /\ \A i \in m.size..(Max2(k, m.capacity + m.capacity \div 2) - 1) : g.cells[i] = JUNK
      BY <1>5, <3>1, ResizeCells, Zenon
    <3> QED
      BY <3>2, Zenon DEF k
  <2> QED
    BY <1>1, <1>4, <1>5, <2>1, <2>2, Zenon DEF g, p
<1>6. CASE ~Runs(m)
  <2>1. g = m
    BY <1>4, <1>6, Zenon DEF From, Idle
  <2> QED
    BY <1>1, <1>4, <1>6, <2>1, Zenon DEF g, p
<1> QED
  BY <1>5, <1>6, Zenon

\* An area that is filled at once.
LEMMA AreaFilled ==
  ASSUME NEW m, Fits(m), NEW s \in Seq(Char)
  PROVE  LET g == GrowBuffer(m, Len(s))
         IN  Appended(m, s, Put(g, AreaOf(m, g), s))
<1> DEFINE g == GrowBuffer(m, Len(s))
           p == AreaOf(m, g)
           w == Put(g, p, s)
<1>0. Len(s) \in Nat /\ m.size \in Nat
  BY LenProperties DEF Fits
<1>1. /\ From(m, g) /\ g.faults = m.faults
      /\ p.off = m.size /\ p.gen = g.gen
      /\ Runs(g) => g.size = m.size + Len(s) /\ g.size <= g.capacity
  BY <1>0, GrowArea, Zenon
<1> HIDE DEF g, p
<1>2. p.off \in Int /\ m.size <= p.off /\ 0 <= p.off
  BY <1>0, <1>1
<1>3. From(m, w)
  BY <1>1, <1>2, PutFrom, Zenon
<1>4. CASE Runs(g)
  <2>0. p.off + Len(s) <= g.capacity /\ g.capacity \in Nat /\ Fits(g)
    <3>1. Fits(g)
      BY <1>1, FromFits, Zenon
    <3> QED
      BY <3>1, <1>0, <1>1, <1>4 DEF Fits
  <2>1. /\ Runs(w) /\ w.size = g.size /\ w.faults = g.faults
        /\ \A i \in 0..(g.capacity - 1) :
             w.cells[i] = IF p.off <= i /\ i < p.off + Len(s) THEN s[i - p.off + 1] ELSE g.cells[i]
    BY <1>1, <1>2, <1>4, <2>0, PutCells, Zenon
  <2> HIDE DEF w
  <2>2. ASSUME NEW i \in 1..Len(s)
        PROVE  w.cells[m.size + i - 1] = s[i]
    <3> DEFINE k == m.size + i - 1
    <3>1. k \in 0..(g.capacity - 1) /\ p.off <= k /\ k < p.off + Len(s) /\ k - p.off + 1 = i
      BY <1>0, <1>1, <1>2, <2>0
    <3> HIDE DEF k
    <3>2. w.cells[k] = s[i]
      BY <2>1, <3>1, Zenon
    <3> QED
      BY <3>2, Zenon DEF k
  <2> QED
    BY <1>1, <1>3, <1>4, <2>1, <2>2, Zenon DEF Appended, g, p, w
<1>5. CASE ~Runs(g)
  <2>1. w = g
    BY <1>5, PutIdle, Zenon
  <2> QED
    BY <1>1, <1>5, <2>1, Zenon DEF Appended, g, p, w
<1> QED
  BY <1>4, <1>5, Zenon

\* A field was appended but for its n digits: head, room for them up to q, tail.
FieldReady(m, r, q, head, n, tail) ==
  /\ From(m, r) /\ r.faults = m.faults /\ IsPointer(q)
  /\ Runs(r) => /\ r.size = m.size + Len(head) + n + Len(tail)
                /\ q.off = m.size + Len(head) + n - 1 /\ q.gen = r.gen
                /\ Holds(r, m.size, head) /\ Holds(r, m.size + Len(head) + n, tail)

\* The digits complete it.
LEMMA DigitsStored ==
  ASSUME NEW m, Fits(m), NEW head \in Seq(Char), NEW tail \in Seq(Char), NEW digits \in Seq(Char),
         NEW r, NEW q, FieldReady(m, r, q, head, Len(digits), tail)
  PROVE  Appended(m, (head \o digits) \o tail, Put(r, Plus(q, 1 - Len(digits)), digits))
<1> DEFINE h == Len(head)
           n == Len(digits)
           t == Len(tail)
           b == m.size
           b1 == b + h
           b2 == b + h + n
           p == Plus(q, 1 - n)
           w == Put(r, p, digits)
           s == (head \o digits) \o tail
<1>0. h \in Nat /\ n \in Nat /\ t \in Nat /\ b \in Nat
  BY LenProperties DEF Fits
<1>1. /\ From(m, r) /\ r.faults = m.faults
      /\ IsPointer(q)
      /\ Runs(r) => /\ r.size = b2 + t /\ q.off = b + h + n - 1 /\ q.gen = r.gen
                    /\ Holds(r, b, head) /\ Holds(r, b2, tail)
  BY Zenon DEF FieldReady
<1>2. /\ head \o digits \in Seq(Char) /\ Len(head \o digits) = h + n
      /\ s \in Seq(Char) /\ Len(s) = (h + n) + t
  BY Joined
<1> HIDE DEF n, h, t, b
<1>4. b1 \in Nat /\ b2 \in Nat /\ b + h = b1 /\ b1 + n = b2 /\ b + (h + n) = b2
  BY <1>0
<1>5. b <= b1 /\ b1 <= b2 /\ b1 \in Int /\ b1 + n <= b2 /\ b + h <= b1
  BY <1>0
<1> HIDE DEF b1, b2
<1>7. CASE ~Runs(r)
  <2>1. w = r
    BY <1>7, PutIdle, Zenon
  <2> QED
    BY <1>1, <1>7, <2>1, Zenon DEF Appended, p, w, s, n
<1>8. CASE Runs(r)
  <2>0. Fits(r)
    BY <1>1, FromFits, Zenon
  <2>1. r.size <= r.capacity /\ r.capacity \in Nat
    BY <2>0 DEF Fits
  <2>20. r.size = b2 + t /\ q.gen = r.gen /\ q.off = b + h + n - 1
    BY <1>1, <1>8, Zenon
  <2>21. p.off = q.off + (1 - n) /\ p.gen = q.gen
    BY <1>1, PlusFields, Zenon
  <2> HIDE DEF p
  <2>22. p.off = b1 /\ p.gen = q.gen
    BY <1>0, <2>20, <2>21 DEF b1
  <2>2. r.size = b2 + t /\ p.gen = r.gen
    BY <2>20, <2>22, Zenon
  <2>23. From(m, w)
    BY <1>1, <1>5, <2>22, PutFrom, Zenon DEF b
  <2>3. b2 + t <= r.capacity /\ b1 + n <= r.capacity /\ b + h <= r.capacity
    BY <1>0, <1>4, <1>5, <2>1, <2>2
  <2>4. Len(head) = h /\ Len(digits) = n /\ Len(tail) = t
    BY Zenon DEF h, n, t
  <2>5. Runs(w) /\ w.size = r.size /\ w.faults = r.faults
    BY <1>0, <2>22, <1>4, <1>8, <2>0, <2>2, <2>3, <2>4, StoreIn
  <2>6. Holds(w, b1, digits)
    BY <1>0, <2>22, <1>4, <1>8, <2>0, <2>2, <2>3, <2>4, StoreHolds, Zenon
  <2>7. Holds(w, b, head)
    <3>1. Holds(r, b, head)
      BY <1>1, <1>8, Zenon
    <3> QED
      BY <1>0, <2>22, <1>4, <1>5, <1>8, <2>0, <2>2, <2>3, <2>4, <3>1, StoreLeaves, Zenon
  <2>8. Holds(w, b2, tail)
    <3>1. Holds(r, b2, tail)
      BY <1>1, <1>8, Zenon
    <3> QED
      BY <1>0, <2>22, <1>4, <1>5, <1>8, <2>0, <2>2, <2>3, <2>4, <3>1, StoreLeaves, Zenon
  <2> HIDE DEF w
  <2>9. Holds(w, b, s)
    <3>1. Holds(w, b, head \o digits)
      BY <1>0, <1>4, <2>4, <2>6, <2>7, HoldsJoined, Zenon
    <3>2. h + n \in Nat
      BY <1>0
    <3> QED
      BY <1>0, <1>2, <1>4, <2>8, <3>1, <3>2, HoldsJoined, Zenon
  <2>10. w.size = b + Len(s)
    <3>1. w.size = b2 + t /\ Len(s) = (h + n) + t
      BY <1>2, <2>2, <2>5, Zenon
    <3> QED
      BY <1>0, <3>1 DEF b2
  <2>11. w.faults = m.faults
    BY <1>1, <2>5, Zenon
  <2> QED
    BY <2>23, <2>9, <2>10, <2>11, Zenon DEF Appended, Holds, p, w, s, n, b
<1> QED
  BY <1>7, <1>8, Zenon

-----------------------------------------------------------------------------
(* Fields of a width                                                       *)

\* What the proofs need of a format specification.
IsSpec(spec) ==
  /\ DOMAIN spec = {"align", "width", "fill", "flags", "precision", "type"}
  /\ spec.width \in Nat /\ spec.precision \in Int /\ spec.fill \in Char

\* Padding is what is missing to the width, and what stands at the left is part of it.
LEMMA PaddingBounds ==
  ASSUME NEW width \in Nat, NEW n \in Nat, NEW align
  PROVE  LET padding == Max2(0, width - n)
             left == LeftPadding(align, padding)
         IN  /\ padding \in Nat /\ left \in Nat /\ padding - left \in Nat /\ left <= padding
             /\ padding \div 2 \in Nat /\ padding - padding \div 2 \in Nat /\ padding \div 2 <= padding
             /\ padding = IF width <= n THEN 0 ELSE width - n
<1> DEFINE padding == Max2(0, width - n)
<1>1. padding \in Nat /\ padding = IF width <= n THEN 0 ELSE width - n
  BY DEF Max2
<1> HIDE DEF padding
<1>2. padding \div 2 \in Nat /\ padding - padding \div 2 \in Nat /\ padding \div 2 <= padding
  BY <1>1
<1>3. LeftPadding(align, padding) \in {padding, padding \div 2, 0}
  BY Zenon DEF LeftPadding
<1> DEFINE left == LeftPadding(align, padding)
<1> HIDE DEF left
<1>4. left \in Nat /\ padding - left \in Nat /\ left <= padding
  BY <1>1, <1>2, <1>3 DEF left
<1> QED
  BY <1>1, <1>2, <1>4, Zenon DEF padding, left

\* A text between two runs of the fill.
Framed(fill, left, s, right) == (Rep(fill, left) \o s) \o Rep(fill, right)

\* A text between two runs of fill characters is a text.
LEMMA FramedSeq ==
  ASSUME NEW fill \in Char, NEW left \in Nat, NEW right \in Nat, NEW s \in Seq(Char)
  PROVE  Framed(fill, left, s, right) \in Seq(Char)
         /\ Len(Framed(fill, left, s, right)) = Len(s) + (left + right)
<1>1. /\ Rep(fill, left) \in Seq(Char) /\ Rep(fill, right) \in Seq(Char)
      /\ Len(Rep(fill, left)) = left /\ Len(Rep(fill, right)) = right
  BY RepSeq, Zenon
<1> DEFINE a == Rep(fill, left)
           b == Rep(fill, right)
<1> HIDE DEF a, b
<1>2. (a \o s) \o b \in Seq(Char) /\ Len((a \o s) \o b) = (left + Len(s)) + right
  <2>1. a \o s \in Seq(Char) /\ Len(a \o s) = left + Len(s)
    BY <1>1, Joined, Zenon DEF a
  <2> DEFINE c == a \o s
  <2> HIDE DEF c
  <2>2. c \o b \in Seq(Char) /\ Len(c \o b) = (left + Len(s)) + right
    BY <1>1, <2>1, Joined, Zenon DEF b, c
  <2> QED
    BY <2>2, Zenon DEF c
<1>3. Len(s) \in Nat
  BY LenProperties
<1> QED
  BY <1>2, <1>3 DEF Framed, a, b

\* write_str() appends the text in its padding, and knows where it starts.
LEMMA WriteStrAtAppended ==
  ASSUME NEW m, Fits(m), NEW s \in Seq(Char), NEW spec, spec.width \in Nat, spec.fill \in Char
  PROVE  LET padding == Max2(0, spec.width - Len(s))
             left == LeftPadding(spec.align, padding)
             r == WriteStrAt(m, s, spec)
         IN  /\ Appended(m, Framed(spec.fill, left, s, padding - left), r.m)
             /\ r.p.off = m.size + left
             /\ r.p.gen = r.m.gen
<1> DEFINE padding == Max2(0, spec.width - Len(s))
           left == LeftPadding(spec.align, padding)
           f == Framed(spec.fill, left, s, padding - left)
           g == GrowBuffer(m, Len(s) + padding)
           p == AreaOf(m, g)
           w == Put(g, p, f)
<1>1. Len(s) \in Nat
  BY LenProperties
<1>2. padding \in Nat /\ left \in Nat /\ padding - left \in Nat /\ left <= padding
  BY <1>1, PaddingBounds, Zenon
<1>3. WriteStrAt(m, s, spec) = [m |-> w, p |-> Plus(p, left)]
  BY Zenon DEF WriteStrAt, Framed
<1> HIDE DEF padding, left
<1>4. f \in Seq(Char) /\ Len(f) = Len(s) + (left + (padding - left))
  BY <1>2, FramedSeq, Zenon
<1>5. Len(f) = Len(s) + padding /\ Len(s) + padding \in Nat
  BY <1>1, <1>2, <1>4
<1> HIDE DEF f
<1>6. Appended(m, f, w)
  BY <1>4, <1>5, AreaFilled, Zenon
<1>7. IsPointer(p) /\ p.off = m.size /\ p.gen = g.gen /\ From(m, g)
  BY <1>5, GrowArea, Zenon
<1> HIDE DEF g, p
<1>8. Plus(p, left).off = m.size + left /\ Plus(p, left).gen = g.gen
  BY <1>7, PlusFields, Zenon
<1>9. w.gen = g.gen
  <2>1. CASE Runs(g)
    <3>1. p.off \in Int
      BY <1>7 DEF Fits
    <3> QED
      BY <1>4, <1>7, <2>1, <3>1, FromFits, PutCells, Zenon
  <2>2. CASE ~Runs(g)
    BY <2>2, PutIdle, Zenon
  <2> QED
    BY <2>1, <2>2, Zenon
<1> HIDE DEF w
<1>10. WriteStrAt(m, s, spec).m = w /\ WriteStrAt(m, s, spec).p = Plus(p, left)
  BY <1>3
<1> QED
  BY <1>6, <1>8, <1>9, <1>10, Zenon DEF f, padding, left

\* Padding appends the fill as often as it is asked for.
LEMMA PaddedAppended ==
  ASSUME NEW m, Fits(m), NEW n \in Nat, NEW fill \in Char
  PROVE  Appended(m, Rep(fill, n), Padded(m, n, fill))
<1> DEFINE s == Rep(fill, n)
<1>1. s \in Seq(Char) /\ Len(s) = n
  BY RepSeq, Zenon
<1>2. Padded(m, n, fill) = LET g == GrowBuffer(m, Len(s)) IN Put(g, AreaOf(m, g), s)
  BY <1>1, Zenon DEF Padded
<1> HIDE DEF s
<1> QED
  BY <1>1, <1>2, AreaFilled, Zenon DEF s

\* What stands in front of the digits and behind them in PrepareField.
FieldPadding(n, spec, prefix) == Max2(0, spec.width - (Len(prefix) + n))
FieldLeft(n, spec, prefix) ==
  IF spec.align = "left" THEN 0
  ELSE IF spec.align = "center" THEN FieldPadding(n, spec, prefix) \div 2
  ELSE FieldPadding(n, spec, prefix)
FieldHead(n, spec, prefix) ==
  IF spec.align = "numeric" THEN prefix \o Rep(spec.fill, FieldLeft(n, spec, prefix))
  ELSE Rep(spec.fill, FieldLeft(n, spec, prefix)) \o prefix
FieldTail(n, spec, prefix) ==
  Rep(spec.fill, FieldPadding(n, spec, prefix) - FieldLeft(n, spec, prefix))

\* The padding of a field, and the texts that stand before and behind its digits.
LEMMA FieldParts ==
  ASSUME NEW n \in Nat, NEW spec, spec.width \in Nat, spec.fill \in Char, NEW prefix \in Seq(Char)
  PROVE  LET padding == FieldPadding(n, spec, prefix)
             left == FieldLeft(n, spec, prefix)
             head == FieldHead(n, spec, prefix)
             tail == FieldTail(n, spec, prefix)
         IN  /\ padding \in Nat /\ left \in Nat /\ padding - left \in Nat
             /\ padding = IF spec.width <= Len(prefix) + n THEN 0 ELSE spec.width - (Len(prefix) + n)
             /\ head \in Seq(Char) /\ Len(head) = left + Len(prefix)
             /\ tail \in Seq(Char) /\ Len(tail) = padding - left
<1> DEFINE padding == FieldPadding(n, spec, prefix)
           left == FieldLeft(n, spec, prefix)
           head == FieldHead(n, spec, prefix)
           tail == FieldTail(n, spec, prefix)
<1>1. Len(prefix) \in Nat /\ Len(prefix) + n \in Nat
  BY LenProperties
<1>2. /\ padding \in Nat /\ padding \div 2 \in Nat /\ padding - padding \div 2 \in Nat
      /\ padding = IF spec.width <= Len(prefix) + n THEN 0 ELSE spec.width - (Len(prefix) + n)
  BY <1>1, PaddingBounds, Zenon DEF FieldPadding
<1>3. left = 0 \/ left = padding \/ left = padding \div 2
  BY Zenon DEF FieldLeft
<1> HIDE DEF padding, left
<1>4. left \in Nat /\ padding - left \in Nat
  <2>1. padding \in Nat /\ padding \div 2 \in Nat /\ padding - padding \div 2 \in Nat
    BY <1>2, Zenon
  <2> QED
    BY <1>3, <2>1
<1> DEFINE a == Rep(spec.fill, left)
<1>5. a \in Seq(Char) /\ Len(a) = left
  BY <1>4, RepSeq, Zenon
<1>6. tail \in Seq(Char) /\ Len(tail) = padding - left
  BY <1>4, RepSeq, Zenon DEF FieldTail, padding, left
<1>7. head = prefix \o a \/ head = a \o prefix
  BY Zenon DEF FieldHead, left
<1> HIDE DEF a, head, tail
<1>8. head \in Seq(Char) /\ Len(head) = left + Len(prefix)
  <2>1. head \in Seq(Char) /\ (Len(head) = left + Len(prefix) \/ Len(head) = Len(prefix) + left)
    BY <1>5, <1>7, Joined, Zenon
  <2> QED
    BY <1>1, <1>4, <2>1
<1> QED
  BY <1>2, <1>4, <1>6, <1>8, Zenon DEF padding, left, head, tail

\* At r, the n cells from first on are what they were when g had grown.
AreaKept(g, r, first, n) ==
  /\ Fits(g) /\ (Runs(r) <=> Runs(g)) /\ r.capacity = g.capacity
  /\ Runs(g) => \A i \in first..(first + n - 1) : r.cells[i] = g.cells[i]

\* prepare_int_buffer() without precision: a field ready for its digits.
LEMMA PrepareFieldReady ==
  ASSUME NEW m, Fits(m), NEW n \in Nat, NEW spec, spec.width \in Nat, spec.fill \in Char,
         NEW prefix \in Seq(Char)
  PROVE  LET r == PrepareField(m, n, spec, prefix)
             padding == FieldPadding(n, spec, prefix)
             g == GrowBuffer(m, (Len(prefix) + n) + padding)
         IN  /\ FieldReady(m, r.m, r.p, FieldHead(n, spec, prefix), n, FieldTail(n, spec, prefix))
             /\ AreaKept(g, r.m, m.size + Len(FieldHead(n, spec, prefix)), n)
<1> DEFINE padding == FieldPadding(n, spec, prefix)
           left == FieldLeft(n, spec, prefix)
           head == FieldHead(n, spec, prefix)
           tail == FieldTail(n, spec, prefix)
           size == Len(prefix) + n
           g == GrowBuffer(m, size + padding)
           p == AreaOf(m, g)
           p2 == Plus(p, left + size)
           q == Plus(p, left + size - 1)
           u == Put(g, p, head)
           w == Put(u, p2, tail)
           h == Len(head)
           t == Len(tail)
<1>1. PrepareField(m, n, spec, prefix) = [m |-> w, p |-> q]
  BY Zenon DEF PrepareField, FieldPadding, FieldLeft, FieldHead, FieldTail
<1>2. PrepareField(m, n, spec, prefix).m = w /\ PrepareField(m, n, spec, prefix).p = q
  BY <1>1
<1>3. /\ padding \in Nat /\ left \in Nat /\ padding - left \in Nat
      /\ head \in Seq(Char) /\ h = left + Len(prefix)
      /\ tail \in Seq(Char) /\ t = padding - left
  BY FieldParts, Zenon
<1>4. Len(prefix) \in Nat /\ m.size \in Nat
  BY LenProperties DEF Fits
<1> HIDE DEF padding, left, head, tail, h, t
<1>5. /\ size + padding \in Nat /\ h \in Nat /\ t \in Nat /\ size + padding = h + n + t
      /\ left + size = h + n /\ left + size - 1 = h + n - 1 /\ left + size \in Int
  BY <1>3, <1>4
<1> HIDE DEF size
<1>6. /\ From(m, g) /\ g.faults = m.faults
      /\ IsPointer(p) /\ p.off = m.size /\ p.gen = g.gen
      /\ Runs(g) => g.size = m.size + (size + padding) /\ g.size <= g.capacity
  BY <1>5, GrowArea, Zenon
<1> HIDE DEF p
<1>7. /\ IsPointer(p2) /\ p2.off = m.size + (left + size) /\ p2.gen = g.gen
      /\ IsPointer(q) /\ q.off = m.size + (left + size - 1) /\ q.gen = g.gen
  BY <1>6, PlusFields, Zenon
<1> HIDE DEF g, p2, q
<1>8. Fits(g)
  BY <1>6, FromFits, Zenon
<1>9. /\ p.off \in Int /\ m.size <= p.off /\ 0 <= p.off
      /\ p2.off \in Int /\ m.size <= p2.off /\ 0 <= p2.off /\ p2.off = m.size + h + n
      /\ q.off = m.size + h + n - 1
  BY <1>4, <1>5, <1>6, <1>7
<1>10. From(m, u)
  BY <1>3, <1>6, <1>9, PutFrom, Zenon
<1>11. From(m, w)
  BY <1>3, <1>9, <1>10, PutFrom, Zenon
<1>12. CASE ~Runs(g)
  <2>1. u = g
    BY <1>12, PutIdle, Zenon
  <2>2. w = g
    BY <1>12, <2>1, PutIdle, Zenon
  <2>3. FieldReady(m, w, q, head, n, tail)
    BY <1>6, <1>7, <1>12, <2>2, Zenon DEF FieldReady
  <2> QED
    BY <1>2, <1>8, <1>12, <2>2, <2>3, Zenon DEF AreaKept, g, head, tail, padding, size
<1>13. CASE Runs(g)
  <2>0. g.capacity \in Nat /\ g.size = m.size + (size + padding) /\ g.size <= g.capacity
    <3>1. g.capacity \in Nat
      BY <1>8 DEF Fits
    <3> QED
      BY <3>1, <1>6, <1>13, Zenon
  <2> DEFINE b == m.size
             o == b + h + n
  <2>1. b \in Nat /\ h \in Nat /\ n \in Nat /\ t \in Nat /\ size + padding = h + n + t /\ p2.off = o
    BY <1>4, <1>5, <1>9, Zenon
  <2>2. g.size = b + (size + padding) /\ g.capacity \in Nat /\ g.size <= g.capacity
    BY <2>0
  <2>3. /\ p.off = b /\ p.gen = g.gen /\ Len(head) = h /\ Len(tail) = t
        /\ head \in Seq(Char) /\ tail \in Seq(Char)
    BY <1>3, <1>6, Zenon DEF h, t
  <2> HIDE DEF b
  <2>4. g.size = o + t /\ b + h <= g.capacity /\ o + t <= g.capacity /\ o \in Nat /\ b + h <= o
    BY <2>1, <2>2
  <2>50. o = b + h + n
    OBVIOUS
  <2> HIDE DEF o
  <2>5. /\ Fits(u) /\ Runs(u) /\ u.size = g.size /\ u.capacity = g.capacity /\ u.gen = g.gen
        /\ u.faults = g.faults
    BY <1>3, <1>8, <1>13, <2>1, <2>3, <2>4, StoreIn, SMT
  <2>6. Holds(u, b, head)
    BY <1>3, <1>8, <1>13, <2>1, <2>3, <2>4, StoreHolds, Zenon
  <2>7. \A i \in 0..(g.capacity - 1) :
          u.cells[i] = IF b <= i /\ i < b + h THEN head[i - b + 1] ELSE g.cells[i]
    BY <1>3, <1>8, <1>13, <2>1, <2>3, <2>4, StoreIn, SMT
  <2> HIDE DEF u
  <2>8. p2.gen = u.gen /\ o + t <= u.capacity /\ b + h <= u.capacity
    BY <1>7, <2>4, <2>5, Zenon
  <2>9. /\ Fits(w) /\ Runs(w) /\ w.size = u.size /\ w.capacity = u.capacity /\ w.gen = u.gen
        /\ w.faults = u.faults
    BY <1>3, <2>1, <2>3, <2>4, <2>5, <2>8, StoreIn, SMT
  <2>10. \A i \in 0..(u.capacity - 1) :
          w.cells[i] = IF o <= i /\ i < o + t THEN tail[i - o + 1] ELSE u.cells[i]
    <3>1. Fits(u) /\ Runs(u)
      BY <2>5, Zenon
    <3> QED
      BY <2>1, <2>3, <2>4, <2>8, <3>1, StoreIn
  <2>11. Holds(w, o, tail)
    BY <1>3, <2>1, <2>3, <2>4, <2>5, <2>8, StoreHolds, Zenon
  <2>12. Holds(w, b, head)
    BY <1>3, <2>1, <2>3, <2>4, <2>5, <2>6, <2>8, StoreLeaves, Zenon
  <2> HIDE DEF w
  <2>13. ASSUME NEW i \in (b + h)..(b + h + n - 1)
         PROVE  w.cells[i] = g.cells[i]
    <3>1. i \in 0..(g.capacity - 1) /\ ~(o <= i) /\ ~(i < b + h)
      BY <2>1, <2>2, <2>4, <2>50
    <3>2. i \in 0..(u.capacity - 1)
      BY <2>5, <3>1, Zenon
    <3> QED
      BY <2>7, <2>10, <3>1, <3>2, Zenon
  <2>14. w.faults = m.faults /\ w.size = b + h + n + t /\ q.gen = w.gen
    BY <1>6, <1>7, <2>4, <2>5, <2>9, <2>50, Zenon
  <2>15. FieldReady(m, w, q, head, n, tail)
    <3>1. q.off = b + h + n - 1 /\ IsPointer(q) /\ Holds(w, b + h + n, tail)
      BY <1>7, <1>9, <2>11, <2>50, Zenon DEF b
    <3> QED
      BY <1>11, <2>12, <2>14, <3>1, Zenon DEF FieldReady, h, t, b
  <2> QED
    BY <1>2, <1>8, <1>13, <2>5, <2>9, <2>13, <2>15, Zenon DEF AreaKept, g, head, tail, padding, size, h, b
<1> QED
  BY <1>12, <1>13, Zenon

\* prepare_int_buffer() without precision returns a pointer to the last digit of a field that is filled around it.
LEMMA FieldPrepared ==
  ASSUME NEW m, Fits(m), NEW n \in Nat, NEW spec, spec.width \in Nat, spec.fill \in Char,
         NEW prefix \in Seq(Char)
  PROVE  LET r == PrepareField(m, n, spec, prefix)
         IN  FieldReady(m, r.m, r.p, FieldHead(n, spec, prefix), n, FieldTail(n, spec, prefix))
BY PrepareFieldReady, Zenon

\* A field behind a text is a field whose head begins with the text.
LEMMA FieldBehind ==
  ASSUME NEW m, Fits(m), NEW s \in Seq(Char), NEW r, Appended(m, s, r),
         NEW head \in Seq(Char), NEW n \in Nat, NEW tail \in Seq(Char),
         NEW w, NEW q, FieldReady(r, w, q, head, n, tail)
  PROVE  FieldReady(m, w, q, s \o head, n, tail)
<1> DEFINE b == m.size
           l == Len(s)
           h == Len(head)
           t == Len(tail)
           c == r.size
<1>1. b \in Nat /\ l \in Nat /\ h \in Nat /\ t \in Nat
  BY LenProperties DEF Fits
<1>2. s \o head \in Seq(Char) /\ Len(s \o head) = l + h
  BY Joined
<1>3. From(m, r) /\ r.faults = m.faults /\ From(r, w) /\ w.faults = r.faults /\ IsPointer(q)
  BY Zenon DEF Appended, FieldReady
<1>4. From(m, w)
  BY <1>3, FromChain, Zenon
<1>5. ASSUME Runs(w)
      PROVE  /\ w.size = b + Len(s \o head) + n + t
             /\ q.off = b + Len(s \o head) + n - 1 /\ q.gen = w.gen
             /\ Holds(w, b, s \o head) /\ Holds(w, b + Len(s \o head) + n, tail)
  <2>1. Runs(r)
    BY <1>3, <1>5, Zenon DEF From, Idle
  <2>2. /\ c = b + l /\ Holds(r, b, s)
        /\ w.size = c + h + n + t /\ q.off = c + h + n - 1 /\ q.gen = w.gen
        /\ Holds(w, c, head) /\ Holds(w, c + h + n, tail)
    BY <1>5, <2>1, Zenon DEF Appended, FieldReady, Holds
  <2> HIDE DEF b, l, h, t, c
  <2>3. c \in Nat /\ b + l <= c /\ b + l = c
    BY <1>1, <2>2
  <2>4. Holds(w, b, s)
    BY <1>1, <1>3, <2>2, <2>3, FromHolds, Zenon DEF c, l
  <2>5. Holds(w, b, s \o head)
    BY <1>1, <2>2, <2>3, <2>4, HoldsJoined, Zenon DEF l
  <2>6. /\ b + (l + h) + n = c + h + n /\ b + (l + h) + n + t = c + h + n + t
        /\ b + (l + h) + n - 1 = c + h + n - 1
    BY <1>1, <2>3
  <2> QED
    BY <1>2, <2>2, <2>5, <2>6, Zenon
<1> QED
  BY <1>3, <1>4, <1>5, Zenon DEF FieldReady

\* reserve() appends nothing.
LEMMA ReserveAppended ==
  ASSUME NEW m, Fits(m), NEW n \in Nat
  PROVE  /\ Appended(m, <<>>, Reserve(m, n))
         /\ Reserve(m, n).size = m.size
<1>1. CASE Runs(m)
  <2> DEFINE r == Reserve(m, n)
  <2>1. From(m, r) /\ r.faults = m.faults /\ r.size = m.size
    BY <1>1, ReserveCells, Zenon
  <2> HIDE DEF r
  <2>2. r.size = m.size + Len(<<>>)
    <3>1. m.size \in Nat
      BY DEF Fits
    <3> QED
      BY <2>1, <3>1
  <2>3. ASSUME NEW i \in 1..Len(<<>>) PROVE FALSE
    BY EmptyText
  <2> QED
    BY <2>1, <2>2, <2>3, Zenon DEF Appended, r
<1>2. CASE ~Runs(m)
  <2>1. Reserve(m, n) = m
    BY <1>2, Zenon DEF Reserve, Runs
  <2> QED
    BY <1>2, <2>1, AppendedIdle, Zenon
<1> QED
  BY <1>1, <1>2, Zenon

-----------------------------------------------------------------------------
(* prepare_int_buffer()                                                    *)

\* The zero is a character.
LEMMA ZeroIsChar == "0" \in Char
<1>1. Digits[1] = "0"
  BY DEF Digits
<1>2. 1 \in 1..16
  OBVIOUS
<1> QED
  BY <1>1, <1>2, MarksAreChars, Zenon

\* The prefix of a number with a precision: a last zero is one of the zeros that follow.
Shown(prefix) == IF prefix # <<>> /\ prefix[Len(prefix)] = "0"
                 THEN SubSeq(prefix, 1, Len(prefix) - 1) ELSE prefix

\* What is shown of a prefix is a text.
LEMMA ShownSeq ==
  ASSUME NEW prefix \in Seq(Char)
  PROVE  Shown(prefix) \in Seq(Char)
<1>1. CASE prefix # <<>>
  <2>1. Len(prefix) \in Nat /\ Len(prefix) # 0
    BY <1>1, EmptySeq
  <2>2. SubSeq(prefix, 1, Len(prefix) - 1) \in Seq(Char)
    BY <2>1, SubSeqProperties
  <2> QED
    BY <2>2, Zenon DEF Shown
<1>2. CASE prefix = <<>>
  BY <1>2, Zenon DEF Shown
<1> QED
  BY <1>1, <1>2, Zenon

\* The specification of the number inside the field.
SubSpec(spec, number) ==
  [spec EXCEPT !.width = number, !.fill = "0", !.align = "numeric", !.precision = -1]

\* The field within a field: filled with zeros behind its prefix.
LEMMA SubSpecFields ==
  ASSUME NEW spec, IsSpec(spec), NEW number
  PROVE  LET sub == SubSpec(spec, number)
         IN  sub.width = number /\ sub.fill = "0" /\ sub.align = "numeric"
BY DEF IsSpec, SubSpec

\* Such a number is its prefix and zeros up to the precision.
LEMMA SubField ==
  ASSUME NEW n \in Nat, NEW spec, IsSpec(spec), NEW shown \in Seq(Char), n < spec.precision
  PROVE  LET sub == SubSpec(spec, Len(shown) + spec.precision)
         IN  /\ sub.width \in Nat /\ sub.fill \in Char
             /\ FieldHead(n, sub, shown) = shown \o Rep("0", spec.precision - n)
             /\ FieldTail(n, sub, shown) = <<>>
             /\ FieldPadding(n, sub, shown) = spec.precision - n
<1> DEFINE number == Len(shown) + spec.precision
           sub == SubSpec(spec, number)
<1>1. sub.width = number /\ sub.fill = "0" /\ sub.align = "numeric"
  BY SubSpecFields, Zenon
<1>2. Len(shown) \in Nat /\ spec.precision \in Int
  BY LenProperties DEF IsSpec
<1>3. number \in Nat /\ Max2(0, number - (Len(shown) + n)) = spec.precision - n /\ spec.precision - n \in Nat
  BY <1>2 DEF Max2
<1> HIDE DEF sub
<1>4. FieldPadding(n, sub, shown) = spec.precision - n
  BY <1>1, <1>3, Zenon DEF FieldPadding
<1>5. "numeric" # "left" /\ "numeric" # "center"
  OBVIOUS
<1>6. FieldLeft(n, sub, shown) = spec.precision - n
  BY <1>1, <1>4, <1>5, Zenon DEF FieldLeft
<1>7. FieldHead(n, sub, shown) = shown \o Rep("0", spec.precision - n)
  BY <1>1, <1>6, Zenon DEF FieldHead
<1>8. FieldTail(n, sub, shown) = <<>>
  <2>1. (spec.precision - n) - (spec.precision - n) = 0
    BY <1>3
  <2>2. FieldTail(n, sub, shown) = Rep("0", 0)
    BY <1>1, <1>4, <1>6, <2>1, Zenon DEF FieldTail
  <2> QED
    BY <2>2, ZeroIsChar, RepSeq
<1> QED
  BY <1>1, <1>3, <1>4, <1>7, <1>8, ZeroIsChar, Zenon DEF sub

\* The number of characters of a number with a precision, and its prefix and zeros.
NumberSize(spec, prefix) == Len(Shown(prefix)) + spec.precision
NumberHead(n, spec, prefix) == Shown(prefix) \o Rep("0", spec.precision - n)

\* What the definition does, case by case.
LEMMA PrepareIntCases ==
  ASSUME NEW m, NEW n \in Nat, NEW spec, IsSpec(spec), NEW prefix \in Seq(Char)
  PROVE  LET r == PrepareIntBuffer(m, n, spec, prefix)
             shown == Shown(prefix)
             number == NumberSize(spec, prefix)
             sub == SubSpec(spec, number)
             ready == Reserve(m, spec.width)
             rest == spec.width - number
             before == Padded(ready, rest, spec.fill)
             later == PrepareField(before, n, sub, shown)
             field == PrepareField(ready, n, sub, shown)
         IN  /\ spec.precision <= n => r = PrepareField(m, n, spec, prefix)
             /\ n < spec.precision /\ spec.width <= number => r = PrepareField(m, n, sub, shown)
             /\ n < spec.precision /\ number < spec.width /\ spec.align # "left" =>
                  r = [m |-> later.m, p |-> later.p]
             /\ n < spec.precision /\ number < spec.width /\ spec.align = "left" =>
                  r = [m |-> Padded(field.m, rest, spec.fill), p |-> field.p]
<1> DEFINE r == PrepareIntBuffer(m, n, spec, prefix)
           shown == Shown(prefix)
           number == NumberSize(spec, prefix)
           sub == SubSpec(spec, number)
           ready == Reserve(m, spec.width)
           rest == spec.width - number
           before == IF spec.align = "left" THEN ready ELSE Padded(ready, rest, spec.fill)
           field == PrepareField(before, n, sub, shown)
<1>1. r = CASE spec.precision <= n -> PrepareField(m, n, spec, prefix)
            [] spec.precision > n /\ number >= spec.width -> PrepareField(m, n, sub, shown)
            [] OTHER -> [m |-> IF spec.align = "left" THEN Padded(field.m, rest, spec.fill)
                                ELSE field.m,
                         p |-> field.p]
  BY Zenon DEF PrepareIntBuffer, Shown, NumberSize, SubSpec
<1>2. number \in Int /\ spec.precision \in Int /\ spec.width \in Nat
  BY ShownSeq, LenProperties DEF NumberSize, IsSpec
<1> HIDE DEF r, field, number, sub
<1>3. ASSUME spec.precision <= n
      PROVE  r = PrepareField(m, n, spec, prefix)
  <2>1. ~(spec.precision > n)
    BY <1>2, <1>3
  <2> QED
    BY <1>1, <1>3, <2>1, Zenon
<1>4. ASSUME n < spec.precision, spec.width <= number
      PROVE  r = PrepareField(m, n, sub, shown)
  <2>1. ~(spec.precision <= n) /\ spec.precision > n /\ number >= spec.width
    BY <1>2, <1>4
  <2> QED
    BY <1>1, <2>1, Zenon
<1>5. ASSUME n < spec.precision, number < spec.width
      PROVE  r = [m |-> IF spec.align = "left" THEN Padded(field.m, rest, spec.fill) ELSE field.m,
                  p |-> field.p]
  <2>1. ~(spec.precision <= n) /\ ~(spec.precision > n /\ number >= spec.width)
    BY <1>2, <1>5
  <2> QED
    BY <1>1, <2>1, Zenon
<1> QED
  BY <1>3, <1>4, <1>5, Zenon DEF r, field, number, sub

\* With a precision and padding on the left, the field for the digits is prepared behind the padding.
LEMMA PrepareIntRight ==
  ASSUME NEW m, NEW n \in Nat, NEW spec, IsSpec(spec), NEW prefix \in Seq(Char),
         n < spec.precision, NumberSize(spec, prefix) < spec.width, spec.align # "left"
  PROVE  LET rest == spec.width - NumberSize(spec, prefix)
             later == PrepareField(Padded(Reserve(m, spec.width), rest, spec.fill), n,
                                   SubSpec(spec, NumberSize(spec, prefix)), Shown(prefix))
         IN  PrepareIntBuffer(m, n, spec, prefix) = [m |-> later.m, p |-> later.p]
BY PrepareIntCases

\* With a precision and padding on the right, the padding comes after the pointer was taken.
LEMMA PrepareIntLeft ==
  ASSUME NEW m, NEW n \in Nat, NEW spec, IsSpec(spec), NEW prefix \in Seq(Char),
         n < spec.precision, NumberSize(spec, prefix) < spec.width, spec.align = "left"
  PROVE  LET rest == spec.width - NumberSize(spec, prefix)
             field == PrepareField(Reserve(m, spec.width), n,
                                   SubSpec(spec, NumberSize(spec, prefix)), Shown(prefix))
         IN  PrepareIntBuffer(m, n, spec, prefix) = [m |-> Padded(field.m, rest, spec.fill), p |-> field.p]
BY PrepareIntCases

\* A number whose digits are as many as the precision asks for takes its field.
LEMMA PrepareIntPlain ==
  ASSUME NEW m, NEW n \in Nat, NEW spec, IsSpec(spec), NEW prefix \in Seq(Char), spec.precision <= n
  PROVE  PrepareIntBuffer(m, n, spec, prefix) = PrepareField(m, n, spec, prefix)
BY PrepareIntCases

\* What stands in front of the digits of an integer, and behind them.
PadsAfter(n, spec, prefix) ==
  n < spec.precision /\ NumberSize(spec, prefix) < spec.width /\ spec.align = "left"

\* The texts that stand before the digits of an integer, and behind them.
IntHead(n, spec, prefix) ==
  IF spec.precision <= n THEN FieldHead(n, spec, prefix)
  ELSE IF spec.width <= NumberSize(spec, prefix) \/ spec.align = "left"
  THEN NumberHead(n, spec, prefix)
  ELSE Rep(spec.fill, spec.width - NumberSize(spec, prefix)) \o NumberHead(n, spec, prefix)

IntTail(n, spec, prefix) ==
  IF spec.precision <= n THEN FieldTail(n, spec, prefix)
  ELSE IF spec.width <= NumberSize(spec, prefix) \/ spec.align # "left" THEN <<>>
  ELSE Rep(spec.fill, spec.width - NumberSize(spec, prefix))

\* With a precision: the sizes, and the texts.
LEMMA NumberParts ==
  ASSUME NEW n \in Nat, NEW spec, IsSpec(spec), NEW prefix \in Seq(Char), n < spec.precision
  PROVE  LET number == NumberSize(spec, prefix)
             head == NumberHead(n, spec, prefix)
             sub == SubSpec(spec, number)
         IN  /\ number \in Nat /\ Shown(prefix) \in Seq(Char)
             /\ head \in Seq(Char) /\ Len(head) + n = number
             /\ sub.width \in Nat /\ sub.fill \in Char
             /\ FieldHead(n, sub, Shown(prefix)) = head
             /\ FieldTail(n, sub, Shown(prefix)) = <<>>
             /\ (Len(Shown(prefix)) + n) + FieldPadding(n, sub, Shown(prefix)) = number
<1> DEFINE number == NumberSize(spec, prefix)
           head == NumberHead(n, spec, prefix)
           sub == SubSpec(spec, number)
           shown == Shown(prefix)
           zeros == Rep("0", spec.precision - n)
<1>1. shown \in Seq(Char)
  BY ShownSeq, Zenon
<1>2. Len(shown) \in Nat /\ spec.precision \in Int /\ number = Len(shown) + spec.precision
  BY <1>1, LenProperties DEF IsSpec, NumberSize
<1>3. spec.precision - n \in Nat
  BY <1>2
<1>4. zeros \in Seq(Char) /\ Len(zeros) = spec.precision - n
  BY <1>3, ZeroIsChar, RepSeq, Zenon
<1>5. head = shown \o zeros
  BY Zenon DEF NumberHead
<1> HIDE DEF zeros, head
<1>6. head \in Seq(Char) /\ Len(head) = Len(shown) + (spec.precision - n)
  BY <1>1, <1>4, <1>5, Joined, Zenon
<1>7. /\ sub.width \in Nat /\ sub.fill \in Char
      /\ FieldHead(n, sub, shown) = shown \o zeros
      /\ FieldTail(n, sub, shown) = <<>>
      /\ FieldPadding(n, sub, shown) = spec.precision - n
  BY <1>1, SubField, Zenon DEF zeros, number, NumberSize
<1> HIDE DEF number, sub
<1> DEFINE a == Len(shown)
<1> HIDE DEF a
<1>80. a \in Nat /\ number = a + spec.precision /\ Len(head) = a + (spec.precision - n)
       /\ spec.precision \in Int
  BY <1>2, <1>6, Zenon DEF a
<1> HIDE DEF shown
<1>81. number \in Nat /\ Len(head) + n = number /\ (a + n) + (spec.precision - n) = number
  BY <1>80
<1>8. number \in Nat /\ Len(head) + n = number /\ (Len(shown) + n) + (spec.precision - n) = number
  BY <1>81, Zenon DEF a
<1> QED
  BY <1>1, <1>5, <1>6, <1>7, <1>8, Zenon DEF number, shown, sub, head

\* An integer's area, unless the padding on the right comes after the pointer was taken.
LEMMA PrepareIntReady ==
  ASSUME NEW m, Fits(m), NEW n \in Nat, NEW spec, IsSpec(spec), NEW prefix \in Seq(Char),
         ~PadsAfter(n, spec, prefix)
  PROVE  LET r == PrepareIntBuffer(m, n, spec, prefix)
         IN  FieldReady(m, r.m, r.p, IntHead(n, spec, prefix), n, IntTail(n, spec, prefix))
<1> DEFINE number == NumberSize(spec, prefix)
           head == NumberHead(n, spec, prefix)
           sub == SubSpec(spec, number)
           shown == Shown(prefix)
           r == PrepareIntBuffer(m, n, spec, prefix)
<1>0. spec.width \in Nat /\ spec.precision \in Int /\ spec.fill \in Char
  BY Zenon DEF IsSpec
<1>1. CASE spec.precision <= n
  <2>1. r = PrepareField(m, n, spec, prefix)
    BY <1>1, PrepareIntCases, Zenon
  <2> HIDE DEF r
  <2>2. FieldReady(m, r.m, r.p, FieldHead(n, spec, prefix), n, FieldTail(n, spec, prefix))
    BY <1>0, <2>1, FieldPrepared, Zenon
  <2> QED
    BY <1>1, <2>2, Zenon DEF IntHead, IntTail, r
<1>2. CASE ~(spec.precision <= n)
  <2>1. n < spec.precision
    BY <1>0, <1>2
  <2>2. /\ number \in Nat /\ shown \in Seq(Char) /\ head \in Seq(Char) /\ Len(head) + n = number
        /\ sub.width \in Nat /\ sub.fill \in Char
        /\ FieldHead(n, sub, shown) = head /\ FieldTail(n, sub, shown) = <<>>
    BY <2>1, NumberParts, Zenon
  <2>3. CASE spec.width <= number
    <3>1. r = PrepareField(m, n, sub, shown)
      BY <2>1, <2>3, PrepareIntCases, Zenon
    <3> HIDE DEF r, sub, shown, head, number
    <3> DEFINE f == PrepareField(m, n, sub, shown)
    <3>20. FieldReady(m, f.m, f.p, FieldHead(n, sub, shown), n, FieldTail(n, sub, shown))
      BY <2>2, FieldPrepared, Zenon
    <3>2. FieldReady(m, r.m, r.p, head, n, <<>>)
      BY <2>2, <3>1, <3>20, Zenon
    <3> QED
      BY <1>2, <2>3, <3>2, Zenon DEF IntHead, IntTail, r, head, number
  <2>4. CASE ~(spec.width <= number)
    <3>1. number < spec.width
      BY <1>0, <2>2, <2>4
    <3>2. spec.align # "left"
      BY <2>1, <3>1, Zenon DEF PadsAfter
    <3> DEFINE ready == Reserve(m, spec.width)
               rest == spec.width - number
               before == Padded(ready, rest, spec.fill)
               later == PrepareField(before, n, sub, shown)
               pad == Rep(spec.fill, rest)
    <3>3. r = [m |-> later.m, p |-> later.p]
      BY <2>1, <3>1, <3>2, PrepareIntRight, Zenon
    <3>4. r.m = later.m /\ r.p = later.p
      BY <3>3
    <3> HIDE DEF r, sub, shown, head, number
    <3>5. rest \in Nat
      BY <1>0, <2>2, <3>1
    <3>6. pad \in Seq(Char)
      BY <1>0, <3>5, RepSeq, Zenon
    <3>7. Appended(m, <<>>, ready)
      BY <1>0, ReserveAppended, Zenon
    <3>8. Fits(ready)
      BY <3>7, FromFits, Zenon DEF Appended
    <3>9. Appended(ready, pad, before)
      BY <1>0, <3>5, <3>8, PaddedAppended, Zenon
    <3>10. Fits(before)
      BY <3>9, FromFits, Zenon DEF Appended
    <3> HIDE DEF ready, rest, pad
    <3>110. FieldReady(before, later.m, later.p, FieldHead(n, sub, shown), n, FieldTail(n, sub, shown))
      BY <2>2, <3>10, FieldPrepared, Zenon
    <3>11. FieldReady(before, later.m, later.p, head, n, <<>>)
      BY <2>2, <3>110, Zenon
    <3> HIDE DEF before, later
    <3>12. <<>> \in Seq(Char) /\ <<>> \o pad = pad
      BY <3>6, EmptyText, Joins
    <3>13. Appended(m, pad, before)
      BY <3>6, <3>7, <3>9, <3>12, AppendedChain, Zenon
    <3>14. FieldReady(m, r.m, r.p, pad \o head, n, <<>>)
      BY <2>2, <3>4, <3>6, <3>11, <3>12, <3>13, FieldBehind, Zenon
    <3> QED
      BY <1>2, <2>4, <3>2, <3>14, Zenon DEF IntHead, IntTail, r, head, number, pad, rest
  <2> QED
    BY <2>3, <2>4, Zenon
<1> QED
  BY <1>1, <1>2, Zenon

-----------------------------------------------------------------------------
(* Padding on the right of a number with a precision                       *)

\* The capacity after a growth to k cells, if there was need of one.
Room(m, k) == IF k <= m.capacity THEN m.capacity ELSE Max2(k, m.capacity + m.capacity \div 2)

\* Nothing stands behind the text.
Blank(m) == \A i \in m.size..(m.capacity - 1) : m.cells[i] = JUNK

\* The capacity that a reserve() leaves; blank cells stay blank.
LEMMA ReserveRoom ==
  ASSUME NEW m, Fits(m), NEW n \in Nat, Runs(Reserve(m, n))
  PROVE  LET r == Reserve(m, n)
         IN  r.capacity = Room(m, n) /\ (Blank(m) => Blank(r))
<1> DEFINE r == Reserve(m, n)
<1>0. m.capacity \in Nat /\ m.size \in Nat /\ m.size <= m.capacity
  BY DEF Fits
<1>1. Runs(m)
  <2>1. CASE ~Runs(m)
    <3>1. r = m
      BY <2>1, Zenon DEF Reserve, Runs
    <3> QED
      BY <3>1, <2>1, Zenon
  <2> QED
    BY <2>1, Zenon
<1>2. CASE n <= m.capacity
  <2>1. r = m
    BY <1>1, <1>2, ReserveCells, Zenon
  <2> QED
    BY <1>2, <2>1, Zenon DEF Room
<1>3. CASE ~(n <= m.capacity)
  <2>1. m.capacity < n /\ n > m.capacity
    BY <1>0, <1>3
  <2> DEFINE g == Grow(m, n)
             room == Max2(n, m.capacity + m.capacity \div 2)
  <2>2. r = g
    BY <1>1, <2>1, ReserveCells, Zenon
  <2>3. /\ g.size = m.size /\ g.capacity = room
        /\ \A i \in 0..(room - 1) : g.cells[i] = IF i < m.size THEN m.cells[i] ELSE JUNK
    BY <1>1, <2>1, <2>2, GrowCells, Zenon
  <2>4. room \in Nat
    BY <1>0, GrowthRoom
  <2> HIDE DEF g, room, r
  <2>5. ASSUME NEW i \in m.size..(room - 1)
        PROVE  i \in 0..(room - 1) /\ ~(i < m.size)
    BY <1>0, <2>4
  <2>6. Blank(r)
    BY <2>2, <2>3, <2>5, Zenon DEF Blank
  <2> QED
    BY <1>3, <2>2, <2>3, <2>6, Zenon DEF Room, room, r
<1> QED
  BY <1>2, <1>3, Zenon

\* The capacity that grow_buffer() leaves, and whether the block is another one.
LEMMA GrowRoom ==
  ASSUME NEW m, Fits(m), NEW n \in Nat, Runs(GrowBuffer(m, n))
  PROVE  LET g == GrowBuffer(m, n)
         IN  /\ g.capacity = Room(m, m.size + n)
             /\ m.size + n <= m.capacity => g.gen = m.gen
             /\ ~(m.size + n <= m.capacity) => g.gen = m.gen + 1
             /\ Blank(m) => \A i \in m.size..(g.capacity - 1) : g.cells[i] = JUNK
<1> DEFINE g == GrowBuffer(m, n)
           k == m.size + n
<1>0. m.capacity \in Nat /\ m.size \in Nat
  BY DEF Fits
<1>1. /\ k <= m.capacity => g.cells = m.cells /\ g.gen = m.gen /\ g.capacity = m.capacity
      /\ k > m.capacity => /\ g.gen = m.gen + 1
                           /\ g.capacity = Max2(k, m.capacity + m.capacity \div 2)
                           /\ \A i \in m.size..(g.capacity - 1) : g.cells[i] = JUNK
  BY GrowArea, Zenon
<1>2. ~(k <= m.capacity) => k > m.capacity
  BY <1>0
<1> HIDE DEF g, k
<1> QED
  BY <1>1, <1>2, Zenon DEF Room, Blank, g, k

\* The capacity after a field and what its cells for the digits hold.
LEMMA FieldRoom ==
  ASSUME NEW m, Fits(m), NEW n \in Nat, NEW spec, spec.width \in Nat, spec.fill \in Char,
         NEW prefix \in Seq(Char), NEW number \in Nat,
         (Len(prefix) + n) + FieldPadding(n, spec, prefix) = number,
         NEW head, FieldHead(n, spec, prefix) = head, NEW h \in Nat, Len(head) = h, h + n <= number,
         Runs(PrepareField(m, n, spec, prefix).m)
  PROVE  LET r == PrepareField(m, n, spec, prefix).m
         IN  /\ r.capacity = Room(m, m.size + number)
             /\ 0 < n /\ Blank(m) => r.cells[m.size + h] = JUNK
<1> DEFINE r == PrepareField(m, n, spec, prefix).m
           g == GrowBuffer(m, number)
           b == m.size
<1>1. AreaKept(g, r, b + h, n)
  BY PrepareFieldReady, Zenon
<1>2. /\ Runs(g) /\ Fits(g) /\ r.capacity = g.capacity
      /\ \A i \in (b + h)..(b + h + n - 1) : r.cells[i] = g.cells[i]
  BY <1>1, Zenon DEF AreaKept
<1>3. g.capacity = Room(m, b + number) /\ (Blank(m) => \A i \in b..(g.capacity - 1) : g.cells[i] = JUNK)
  BY <1>2, GrowRoom
<1>4. g.size = b + number /\ g.size <= g.capacity
  BY <1>2, GrowArea, Zenon
<1>5. b \in Nat /\ g.capacity \in Nat
  BY <1>2 DEF Fits
<1> HIDE DEF b, g, r
<1>6. ASSUME 0 < n, Blank(m)
      PROVE  r.cells[b + h] = JUNK
  <2>1. b + h \in (b + h)..(b + h + n - 1) /\ b + h \in b..(g.capacity - 1)
    BY <1>4, <1>5, <1>6
  <2> QED
    BY <1>2, <1>3, <1>6, <2>1, Zenon
<1> QED
  BY <1>2, <1>3, <1>6, Zenon DEF b, r

\* The field of head and n characters that has h characters in front and room for number.
IsFieldOf(n, spec, prefix, number, head, h) ==
  /\ n \in Nat /\ spec.width \in Nat /\ spec.fill \in Char /\ prefix \in Seq(Char) /\ number \in Nat
  /\ (Len(prefix) + n) + FieldPadding(n, spec, prefix) = number
  /\ FieldHead(n, spec, prefix) = head /\ h \in Nat /\ Len(head) = h /\ h + n <= number

\* It has its room at r, and nothing was written to the room for the n characters.
HasRoom(m, r, n, number, h) ==
  /\ r.capacity = Room(m, m.size + number)
  /\ 0 < n /\ Blank(m) => r.cells[m.size + h] = JUNK

\* A field that is prepared has its room.
LEMMA FieldHasRoom ==
  ASSUME NEW m, Fits(m), NEW n, NEW spec, NEW prefix, NEW number, NEW head, NEW h,
         IsFieldOf(n, spec, prefix, number, head, h), Runs(PrepareField(m, n, spec, prefix).m)
  PROVE  HasRoom(m, PrepareField(m, n, spec, prefix).m, n, number, h)
<1>1. /\ n \in Nat /\ spec.width \in Nat /\ spec.fill \in Char /\ prefix \in Seq(Char) /\ number \in Nat
      /\ (Len(prefix) + n) + FieldPadding(n, spec, prefix) = number
      /\ FieldHead(n, spec, prefix) = head /\ h \in Nat /\ Len(head) = h /\ h + n <= number
  BY Zenon DEF IsFieldOf
<1> QED
  BY <1>1, FieldRoom, SMTT(30) DEF HasRoom

\* Padding moves the storage when it does not fit.
LEMMA PaddedGen ==
  ASSUME NEW m, Fits(m), NEW n \in Nat, NEW fill \in Char, Runs(Padded(m, n, fill))
  PROVE  LET w == Padded(m, n, fill)
         IN  /\ m.size + n <= m.capacity => w.gen = m.gen
             /\ ~(m.size + n <= m.capacity) => w.gen = m.gen + 1
<1> DEFINE g == GrowBuffer(m, n)
           p == AreaOf(m, g)
           s == Rep(fill, n)
           w == Put(g, p, s)
<1>1. Padded(m, n, fill) = w
  BY Zenon DEF Padded
<1>2. s \in Seq(Char)
  BY RepSeq, Zenon
<1>3. From(m, g) /\ p.off = m.size
  BY GrowArea, Zenon
<1>4. p.off \in Int /\ Fits(g)
  <2>1. Fits(g)
    BY <1>3, FromFits, Zenon
  <2> QED
    BY <1>3, <2>1 DEF Fits
<1> HIDE DEF g, p, s
<1>5. Runs(g)
  <2>1. CASE ~Runs(g)
    <3>1. w = g
      BY <2>1, PutIdle, Zenon
    <3> QED
      BY <1>1, <2>1, <3>1, Zenon
  <2> QED
    BY <2>1, Zenon
<1>6. w.gen = g.gen
  BY <1>2, <1>4, <1>5, PutCells, Zenon
<1>7. /\ m.size + n <= m.capacity => g.gen = m.gen
      /\ ~(m.size + n <= m.capacity) => g.gen = m.gen + 1
  BY <1>5, GrowRoom, Zenon DEF g
<1> QED
  BY <1>1, <1>6, <1>7, Zenon

\* What PrepareIntBuffer leaves when the padding stands on the right of a number with a
\* precision: a field for the digits, or a pointer to cells that were given up.
Fitted(m, number, width) ==
  LET reserved == Room(m, width)
  IN  IF m.size + number <= reserved THEN reserved
      ELSE Max2(m.size + number, reserved + reserved \div 2)

\* With padding on the right, the pointer is good if the buffer need not grow for it, and else leads to the block that was freed.
LEMMA PrepareIntPadded ==
  ASSUME NEW m, Fits(m), NEW n \in Nat, NEW spec, IsSpec(spec), NEW prefix \in Seq(Char),
         PadsAfter(n, spec, prefix)
  PROVE  LET r == PrepareIntBuffer(m, n, spec, prefix)
             number == NumberSize(spec, prefix)
             head == NumberHead(n, spec, prefix)
             pad == Rep(spec.fill, spec.width - number)
         IN  /\ From(m, r.m) /\ r.m.faults = m.faults /\ IsPointer(r.p)
             /\ Runs(r.m) => /\ r.m.size = m.size + spec.width
                             /\ r.p.off = m.size + Len(head) + n - 1
             /\ Runs(r.m) /\ m.size + spec.width <= Fitted(m, number, spec.width) =>
                  FieldReady(m, r.m, r.p, head, n, pad)
             /\ Runs(r.m) /\ ~(m.size + spec.width <= Fitted(m, number, spec.width)) =>
                  /\ r.p.gen # r.m.gen
                  /\ 0 < n /\ Blank(m) => r.m.cells[m.size + Len(head)] = JUNK
<1> DEFINE number == NumberSize(spec, prefix)
           head == NumberHead(n, spec, prefix)
           sub == SubSpec(spec, number)
           shown == Shown(prefix)
           rest == spec.width - number
           pad == Rep(spec.fill, rest)
           ready == Reserve(m, spec.width)
           field == PrepareField(ready, n, sub, shown)
           f == field.m
           q == field.p
           w == Padded(f, rest, spec.fill)
           r == PrepareIntBuffer(m, n, spec, prefix)
           b == m.size
           h == Len(head)
           width == spec.width
<1>0. width \in Nat /\ spec.precision \in Int /\ spec.fill \in Char
  BY Zenon DEF IsSpec
<1>1. n < spec.precision /\ number < width /\ spec.align = "left"
  BY Zenon DEF PadsAfter
<1>2. /\ number \in Nat /\ shown \in Seq(Char) /\ head \in Seq(Char) /\ h + n = number
      /\ sub.width \in Nat /\ sub.fill \in Char
      /\ FieldHead(n, sub, shown) = head /\ FieldTail(n, sub, shown) = <<>>
      /\ (Len(shown) + n) + FieldPadding(n, sub, shown) = number
  BY <1>1, NumberParts, Zenon
<1>3. r = [m |-> w, p |-> q]
  BY <1>1, PrepareIntLeft, Zenon
<1>4. r.m = w /\ r.p = q
  BY <1>3
<1>5. h \in Nat
  BY <1>2, LenProperties, Zenon
<1> HIDE DEF r, head, sub, shown, number
<1>6. rest \in Nat /\ number + rest = width /\ b \in Nat
  <2>1. b \in Nat
    BY Zenon DEF Fits
  <2>2. number \in Nat /\ width \in Nat /\ number < width
    BY <1>0, <1>1, <1>2, Zenon
  <2>3. rest = width - number
    BY Zenon
  <2> HIDE DEF rest, width, b
  <2>4. rest \in Nat /\ number + rest = width
    BY <2>2, <2>3
  <2> QED
    BY <2>1, <2>4, Zenon
<1>7. pad \in Seq(Char) /\ Len(pad) = rest
  BY <1>0, <1>6, RepSeq, Zenon
<1>8. Appended(m, <<>>, ready) /\ ready.size = b
  BY <1>0, ReserveAppended, Zenon
<1>9. Fits(ready)
  BY <1>8, FromFits, Zenon DEF Appended
<1> HIDE DEF rest, pad, ready
<1>10. FieldReady(ready, f, q, FieldHead(n, sub, shown), n, FieldTail(n, sub, shown))
  BY <1>2, <1>9, FieldPrepared, Zenon
<1>11. FieldReady(ready, f, q, head, n, <<>>)
  BY <1>2, <1>10, Zenon
<1>12. <<>> \in Seq(Char) /\ <<>> \o head = head /\ Len(<<>>) = 0
  BY <1>2, EmptyText, Joins
<1> DEFINE none == <<>>
<1>13. FieldReady(m, f, q, none \o head, n, none)
  <2>1. none \in Seq(Char) /\ Appended(m, none, ready) /\ FieldReady(ready, f, q, head, n, none)
    BY <1>8, <1>11, <1>12, Zenon
  <2> HIDE DEF none, field
  <2> QED
    BY <1>2, <2>1, FieldBehind, Zenon
<1>14. FieldReady(m, f, q, head, n, <<>>)
  BY <1>12, <1>13, Zenon
<1>15. /\ From(m, f) /\ f.faults = m.faults /\ IsPointer(q)
       /\ Runs(f) => /\ f.size = b + h + n + 0 /\ q.off = b + h + n - 1 /\ q.gen = f.gen
                     /\ Holds(f, b, head)
  BY <1>12, <1>14, Zenon DEF FieldReady
<1>16. Fits(f)
  BY <1>15, FromFits, Zenon
<1> HIDE DEF field, f, q, w
<1>17. Appended(f, pad, w)
  BY <1>0, <1>6, <1>16, PaddedAppended, Zenon DEF pad, w
<1>18. From(f, w) /\ w.faults = f.faults
       /\ (Runs(w) => w.size = f.size + rest /\ Holds(w, f.size, pad))
  BY <1>7, <1>17, Zenon DEF Appended, Holds
<1>19. From(m, w) /\ w.faults = m.faults
  BY <1>15, <1>18, FromChain, Zenon
<1>20. CASE ~Runs(w)
  BY <1>4, <1>15, <1>19, <1>20, Zenon DEF r
<1>21. CASE Runs(w)
  <2>1. Runs(f)
    BY <1>18, <1>21, Zenon DEF From, Idle
  <2>2. Runs(ready)
    BY <1>11, <2>1, Zenon DEF FieldReady, From, Idle
  <2>3. f.size = b + h + n + 0 /\ q.off = b + h + n - 1 /\ q.gen = f.gen /\ Holds(f, b, head)
        /\ w.size = f.size + rest /\ Holds(w, f.size, pad)
    BY <1>15, <1>18, <1>21, <2>1, Zenon
  <2> HIDE DEF b, h, width
  <2>4. f.size = b + number /\ w.size = b + width /\ f.size \in Nat /\ b + h <= f.size
        /\ f.size = b + h + n /\ w.size = b + h + n + rest
    <3>1. /\ number \in Nat /\ h + n = number /\ h \in Nat /\ rest \in Nat /\ number + rest = width /\ b \in Nat
          /\ f.size = b + h + n + 0 /\ w.size = f.size + rest
      BY <1>2, <1>5, <1>6, <2>3, Zenon
    <3> QED
      BY <3>1
  <2>5. Holds(w, b, head)
    BY <1>5, <1>6, <1>18, <2>3, <2>4, FromHolds, Zenon DEF h
  <2>6. ready.capacity = Room(m, width) /\ (Blank(m) => Blank(ready))
    BY <1>0, <2>2, ReserveRoom, Zenon DEF ready, width
  <2>7. f.capacity = Room(ready, b + number) /\ (0 < n /\ Blank(ready) => f.cells[b + h] = JUNK)
    <3>0. number \in Nat /\ h + n = number /\ h \in Nat
      BY <1>2, <1>5, Zenon
    <3>00. h + n <= number
      BY <3>0
    <3>1. Runs(PrepareField(ready, n, sub, shown).m) /\ h + n <= number /\ Len(head) = h
      BY <2>1, <3>00, Zenon DEF f, field, h
    <3>2. IsFieldOf(n, sub, shown, number, head, h)
      BY <1>2, <3>0, <3>1, Zenon DEF IsFieldOf
    <3>3. HasRoom(ready, f, n, number, h)
      BY <1>9, <3>1, <3>2, FieldHasRoom, Zenon DEF f, field
    <3> QED
      BY <1>8, <3>3, Zenon DEF HasRoom
  <2>8. f.capacity = Fitted(m, number, width)
    BY <2>6, <2>7, Zenon DEF Fitted, Room, b
  <2>9. /\ f.size + rest <= f.capacity => w.gen = f.gen
        /\ ~(f.size + rest <= f.capacity) => w.gen = f.gen + 1
    BY <1>0, <1>6, <1>16, <1>21, PaddedGen, Zenon DEF w
  <2>10. f.size + rest = b + width
    BY <1>2, <1>6, <2>4
  <2>11. ASSUME b + width <= Fitted(m, number, width)
         PROVE  FieldReady(m, w, q, head, n, pad)
    <3>1. q.gen = w.gen
      BY <2>3, <2>8, <2>9, <2>10, <2>11, Zenon
    <3>2. w.size = b + h + n + rest /\ q.off = b + h + n - 1 /\ Holds(w, b + h + n, pad)
      BY <2>3, <2>4, Zenon
    <3> QED
      BY <1>7, <1>15, <1>19, <2>5, <3>1, <3>2, Zenon DEF FieldReady, b, h
  <2>12. ASSUME ~(b + width <= Fitted(m, number, width))
         PROVE  q.gen # w.gen /\ (0 < n /\ Blank(m) => w.cells[b + h] = JUNK)
    <3>1. w.gen = f.gen + 1 /\ q.gen = f.gen
      BY <2>3, <2>8, <2>9, <2>10, <2>12, Zenon
    <3>2. f.gen \in Nat
      BY <1>16 DEF Fits
    <3>3. q.gen # w.gen
      BY <3>1, <3>2
    <3>4. ASSUME 0 < n
          PROVE  b + h \in 0..(f.size - 1)
      BY <1>5, <1>6, <2>4, <3>4
    <3>5. \A i \in 0..(f.size - 1) : w.cells[i] = f.cells[i]
      BY <1>18, Zenon DEF From
    <3> QED
      BY <2>6, <2>7, <3>3, <3>4, <3>5, Zenon
  <2> QED
    BY <1>4, <1>15, <1>19, <1>21, <2>3, <2>4, <2>11, <2>12, Zenon DEF r, number, head, pad, rest, b, h, width
<1> QED
  BY <1>20, <1>21, Zenon

-----------------------------------------------------------------------------
(* Numerals                                                                *)

\* The order by which a least number is found.
Less == {e \in Nat \X Nat : e[1] < e[2]}

\* A set of natural numbers that is not empty has a least element.
LEMMA LeastNatural ==
  ASSUME NEW T \in SUBSET Nat, T # {}
  PROVE  \E x \in T : \A y \in T : ~(y < x)
<1>1. IsWellFoundedOn(Less, Nat)
  BY NatLessThanWellFounded DEF OpToRel, Less
<1>2. PICK x \in T : \A y \in T : ~(<<y, x>> \in Less)
  BY <1>1, WFMin
<1>3. \A y \in T : y < x => <<y, x>> \in Less
  BY DEF Less
<1> QED
  BY <1>2, <1>3

\* The numbers of statements: 15 bits and a sign.
Numbers == 0..MaxNumber

\* A power whose exponent the provers leave alone.
Pow(b, k) == b^k

\* What the proofs need of a base: its powers up to the first that is no number.
IsBase(b, top) ==
  /\ b \in Nat /\ 1 < b /\ b <= 16 /\ top \in 1..15
  /\ Pow(b, 0) = 1 /\ \A k \in 0..top : Pow(b, k) \in Nat /\ 0 < Pow(b, k)
  /\ \A k \in 0..(top - 1) : Pow(b, k + 1) = b * Pow(b, k)
  /\ MaxNumber < Pow(b, top)

\* The powers that bound the numbers of the model, one by one.
LEMMA Powers ==
  /\ Pow(2, 0) = 1 /\ Pow(2, 1) = 2 /\ Pow(2, 2) = 4 /\ Pow(2, 3) = 8 /\ Pow(2, 4) = 16
  /\ Pow(2, 5) = 32 /\ Pow(2, 6) = 64 /\ Pow(2, 7) = 128 /\ Pow(2, 8) = 256 /\ Pow(2, 9) = 512
  /\ Pow(2, 10) = 1024 /\ Pow(2, 11) = 2048 /\ Pow(2, 12) = 4096 /\ Pow(2, 13) = 8192
  /\ Pow(2, 14) = 16384 /\ Pow(2, 15) = 32768
  /\ Pow(8, 0) = 1 /\ Pow(8, 1) = 8 /\ Pow(8, 2) = 64 /\ Pow(8, 3) = 512 /\ Pow(8, 4) = 4096
  /\ Pow(8, 5) = 32768
  /\ Pow(16, 0) = 1 /\ Pow(16, 1) = 16 /\ Pow(16, 2) = 256 /\ Pow(16, 3) = 4096
  /\ Pow(16, 4) = 65536
  /\ Pow(10, 0) = 1 /\ Pow(10, 1) = 10 /\ Pow(10, 2) = 100 /\ Pow(10, 3) = 1000
  /\ Pow(10, 4) = 10000 /\ Pow(10, 5) = 100000
BY SMT DEF Pow

\* In every base the largest number has the digits that are given for it.
LEMMA Bases == IsBase(2, 15) /\ IsBase(8, 5) /\ IsBase(16, 4) /\ IsBase(10, 5)
<1>1. IsBase(2, 15)
  BY Powers, SMT DEF IsBase, MaxNumber
<1>2. IsBase(8, 5)
  BY Powers, SMT DEF IsBase, MaxNumber
<1>3. IsBase(16, 4)
  BY Powers, SMT DEF IsBase, MaxNumber
<1>4. IsBase(10, 5)
  BY Powers, SMT DEF IsBase, MaxNumber
<1> QED
  BY <1>1, <1>2, <1>3, <1>4

\* The number of digits.
SizeOf(n, b) == CHOOSE k \in 1..15 : n < Pow(b, k) /\ \A j \in 1..(k - 1) : Pow(b, j) <= n

\* A numeral has as many digits as are needed, and no more.
LEMMA SizeLeast ==
  ASSUME NEW b, NEW top, IsBase(b, top), NEW n \in Numbers
  PROVE  LET s == SizeOf(n, b)
         IN  s \in 1..top /\ n < Pow(b, s) /\ \A j \in 1..(s - 1) : Pow(b, j) <= n
<1> DEFINE T == {k \in 1..top : n < Pow(b, k)}
           P(k) == n < Pow(b, k) /\ \A j \in 1..(k - 1) : Pow(b, j) <= n
<1>1. /\ top \in 1..15 /\ MaxNumber < Pow(b, top) /\ \A k \in 0..top : Pow(b, k) \in Nat
      /\ MaxNumber \in Nat
  BY SMT DEF IsBase, MaxNumber
<1>2. n \in Nat /\ n < Pow(b, top)
  <2>1. n \in Nat /\ n <= MaxNumber
    BY <1>1 DEF Numbers
  <2> QED
    BY <1>1, <2>1
<1>3. T \in SUBSET Nat /\ T # {}
  BY <1>1, <1>2
<1>4. PICK x \in T : \A y \in T : ~(y < x)
  BY <1>3, LeastNatural
<1>5. x \in 1..15 /\ P(x)
  <2>1. x \in 1..top /\ n < Pow(b, x)
    BY <1>4
  <2>2. ASSUME NEW j \in 1..(x - 1)
        PROVE  Pow(b, j) <= n
    <3>1. j \in 1..top /\ j < x /\ j \in 0..top
      BY <1>1, <2>1
    <3>2. ~(n < Pow(b, j))
      BY <1>4, <3>1
    <3>3. Pow(b, j) \in Nat
      BY <1>1, <3>1
    <3> QED
      BY <1>2, <3>2, <3>3
  <2> QED
    BY <1>1, <2>1, <2>2
<1> DEFINE s == SizeOf(n, b)
<1>6. s \in 1..15 /\ P(s)
  BY <1>5, Zenon DEF SizeOf
<1> HIDE DEF s
<1>7. s <= top
  <2>1. CASE top < s
    <3>1. top \in 1..(s - 1)
      BY <1>1, <1>6, <2>1
    <3>2. Pow(b, top) <= n
      BY <1>6, <3>1
    <3> QED
      BY <1>1, <1>2, <3>2
  <2> QED
    BY <1>1, <1>6, <2>1
<1>8. s \in 1..top
  BY <1>1, <1>6, <1>7
<1> QED
  BY <1>6, <1>8, Zenon DEF s

\* That many digits determine the size.
LEMMA SizeUnique ==
  ASSUME NEW b, NEW top, IsBase(b, top), NEW n \in Numbers,
         NEW k \in 1..top, n < Pow(b, k), \A j \in 1..(k - 1) : Pow(b, j) <= n
  PROVE  SizeOf(n, b) = k
<1> DEFINE s == SizeOf(n, b)
<1>1. s \in 1..top /\ n < Pow(b, s) /\ \A j \in 1..(s - 1) : Pow(b, j) <= n
  BY SizeLeast, Zenon
<1>2. top \in 1..15 /\ n \in Nat /\ \A j \in 0..top : Pow(b, j) \in Nat
  BY SMT DEF IsBase, Numbers, MaxNumber
<1> HIDE DEF s
<1>3. CASE s < k
  <2>1. s \in 1..(k - 1) /\ s \in 0..top
    BY <1>1, <1>2, <1>3
  <2>2. Pow(b, s) <= n /\ Pow(b, s) \in Nat
    BY <1>2, <2>1
  <2> QED
    BY <1>1, <1>2, <2>2
<1>4. CASE k < s
  <2>1. k \in 1..(s - 1) /\ k \in 0..top
    BY <1>1, <1>2, <1>4
  <2>2. Pow(b, k) <= n /\ Pow(b, k) \in Nat
    BY <1>1, <1>2, <2>1
  <2> QED
    BY <1>2, <2>2
<1>5. s = k
  BY <1>1, <1>2, <1>3, <1>4
<1> QED
  BY <1>5 DEF s

\* The shorter number has one digit less.
LEMMA SizeStep ==
  ASSUME NEW b, NEW top, IsBase(b, top), NEW n \in Numbers
  PROVE  /\ n < b => SizeOf(n, b) = 1
         /\ b <= n => n \div b \in Numbers /\ SizeOf(n, b) = SizeOf(n \div b, b) + 1
<1>1. /\ b \in Nat /\ 1 < b /\ top \in 1..15 /\ Pow(b, 0) = 1
      /\ \A k \in 0..top : Pow(b, k) \in Nat
      /\ \A k \in 0..(top - 1) : Pow(b, k + 1) = b * Pow(b, k)
      /\ n \in Nat /\ n <= MaxNumber /\ MaxNumber \in Nat /\ MaxNumber < Pow(b, top)
  BY SMT DEF IsBase, Numbers, MaxNumber
<1>2. Pow(b, 1) = b
  <2>1. 0 \in 0..(top - 1) /\ 0 + 1 = 1
    BY <1>1
  <2>2. Pow(b, 1) = b * Pow(b, 0)
    BY <1>1, <2>1
  <2> QED
    BY <1>1, <2>2
<1>3. ASSUME n < b
      PROVE  SizeOf(n, b) = 1
  <2>1. 1 \in 1..top /\ n < Pow(b, 1) /\ \A j \in 1..(1 - 1) : Pow(b, j) <= n
    BY <1>1, <1>2, <1>3
  <2> QED
    BY <2>1, SizeUnique
<1>4. ASSUME b <= n
      PROVE  n \div b \in Numbers /\ SizeOf(n, b) = SizeOf(n \div b, b) + 1
  <2> DEFINE q == n \div b
             s == SizeOf(q, b)
  <2>1. q \in Nat /\ q <= n /\ b * q <= n /\ n < b * q + b
    BY <1>1
  <2> HIDE DEF q
  <2>2. q \in Numbers
    BY <1>1, <2>1 DEF Numbers
  <2>3. s \in 1..top /\ q < Pow(b, s) /\ \A j \in 1..(s - 1) : Pow(b, j) <= q
    BY <2>2, SizeLeast, Zenon
  <2> HIDE DEF s
  <2>4. s # top
    <3>1. CASE s = top /\ top = 1
      BY <1>1, <1>2, <1>4, <3>1
    <3>2. CASE s = top /\ top # 1
      <4>1. top - 1 \in 1..(s - 1) /\ top - 1 \in 0..(top - 1) /\ (top - 1) + 1 = top
            /\ top - 1 \in 0..top
        BY <1>1, <3>2
      <4>2. Pow(b, top - 1) <= q /\ Pow(b, top) = b * Pow(b, top - 1) /\ Pow(b, top - 1) \in Nat
        BY <1>1, <2>3, <4>1
      <4> DEFINE x == Pow(b, top - 1)
      <4>3. x <= q /\ x \in Nat /\ n < b * x
        <5>1. n < Pow(b, top)
          <6>1. top \in 0..top
            BY <1>1
          <6>2. Pow(b, top) \in Nat
            BY <1>1, <6>1
          <6> QED
            BY <1>1, <6>2
        <5> QED
          BY <4>2, <5>1
      <4> HIDE DEF x
      <4>4. b * x <= b * q
        BY <1>1, <2>1, <4>3
      <4> QED
        BY <1>1, <2>1, <4>3, <4>4
    <3> QED
      BY <3>1, <3>2
  <2>5. s + 1 \in 1..top /\ s \in 0..(top - 1) /\ s \in 0..top
    BY <1>1, <2>3, <2>4
  <2>6. n < Pow(b, s + 1)
    <3> DEFINE x == Pow(b, s)
    <3>1. Pow(b, s + 1) = b * x /\ x \in Nat /\ q + 1 <= x
      BY <1>1, <2>1, <2>3, <2>5
    <3> HIDE DEF x
    <3>2. b * (q + 1) <= b * x
      BY <1>1, <2>1, <3>1
    <3>3. b * (q + 1) = b * q + b
      BY <1>1, <2>1
    <3> QED
      BY <1>1, <2>1, <3>1, <3>2, <3>3
  <2>7. ASSUME NEW j \in 1..((s + 1) - 1)
        PROVE  Pow(b, j) <= n
    <3>1. CASE j = 1
      BY <1>1, <1>2, <1>4, <3>1
    <3>2. CASE j # 1
      <4>1. j - 1 \in 1..(s - 1) /\ j - 1 \in 0..(top - 1) /\ (j - 1) + 1 = j /\ j - 1 \in 0..top
        BY <1>1, <2>3, <2>5, <3>2
      <4> DEFINE x == Pow(b, j - 1)
      <4>2. x <= q /\ Pow(b, j) = b * x /\ x \in Nat
        BY <1>1, <2>3, <4>1
      <4> HIDE DEF x
      <4>3. b * x <= b * q
        BY <1>1, <2>1, <4>2
      <4> QED
        BY <1>1, <2>1, <4>2, <4>3
    <3> QED
      BY <3>1, <3>2
  <2>8. SizeOf(n, b) = s + 1
    BY <2>5, <2>6, <2>7, SizeUnique
  <2> QED
    BY <2>2, <2>8 DEF q, s
<1> QED
  BY <1>3, <1>4

\* The digits of a numeral, the last of them apart.
LEMMA NumeralDigits ==
  ASSUME NEW n, NEW b
  PROVE  Numeral(n, b) = [k \in 1..SizeOf(n, b) |-> Digits[1 + ((n \div Pow(b, SizeOf(n, b) - k)) % b)]]
BY Zenon DEF Numeral, SizeOf, Pow

\* A digit of a number is a character.
LEMMA DigitIsChar ==
  ASSUME NEW b \in Nat, 1 < b, b <= 16, NEW x \in Nat
  PROVE  1 + (x % b) \in 1..16 /\ Digits[1 + (x % b)] \in Char
<1>1. 1 + (x % b) \in 1..16
  <2>1. x % b \in 0..(b - 1)
    OBVIOUS
  <2> QED
    BY <2>1
<1> QED
  BY <1>1, MarksAreChars, Zenon

\* The digits of a numeral, by their places.
LEMMA NumeralSeq ==
  ASSUME NEW b, NEW top, IsBase(b, top), NEW n \in Numbers
  PROVE  LET s == SizeOf(n, b)
             t == Numeral(n, b)
         IN  /\ t \in Seq(Char) /\ Len(t) = s /\ s \in 1..top
             /\ \A k \in 1..s : /\ t[k] = Digits[1 + ((n \div Pow(b, s - k)) % b)]
                                /\ t[k] \in Char
                                /\ \E i \in 1..16 : t[k] = Digits[i]
<1> DEFINE s == SizeOf(n, b)
           t == Numeral(n, b)
<1>1. s \in 1..top
  BY SizeLeast, Zenon
<1>2. t = [k \in 1..s |-> Digits[1 + ((n \div Pow(b, s - k)) % b)]]
  BY NumeralDigits, Zenon
<1>3. /\ b \in Nat /\ 1 < b /\ b <= 16 /\ top \in 1..15 /\ n \in Nat
      /\ \A k \in 0..top : Pow(b, k) \in Nat /\ 0 < Pow(b, k)
  BY SMT DEF IsBase, Numbers, MaxNumber
<1> HIDE DEF s, t
<1>4. ASSUME NEW k \in 1..s
      PROVE  /\ t[k] = Digits[1 + ((n \div Pow(b, s - k)) % b)]
             /\ t[k] \in Char
             /\ \E i \in 1..16 : t[k] = Digits[i]
  <2>1. s - k \in 0..top
    BY <1>1, <1>3
  <2> DEFINE p == Pow(b, s - k)
             i == 1 + ((n \div p) % b)
  <2>2. p \in Nat /\ 0 < p
    BY <1>3, <2>1
  <2>3. t[k] = Digits[i]
    BY <1>2
  <2> HIDE DEF p
  <2>4. n \div p \in Nat
    BY <1>3, <2>2
  <2>5. i \in 1..16 /\ Digits[i] \in Char
    BY <1>3, <2>4, DigitIsChar, Zenon
  <2> QED
    BY <2>3, <2>5, Zenon DEF p
<1>5. t \in [1..s -> Char]
  BY <1>2, <1>4
<1>6. s \in Nat
  BY <1>1, <1>3
<1>7. t \in Seq(Char)
  BY <1>5, <1>6, SeqDef
<1>8. Len(t) = s
  BY <1>5, <1>6, <1>7, LenProperties
<1> QED
  BY <1>1, <1>4, <1>7, <1>8, Zenon DEF s, t

\* Dividing twice divides by the product.
LEMMA DivDiv ==
  ASSUME NEW n \in Nat, NEW b \in Nat, 0 < b, NEW p \in Nat, 0 < p
  PROVE  n \div (b * p) = (n \div b) \div p
OBVIOUS

\* A digit is a numeral; a longer number is that of the others and the last digit.
LEMMA NumeralStep ==
  ASSUME NEW b, NEW top, IsBase(b, top), NEW n \in Numbers
  PROVE  /\ n < b => Numeral(n, b) = <<Digits[n + 1]>>
         /\ b <= n => Numeral(n, b) = Append(Numeral(n \div b, b), Digits[1 + (n % b)])
<1>1. /\ b \in Nat /\ 1 < b /\ b <= 16 /\ top \in 1..15 /\ n \in Nat /\ Pow(b, 0) = 1
      /\ \A k \in 0..top : Pow(b, k) \in Nat /\ 0 < Pow(b, k)
      /\ \A k \in 0..(top - 1) : Pow(b, k + 1) = b * Pow(b, k)
  BY SMT DEF IsBase, Numbers, MaxNumber
<1> DEFINE s == SizeOf(n, b)
           t == Numeral(n, b)
<1>2. /\ t \in Seq(Char) /\ Len(t) = s /\ s \in 1..top
      /\ \A k \in 1..s : t[k] = Digits[1 + ((n \div Pow(b, s - k)) % b)]
  BY NumeralSeq, Zenon
<1>3. ASSUME s >= 1
      PROVE  t[s] = Digits[1 + (n % b)]
  <2> HIDE DEF s, t
  <2>1. s \in 1..s /\ s - s = 0
    BY <1>1, <1>2
  <2>2. t[s] = Digits[1 + ((n \div Pow(b, s - s)) % b)]
    BY <1>2, <2>1, Zenon
  <2>3. n \div 1 = n
    BY <1>1
  <2> QED
    BY <1>1, <2>1, <2>2, <2>3, Zenon
<1>4. ASSUME n < b
      PROVE  t = <<Digits[n + 1]>>
  <2>1. s = 1
    BY <1>4, SizeStep, Zenon
  <2>2. 1 + (n % b) = n + 1
    BY <1>1, <1>4
  <2>3. t[1] = Digits[n + 1]
    BY <1>3, <2>1, <2>2
  <2> HIDE DEF t, s
  <2> QED
    BY <1>2, <2>1, <2>3
<1>5. ASSUME b <= n
      PROVE  t = Append(Numeral(n \div b, b), Digits[1 + (n % b)])
  <2> DEFINE q == n \div b
             z == SizeOf(q, b)
             u == Numeral(q, b)
             d == Digits[1 + (n % b)]
             v == Append(u, d)
  <2>1. q \in Numbers /\ s = z + 1
    BY <1>5, SizeStep, Zenon
  <2>2. /\ u \in Seq(Char) /\ Len(u) = z /\ z \in 1..top
        /\ \A k \in 1..z : u[k] = Digits[1 + ((q \div Pow(b, z - k)) % b)]
    BY <2>1, NumeralSeq, Zenon
  <2>3. d \in Char
    BY <1>1, DigitIsChar, Zenon
  <2> HIDE DEF u, d, z, t, s
  <2>4. v \in Seq(Char) /\ Len(v) = z + 1 /\ v[z + 1] = d /\ \A k \in 1..z : v[k] = u[k]
    BY <2>2, <2>3, AppendProperties
  <2> HIDE DEF v, q
  <2>5. ASSUME NEW k \in 1..s
        PROVE  t[k] = v[k]
    <3>1. CASE k = s
      <4>1. s >= 1
        BY <1>1, <1>2
      <4> QED
        BY <1>3, <2>1, <2>4, <3>1, <4>1 DEF d
    <3>2. CASE k # s
      <4>1. k \in 1..z /\ z - k \in 0..(top - 1) /\ z - k \in 0..top /\ s - k = (z - k) + 1
        BY <1>1, <1>2, <2>1, <2>2, <3>2
      <4> DEFINE p == Pow(b, z - k)
      <4>2. p \in Nat /\ 0 < p /\ Pow(b, s - k) = b * p
        BY <1>1, <4>1
      <4>3. t[k] = Digits[1 + ((n \div Pow(b, s - k)) % b)] /\ u[k] = Digits[1 + ((q \div p) % b)]
        BY <1>2, <2>2, <4>1, Zenon
      <4> HIDE DEF p
      <4>4. 0 < b
        BY <1>1
      <4>5. n \div (b * p) = q \div p
        BY <1>1, <4>2, <4>4, DivDiv DEF q
      <4> QED
        BY <2>4, <4>1, <4>2, <4>3, <4>5, Zenon
    <3> QED
      BY <3>1, <3>2, Zenon
  <2>6. t = v
    <3>1. Len(t) = Len(v)
      BY <1>2, <2>1, <2>4
    <3> QED
      BY <1>2, <2>4, <2>5, <3>1, SeqEqual
  <2> QED
    BY <2>6 DEF t, v, u, d, q
<1> QED
  BY <1>4, <1>5, Zenon DEF t

\* The loops of the other bases write the numeral.
LEMMA RadixNumeral ==
  ASSUME NEW b, NEW top, IsBase(b, top), NEW n \in Numbers
  PROVE  Radix(n, b) = Numeral(n, b)
<1> DEFINE Is(f) == f = [k \in 0..n |-> IF k < b THEN <<Digits[k + 1]>>
                                        ELSE Append(f[k \div b], Digits[1 + (k % b)])]
           f == CHOOSE f : Is(f)
           g == [k \in 0..n |-> Numeral(k, b)]
<1>1. b \in Nat /\ 1 < b /\ n \in Nat /\ 0..n \subseteq Numbers
  <2>1. MaxNumber \in Nat
    BY SMT DEF MaxNumber
  <2>2. n \in Nat /\ 0..n \subseteq Numbers
    BY <2>1, SMT DEF Numbers
  <2>3. b \in Nat /\ 1 < b
    BY Zenon DEF IsBase
  <2> QED
    BY <2>2, <2>3
<1>2. ASSUME NEW k \in 0..n
      PROVE  /\ k \in Numbers /\ k \in Nat
             /\ ~(k < b) => /\ k \div b \in 0..n /\ k \div b < k /\ k \div b \in Nat
                            /\ b <= k
  <2>1. k \in Numbers /\ k \in Nat
    BY <1>1
  <2>2. ASSUME ~(k < b)
        PROVE  k \div b \in 0..n /\ k \div b < k /\ k \div b \in Nat /\ b <= k
    BY <1>1, <2>2
  <2> QED
    BY <2>1, <2>2
<1>3. Is(g)
  <2>1. ASSUME NEW k \in 0..n
        PROVE  g[k] = IF k < b THEN <<Digits[k + 1]>>
                      ELSE Append(g[k \div b], Digits[1 + (k % b)])
    <3>1. g[k] = Numeral(k, b)
      OBVIOUS
    <3>2. ~(k < b) => g[k \div b] = Numeral(k \div b, b)
      BY <1>2
    <3> HIDE DEF g
    <3>3. /\ k < b => Numeral(k, b) = <<Digits[k + 1]>>
          /\ b <= k => Numeral(k, b) = Append(Numeral(k \div b, b), Digits[1 + (k % b)])
      BY <1>2, NumeralStep, Zenon
    <3> QED
      BY <1>2, <3>1, <3>2, <3>3, Zenon
  <2>2. g = [k \in 0..n |-> g[k]]
    OBVIOUS
  <2> HIDE DEF g
  <2> QED
    BY <2>1, <2>2, Zenon
<1>4. Is(f)
  BY <1>3, Zenon
<1>5. Radix(n, b) = f[n]
  BY Zenon DEF Radix
<1> HIDE DEF f
<1>6. \A k \in 0..n : f[k] = IF k < b THEN <<Digits[k + 1]>>
                             ELSE Append(f[k \div b], Digits[1 + (k % b)])
  BY <1>4
<1> DEFINE T == {k \in 0..n : f[k] # Numeral(k, b)}
<1>7. ASSUME T # {} PROVE FALSE
  <2>0. T \in SUBSET Nat
    BY <1>1
  <2> HIDE DEF T
  <2>1. PICK x \in T : \A y \in T : ~(y < x)
    BY <1>7, <2>0, LeastNatural
  <2>2. x \in 0..n /\ f[x] # Numeral(x, b)
    BY DEF T
  <2>3. x \in Numbers
    BY <1>2, <2>2
  <2>4. /\ x < b => Numeral(x, b) = <<Digits[x + 1]>>
        /\ b <= x => Numeral(x, b) = Append(Numeral(x \div b, b), Digits[1 + (x % b)])
    BY <2>3, NumeralStep, Zenon
  <2>5. CASE x < b
    BY <1>6, <2>2, <2>4, <2>5, Zenon
  <2>6. CASE ~(x < b)
    <3>1. x \div b \in 0..n /\ x \div b < x /\ b <= x
      BY <1>2, <2>2, <2>6
    <3>2. f[x \div b] = Numeral(x \div b, b)
      BY <2>1, <3>1 DEF T
    <3> QED
      BY <1>6, <2>2, <2>4, <2>6, <3>1, <3>2, Zenon
  <2> QED
    BY <2>5, <2>6
<1>8. f[n] = Numeral(n, b)
  <2>1. n \in 0..n
    BY <1>1
  <2> QED
    BY <1>7, <2>1
<1> QED
  BY <1>5, <1>8

\* BitLength counts bits.
LEMMA BitLengthBounds ==
  ASSUME NEW x \in Numbers, 1 <= x
  PROVE  LET k == BitLength(x)
         IN  k \in 1..15 /\ Pow(2, k - 1) <= x /\ x < Pow(2, k)
<1> DEFINE s == SizeOf(x, 2)
<1>1. s \in 1..15 /\ x < Pow(2, s) /\ \A j \in 1..(s - 1) : Pow(2, j) <= x
  BY Bases, SizeLeast, Zenon
<1> HIDE DEF s
<1>2. Pow(2, s - 1) <= x
  <2>1. CASE s = 1
    BY <2>1, Powers, SMT
  <2>2. CASE s # 1
    <3>1. s - 1 \in 1..(s - 1)
      BY <1>1, <2>2
    <3> QED
      BY <1>1, <3>1
  <2> QED
    BY <2>1, <2>2
<1>3. BitLength(x) = CHOOSE k \in 1..15 : Pow(2, k - 1) <= x /\ x < Pow(2, k)
  BY Zenon DEF BitLength, Pow
<1> QED
  BY <1>1, <1>2, <1>3, Zenon

\* count_digits() counts the digits of the decimal numeral.
LEMMA CountDigitsNumeral ==
  ASSUME NEW n \in Numbers
  PROVE  CountDigits(n) = SizeOf(n, 10)
<1> DEFINE x == Max2(n, 1)
           k == BitLength(x)
           t == (k * 1233) \div 4096
           c == t - (IF n < POWERS_OF_10[t + 1] THEN 1 ELSE 0) + 1
<1>1. n \in Nat /\ n <= 32767
  BY SMT DEF Numbers, MaxNumber
<1>2. x \in Numbers /\ 1 <= x /\ x \in Nat /\ (n # 0 => x = n) /\ (n = 0 => x = 1)
  BY <1>1, SMT DEF Numbers, MaxNumber, Max2
<1> HIDE DEF x
<1>3. k \in 1..15 /\ Pow(2, k - 1) <= x /\ x < Pow(2, k)
  BY <1>2, BitLengthBounds, Zenon
<1>4. CountDigits(n) = c
  BY Zenon DEF CountDigits, x
<1> HIDE DEF k
<1>5. \/ k \in 1..3 /\ t = 0 /\ x <= 7
      \/ k \in 4..6 /\ t = 1 /\ 8 <= x /\ x <= 63
      \/ k \in 7..9 /\ t = 2 /\ 64 <= x /\ x <= 511
      \/ k \in 10..13 /\ t = 3 /\ 512 <= x /\ x <= 8191
      \/ k \in 14..15 /\ t = 4 /\ 8192 <= x
  <2>1. k = 1 \/ k = 2 \/ k = 3 \/ k = 4 \/ k = 5 \/ k = 6 \/ k = 7 \/ k = 8 \/ k = 9 \/ k = 10
        \/ k = 11 \/ k = 12 \/ k = 13 \/ k = 14 \/ k = 15
    BY <1>3, SMT
  <2> QED
    BY <1>2, <1>3, <2>1, Powers, SMT
<1> HIDE DEF t
<1>6. /\ POWERS_OF_10[1] = 0 /\ POWERS_OF_10[2] = 10 /\ POWERS_OF_10[3] = 100
      /\ POWERS_OF_10[4] = 1000 /\ POWERS_OF_10[5] = 10000
  BY SMT DEF POWERS_OF_10
<1>7. c \in 1..5 /\ n < Pow(10, c) /\ \A j \in 1..(c - 1) : Pow(10, j) <= n
  <2>1. \/ c = 1 /\ n < 10
        \/ c = 2 /\ n < 100 /\ 10 <= n
        \/ c = 3 /\ n < 1000 /\ 100 <= n
        \/ c = 4 /\ n < 10000 /\ 1000 <= n
        \/ c = 5 /\ 10000 <= n
    BY <1>1, <1>2, <1>5, <1>6, SMT
  <2> HIDE DEF c
  <2> QED
    BY <1>1, <2>1, Powers, SMT
<1> HIDE DEF c
<1>8. SizeOf(n, 10) = c
  BY <1>7, Bases, SizeUnique, Zenon
<1> QED
  BY <1>4, <1>8

\* format_decimal() writes the decimal numeral, two digits at a time.
LEMMA DecimalNumeral ==
  ASSUME NEW n \in Numbers
  PROVE  FormatDecimal(n, CountDigits(n)) = Numeral(n, 10)
<1>1. FormatDecimal(n, SizeOf(n, 10)) = [k \in 1..SizeOf(n, 10) |-> Digits[1 + ((n \div Pow(10, SizeOf(n, 10) - k)) % 10)]]
  BY Zenon DEF FormatDecimal, Pow
<1>2. FormatDecimal(n, SizeOf(n, 10)) = Numeral(n, 10)
  BY <1>1, NumeralDigits, Zenon
<1> QED
  BY <1>2, CountDigitsNumeral, Zenon

-----------------------------------------------------------------------------
(* write_int()                                                             *)

\* The value of an integer statement and its digits.
Values == -MaxNumber..MaxNumber
AbsOf(v) == IF v < 0 THEN -v ELSE v

\* What stands for the base in front of the digits.
BaseMark(spec) ==
  CASE "HASH" \notin spec.flags           -> <<>>
    [] "HASH" \in spec.flags /\ spec.type = "o" -> <<"0">>
    [] "HASH" \in spec.flags /\ spec.type \in {"x", "X", "b", "B"} -> <<"0", spec.type>>
    [] OTHER                               -> <<>>

\* The sign and the mark of the base.
IntPrefix(v, spec) == SignOf(v < 0, spec) \o BaseMark(spec)

\* The sign, the mark and the absolute value are what the provers need them to be.
LEMMA SignSeq ==
  ASSUME NEW negative, NEW spec
  PROVE  SignOf(negative, spec) \in {<<>>, <<"-">>, <<"+">>, <<" ">>}
BY Zenon DEF SignOf

\* The mark of a base is nothing, a zero, or a zero and the letter.
LEMMA MarkSeq ==
  ASSUME NEW spec
  PROVE  /\ BaseMark(spec) \in {<<>>, <<"0">>, <<"0", spec.type>>}
         /\ BaseMark(spec) = <<"0">> \/ BaseMark(spec) = <<>> \/ spec.type \in {"x", "X", "b", "B"}
BY Zenon DEF BaseMark

\* A sign is nothing or one character.
LEMMA SignLength ==
  ASSUME NEW negative, NEW spec
  PROVE  /\ SignOf(negative, spec) \in Seq(Char)
         /\ Len(SignOf(negative, spec)) = IF SignOf(negative, spec) = <<>> THEN 0 ELSE 1
<1> DEFINE s == SignOf(negative, spec)
<1>1. s = <<>> \/ s = <<"-">> \/ s = <<"+">> \/ s = <<" ">>
  BY SignSeq, Zenon
<1> HIDE DEF s
<1>2. ASSUME NEW c \in Char, s = <<c>>
      PROVE  s \in Seq(Char) /\ Len(s) = (IF s = <<>> THEN 0 ELSE 1)
  BY <1>2
<1>3. s = <<>> => s \in Seq(Char) /\ Len(s) = 0
  BY EmptyText, Zenon
<1> QED
  BY <1>1, <1>2, <1>3, MarksAreChars, Zenon DEF s

\* The prefix of an integer is a text.
LEMMA PrefixSeq ==
  ASSUME NEW v, NEW spec, IsSpec(spec)
  PROVE  BaseMark(spec) \in Seq(Char) /\ IntPrefix(v, spec) \in Seq(Char)
<1> DEFINE s == SignOf(v < 0, spec)
           t == BaseMark(spec)
<1>1. s \in Seq(Char)
  BY SignLength, Zenon
<1>2. t = <<>> \/ t = <<"0">> \/ (spec.type \in Char /\ t = <<"0", spec.type>>)
  <2>1. t \in {<<>>, <<"0">>, <<"0", spec.type>>} /\ (t = <<"0">> \/ t = <<>> \/ spec.type \in Letters)
    BY MarkSeq, Zenon DEF Letters
  <2> HIDE DEF t
  <2> QED
    BY <2>1, LettersAreChars, Zenon
<1> HIDE DEF s, t
<1>4. ASSUME NEW c \in Char, NEW d \in Char
      PROVE  <<c>> \in Seq(Char) /\ <<c, d>> \in Seq(Char)
  OBVIOUS
<1>5. t \in Seq(Char)
  BY <1>2, <1>4, ZeroIsChar, EmptyText, Zenon
<1>6. s \o t \in Seq(Char)
  BY <1>1, <1>5, Joined, Zenon
<1> QED
  BY <1>5, <1>6, Zenon DEF IntPrefix, s, t

\* The absolute value of a value is a number the types can hold.
LEMMA AbsIsNumber ==
  ASSUME NEW v \in Values
  PROVE  AbsOf(v) \in Numbers
<1>1. MaxNumber \in Nat
  BY SMT DEF MaxNumber
<1> QED
  BY <1>1 DEF Values, Numbers, AbsOf

\* The digits that write_int() writes are those of the numeral.
LEMMA DigitsWritten ==
  ASSUME NEW v \in Values, NEW spec
  PROVE  (CASE spec.type \in {"x", "X"} -> Radix(AbsOf(v), 16)
            [] spec.type \in {"b", "B"} -> Radix(AbsOf(v), 2)
            [] spec.type = "o"          -> Radix(AbsOf(v), 8)
            [] OTHER -> FormatDecimal(AbsOf(v), CountDigits(AbsOf(v)))) = Magnitude(v, spec)
<1>1. /\ Radix(AbsOf(v), 16) = Numeral(AbsOf(v), 16)
      /\ Radix(AbsOf(v), 2) = Numeral(AbsOf(v), 2)
      /\ Radix(AbsOf(v), 8) = Numeral(AbsOf(v), 8)
      /\ FormatDecimal(AbsOf(v), CountDigits(AbsOf(v))) = Numeral(AbsOf(v), 10)
  BY AbsIsNumber, Bases, RadixNumeral, DecimalNumeral, Zenon
<1>2. /\ ~(spec.type \in {"x", "X"} /\ spec.type \in {"b", "B"})
      /\ ~(spec.type \in {"x", "X"} /\ spec.type = "o")
      /\ ~(spec.type \in {"b", "B"} /\ spec.type = "o")
  OBVIOUS
<1>3. Magnitude(v, spec) = Numeral(AbsOf(v), BaseOf(spec.type))
  BY Zenon DEF Magnitude, AbsOf
<1>4. CASE spec.type \in {"x", "X"}
  <2>1. BaseOf(spec.type) = 16
    BY <1>2, <1>4, Zenon DEF BaseOf
  <2> QED
    BY <1>1, <1>2, <1>3, <1>4, <2>1, Zenon
<1>5. CASE spec.type \in {"b", "B"}
  <2>1. BaseOf(spec.type) = 2
    BY <1>2, <1>5, Zenon DEF BaseOf
  <2> QED
    BY <1>1, <1>2, <1>3, <1>5, <2>1, Zenon
<1>6. CASE spec.type = "o"
  <2>1. BaseOf(spec.type) = 8
    BY <1>2, <1>6, Zenon DEF BaseOf
  <2> QED
    BY <1>1, <1>2, <1>3, <1>6, <2>1, Zenon
<1>7. CASE ~(spec.type \in {"x", "X"}) /\ ~(spec.type \in {"b", "B"}) /\ spec.type # "o"
  <2>1. BaseOf(spec.type) = 10
    BY <1>7, Zenon DEF BaseOf
  <2> QED
    BY <1>1, <1>3, <1>7, <2>1, Zenon
<1> QED
  BY <1>4, <1>5, <1>6, <1>7, Zenon

\* A numeral has a digit, and no digit is a cell that nothing was written to.
LEMMA MagnitudeSeq ==
  ASSUME NEW v \in Values, NEW spec
  PROVE  LET d == Magnitude(v, spec)
         IN  d \in Seq(Char) /\ Len(d) \in Nat /\ 0 < Len(d) /\ d[1] # JUNK
<1> DEFINE d == Magnitude(v, spec)
<1>1. d = Numeral(AbsOf(v), BaseOf(spec.type)) /\ AbsOf(v) \in Numbers
  BY AbsIsNumber, Zenon DEF Magnitude, AbsOf
<1>2. BaseOf(spec.type) = 16 \/ BaseOf(spec.type) = 2 \/ BaseOf(spec.type) = 8 \/ BaseOf(spec.type) = 10
  BY Zenon DEF BaseOf
<1>3. PICK top : IsBase(BaseOf(spec.type), top)
  BY <1>2, Bases, Zenon
<1> DEFINE s == SizeOf(AbsOf(v), BaseOf(spec.type))
<1> HIDE DEF d
<1>4. /\ d \in Seq(Char) /\ Len(d) = s /\ s \in 1..top
      /\ \A k \in 1..s : \E i \in 1..16 : d[k] = Digits[i]
  BY <1>1, <1>3, NumeralSeq, Zenon
<1>5. top \in 1..15
  BY <1>3, Zenon DEF IsBase
<1> HIDE DEF s
<1>6. s \in Nat /\ 0 < s /\ 1 \in 1..s
  BY <1>4, <1>5
<1>7. ASSUME NEW i \in 1..16
      PROVE  Digits[i] # JUNK
  BY DEF Digits, JUNK
<1> QED
  BY <1>4, <1>6, <1>7, Zenon DEF d

\* What stands in front of the digits of an integer and behind them are texts.
LEMMA IntParts ==
  ASSUME NEW n \in Nat, NEW spec, IsSpec(spec), NEW prefix \in Seq(Char)
  PROVE  IntHead(n, spec, prefix) \in Seq(Char) /\ IntTail(n, spec, prefix) \in Seq(Char)
<1> DEFINE number == NumberSize(spec, prefix)
           head == IntHead(n, spec, prefix)
           tail == IntTail(n, spec, prefix)
<1>1. spec.width \in Nat /\ spec.fill \in Char /\ spec.precision \in Int
  BY Zenon DEF IsSpec
<1>2. CASE spec.precision <= n
  <2>1. FieldHead(n, spec, prefix) \in Seq(Char) /\ FieldTail(n, spec, prefix) \in Seq(Char)
    BY <1>1, FieldParts, Zenon
  <2> QED
    BY <1>2, <2>1, Zenon DEF IntHead, IntTail
<1>3. CASE ~(spec.precision <= n)
  <2>1. n < spec.precision
    BY <1>1, <1>3
  <2>2. number \in Nat /\ NumberHead(n, spec, prefix) \in Seq(Char)
    BY <2>1, NumberParts, Zenon
  <2>3. CASE spec.width <= number
    <3>1. head = NumberHead(n, spec, prefix) /\ tail = <<>>
      BY <1>3, <2>3, Zenon DEF IntHead, IntTail
    <3> QED
      BY <2>2, <3>1, EmptyText, Zenon
  <2>4. CASE ~(spec.width <= number)
    <3> DEFINE pad == Rep(spec.fill, spec.width - number)
    <3>1. spec.width - number \in Nat
      BY <1>1, <2>2, <2>4
    <3>2. pad \in Seq(Char)
      BY <1>1, <3>1, RepSeq, Zenon
    <3>3. CASE spec.align = "left"
      <4>1. head = NumberHead(n, spec, prefix) /\ tail = pad
        BY <1>3, <2>4, <3>3, Zenon DEF IntHead, IntTail
      <4> QED
        BY <2>2, <3>2, <4>1, Zenon
    <3>4. CASE spec.align # "left"
      <4>1. head = pad \o NumberHead(n, spec, prefix) /\ tail = <<>>
        BY <1>3, <2>4, <3>4, Zenon DEF IntHead, IntTail
      <4>2. pad \o NumberHead(n, spec, prefix) \in Seq(Char)
        BY <2>2, <3>2, Joined, Zenon
      <4> QED
        BY <4>1, <4>2, EmptyText, Zenon
    <3> QED
      BY <3>3, <3>4, Zenon
  <2> QED
    BY <2>3, <2>4, Zenon
<1> QED
  BY <1>2, <1>3, Zenon

\* The digits and what stands around them.
IntText(v, spec) ==
  LET d == Magnitude(v, spec)
      prefix == IntPrefix(v, spec)
  IN  (IntHead(Len(d), spec, prefix) \o d) \o IntTail(Len(d), spec, prefix)

\* The text of an integer is a text.
LEMMA IntTextSeq ==
  ASSUME NEW v \in Values, NEW spec, IsSpec(spec)
  PROVE  IntText(v, spec) \in Seq(Char)
<1> DEFINE d == Magnitude(v, spec)
           head == IntHead(Len(d), spec, IntPrefix(v, spec))
           tail == IntTail(Len(d), spec, IntPrefix(v, spec))
<1>1. d \in Seq(Char) /\ Len(d) \in Nat
  BY MagnitudeSeq, Zenon
<1>2. head \in Seq(Char) /\ tail \in Seq(Char)
  BY <1>1, PrefixSeq, IntParts, Zenon
<1>3. IntText(v, spec) = (head \o d) \o tail
  BY Zenon DEF IntText
<1> HIDE DEF d, head, tail
<1>4. head \o d \in Seq(Char)
  BY <1>1, <1>2, Joined, Zenon
<1>5. (head \o d) \o tail \in Seq(Char)
  BY <1>2, <1>4, Joined, Zenon
<1> QED
  BY <1>3, <1>5, Zenon

\* What write_int() does, with the definitions of its parts folded.
LEMMA WriteIntParts ==
  ASSUME NEW m, NEW v \in Values, NEW spec
  PROVE  LET d == Magnitude(v, spec)
             area == PrepareIntBuffer(m, Len(d), spec, IntPrefix(v, spec))
         IN  /\ spec.type \in IntTypes =>
                  WriteInt(m, v, spec) = Put(area.m, Plus(area.p, 1 - Len(d)), d)
             /\ spec.type \notin IntTypes =>
                  WriteInt(m, v, spec) = Throw(m, "unknown format code for integer")
<1> DEFINE d == CASE spec.type \in {"x", "X"} -> Radix(AbsOf(v), 16)
                  [] spec.type \in {"b", "B"} -> Radix(AbsOf(v), 2)
                  [] spec.type = "o"          -> Radix(AbsOf(v), 8)
                  [] OTHER -> FormatDecimal(AbsOf(v), CountDigits(AbsOf(v)))
           area == PrepareIntBuffer(m, Len(d), spec, SignOf(v < 0, spec) \o BaseMark(spec))
<1>1. WriteInt(m, v, spec) = IF spec.type \in IntTypes THEN Put(area.m, Plus(area.p, 1 - Len(d)), d)
                             ELSE Throw(m, "unknown format code for integer")
  BY Zenon DEF WriteInt, BaseMark, AbsOf
<1>2. d = Magnitude(v, spec)
  BY DigitsWritten, Zenon
<1> HIDE DEF d
<1> QED
  BY <1>1, <1>2, Zenon DEF IntPrefix

\* An integer whose padding is not written behind its digits.
LEMMA WriteIntAppended ==
  ASSUME NEW m, Fits(m), NEW v \in Values, NEW spec, IsSpec(spec), spec.type \in IntTypes,
         ~PadsAfter(Len(Magnitude(v, spec)), spec, IntPrefix(v, spec))
  PROVE  Appended(m, IntText(v, spec), WriteInt(m, v, spec))
<1> DEFINE d == Magnitude(v, spec)
           n == Len(d)
           prefix == IntPrefix(v, spec)
           area == PrepareIntBuffer(m, n, spec, prefix)
           head == IntHead(n, spec, prefix)
           tail == IntTail(n, spec, prefix)
<1>1. d \in Seq(Char) /\ n \in Nat /\ prefix \in Seq(Char)
  BY MagnitudeSeq, PrefixSeq, Zenon
<1>2. FieldReady(m, area.m, area.p, head, n, tail)
  BY <1>1, PrepareIntReady, Zenon
<1>3. head \in Seq(Char) /\ tail \in Seq(Char)
  BY <1>1, IntParts, Zenon
<1>4. WriteInt(m, v, spec) = Put(area.m, Plus(area.p, 1 - Len(d)), d)
  BY WriteIntParts, Zenon
<1>5. IntText(v, spec) = (head \o d) \o tail
  BY Zenon DEF IntText
<1> HIDE DEF d, prefix, area, head, tail
<1>6. Appended(m, (head \o d) \o tail, Put(area.m, Plus(area.p, 1 - Len(d)), d))
  BY <1>1, <1>2, <1>3, DigitsStored, Zenon
<1> QED
  BY <1>4, <1>5, <1>6, Zenon

\* An integer with a precision, padded on the right.
PaddedText(v, spec) ==
  LET d == Magnitude(v, spec)
      prefix == IntPrefix(v, spec)
  IN  (NumberHead(Len(d), spec, prefix) \o d) \o Rep(spec.fill, spec.width - NumberSize(spec, prefix))

\* An integer padded on the right: its prefix and digits, and the padding behind them.
LEMMA PaddedIsIntText ==
  ASSUME NEW v \in Values, NEW spec, IsSpec(spec),
         PadsAfter(Len(Magnitude(v, spec)), spec, IntPrefix(v, spec))
  PROVE  IntText(v, spec) = PaddedText(v, spec)
<1> DEFINE n == Len(Magnitude(v, spec))
           prefix == IntPrefix(v, spec)
           number == NumberSize(spec, prefix)
<1>1. n < spec.precision /\ number < spec.width /\ spec.align = "left"
  BY Zenon DEF PadsAfter
<1>2. n \in Nat /\ prefix \in Seq(Char) /\ spec.precision \in Int /\ spec.width \in Nat
  BY MagnitudeSeq, PrefixSeq, Zenon DEF IsSpec
<1>3. number \in Nat
  BY <1>1, <1>2, NumberParts, Zenon
<1> HIDE DEF number
<1>4. ~(spec.precision <= n) /\ ~(spec.width <= number)
  BY <1>1, <1>2, <1>3
<1>5. IntHead(n, spec, prefix) = NumberHead(n, spec, prefix)
      /\ IntTail(n, spec, prefix) = Rep(spec.fill, spec.width - number)
  BY <1>1, <1>4, Zenon DEF IntHead, IntTail, number
<1> QED
  BY <1>5, Zenon DEF IntText, PaddedText, number

\* The padding fits unless the storage moves.
PaddingFits(m, v, spec) ==
  m.size + spec.width <= Fitted(m, NumberSize(spec, IntPrefix(v, spec)), spec.width)

\* An integer padded on the right is appended if the padding fits into the block; else its digits are stored in the block that was freed.
LEMMA WriteIntPadded ==
  ASSUME NEW m, Fits(m), NEW v \in Values, NEW spec, IsSpec(spec), spec.type \in IntTypes,
         PadsAfter(Len(Magnitude(v, spec)), spec, IntPrefix(v, spec))
  PROVE  LET w == WriteInt(m, v, spec)
             head == NumberHead(Len(Magnitude(v, spec)), spec, IntPrefix(v, spec))
         IN  /\ From(m, w)
             /\ Runs(w) => w.size = m.size + spec.width
             /\ PaddingFits(m, v, spec) => Appended(m, IntText(v, spec), w)
             /\ ~Runs(w) => w.faults = m.faults
             /\ Runs(w) /\ ~PaddingFits(m, v, spec) =>
                  /\ w.faults # {}
                  /\ Blank(m) => w.cells[m.size + Len(head)] = JUNK
<1> DEFINE d == Magnitude(v, spec)
           n == Len(d)
           prefix == IntPrefix(v, spec)
           area == PrepareIntBuffer(m, n, spec, prefix)
           number == NumberSize(spec, prefix)
           head == NumberHead(n, spec, prefix)
           pad == Rep(spec.fill, spec.width - number)
           w == WriteInt(m, v, spec)
           p == Plus(area.p, 1 - Len(d))
           fits == m.size + spec.width <= Fitted(m, number, spec.width)
<1>1. d \in Seq(Char) /\ n \in Nat /\ 0 < n /\ prefix \in Seq(Char)
  BY MagnitudeSeq, PrefixSeq, Zenon
<1>2. w = Put(area.m, p, d)
  BY WriteIntParts, Zenon
<1>3. IntText(v, spec) = (head \o d) \o pad
  BY PaddedIsIntText, Zenon DEF PaddedText
<1>4. PaddingFits(m, v, spec) <=> fits
  BY Zenon DEF PaddingFits
<1>5. /\ From(m, area.m) /\ area.m.faults = m.faults /\ IsPointer(area.p)
      /\ Runs(area.m) => /\ area.m.size = m.size + spec.width
                         /\ area.p.off = m.size + Len(head) + n - 1
      /\ Runs(area.m) /\ fits => FieldReady(m, area.m, area.p, head, n, pad)
      /\ Runs(area.m) /\ ~fits => /\ area.p.gen # area.m.gen
                                  /\ 0 < n /\ Blank(m) => area.m.cells[m.size + Len(head)] = JUNK
  <2>1. PadsAfter(n, spec, prefix)
    OBVIOUS
  <2> HIDE DEF n, prefix
  <2> QED
    BY <1>1, <2>1, PrepareIntPadded
<1>6. head \in Seq(Char) /\ pad \in Seq(Char) /\ m.size \in Nat
  <2>1. n < spec.precision /\ number < spec.width /\ spec.fill \in Char /\ spec.width \in Nat
    BY Zenon DEF PadsAfter, IsSpec
  <2>2. number \in Nat /\ head \in Seq(Char)
    BY <1>1, <2>1, NumberParts, Zenon
  <2> HIDE DEF number
  <2>3. spec.width - number \in Nat
    BY <2>1, <2>2
  <2>4. m.size \in Nat
    BY Zenon DEF Fits
  <2> QED
    BY <2>1, <2>2, <2>3, <2>4, RepSeq, Zenon
<1> HIDE DEF d, prefix, area, number, head, pad, w, fits
<1>7. CASE ~Runs(area.m)
  <2>1. w = area.m
    BY <1>2, <1>7, PutIdle, Zenon
  <2>2. Appended(m, (head \o d) \o pad, w)
    BY <1>5, <1>7, <2>1, Zenon DEF Appended
  <2> QED
    BY <1>3, <1>4, <1>5, <1>7, <2>1, <2>2, Zenon DEF w, head, n, d, prefix
<1>8. CASE Runs(area.m)
  <2>1. p.off = m.size + Len(head) /\ p.gen = area.p.gen /\ p.off \in Int /\ m.size <= p.off
    <3>1. p.off = area.p.off + (1 - Len(d)) /\ p.gen = area.p.gen
      BY <1>5, PlusFields, Zenon
    <3>2. Len(head) \in Nat
      BY <1>6, LenProperties
    <3>3. area.p.off = m.size + Len(head) + n - 1
      BY <1>5, <1>8, Zenon
    <3> QED
      BY <1>1, <1>6, <3>1, <3>2, <3>3
  <2> HIDE DEF p
  <2>2. From(m, w)
    BY <1>1, <1>2, <1>5, <2>1, PutFrom, Zenon
  <2>3. /\ Runs(w) /\ w.size = area.m.size
        /\ p.gen # area.m.gen => w.cells = area.m.cells
        /\ p.gen # area.m.gen /\ d # <<>> => w.faults # {}
    <3> DEFINE a == area.m
    <3>1. Fits(a) /\ Runs(a) /\ p.off \in Int /\ d \in Seq(Char) /\ w = Put(a, p, d)
      BY <1>1, <1>2, <1>5, <1>8, <2>1, FromFits, Zenon
    <3> HIDE DEF a
    <3> QED
      BY <3>1, PutCells DEF a
  <2>4. fits => Appended(m, (head \o d) \o pad, w)
    BY <1>1, <1>2, <1>5, <1>6, <1>8, DigitsStored, Zenon DEF n, p
  <2>5. d # <<>>
    BY <1>1
  <2> QED
    BY <1>1, <1>3, <1>4, <1>5, <1>8, <2>1, <2>2, <2>3, <2>4, <2>5, Zenon DEF w, head, n, d, prefix
<1> QED
  BY <1>7, <1>8, Zenon

-----------------------------------------------------------------------------
(* The text of an integer is the text that is wanted                       *)

\* What is missing to the width.
Gap(width, sign, body) == Max2(0, width - Len(sign) - Len(body))

\* The reference, alignment by alignment.
IsLaid(align, fill, width, sign, body, text) == Laid(align, fill, width, sign, body) = text

\* Numeric alignment puts the fill between sign and digits.
LEMMA LaidNumeric ==
  ASSUME NEW align, align = "numeric", NEW fill, NEW width, NEW sign, NEW body,
         NEW gap, gap = Gap(width, sign, body)
  PROVE  IsLaid(align, fill, width, sign, body, (sign \o Rep(fill, gap)) \o body)
BY Zenon DEF IsLaid, Laid, Gap

\* Left alignment puts it behind them.
LEMMA LaidLeft ==
  ASSUME NEW align, align = "left", NEW fill, NEW width, NEW sign, NEW body,
         NEW gap, gap = Gap(width, sign, body)
  PROVE  IsLaid(align, fill, width, sign, body, (sign \o body) \o Rep(fill, gap))
<1>1. align # "numeric"
  OBVIOUS
<1> QED
  BY <1>1, Zenon DEF IsLaid, Laid, Gap

\* Centring puts half of it in front, and the larger half behind.
LEMMA LaidCenter ==
  ASSUME NEW align, align = "center", NEW fill, NEW width, NEW sign, NEW body,
         NEW gap, gap = Gap(width, sign, body)
  PROVE  IsLaid(align, fill, width, sign, body,
                ((Rep(fill, gap \div 2) \o sign) \o body) \o Rep(fill, gap - gap \div 2))
<1>1. align # "numeric" /\ align # "left"
  OBVIOUS
<1> QED
  BY <1>1, Zenon DEF IsLaid, Laid, Gap

\* Every other alignment puts it in front.
LEMMA LaidOther ==
  ASSUME NEW align, align # "numeric", align # "left", align # "center",
         NEW fill, NEW width, NEW sign, NEW body, NEW gap, gap = Gap(width, sign, body)
  PROVE  IsLaid(align, fill, width, sign, body, (Rep(fill, gap) \o sign) \o body)
BY Zenon DEF IsLaid, Laid, Gap

\* A last zero of a prefix is not shown.
LEMMA ShownLast ==
  ASSUME NEW s \in Seq(Char), NEW c \in Char
  PROVE  Shown(s \o <<c>>) = IF c = "0" THEN s ELSE s \o <<c>>
<1> DEFINE u == s \o <<c>>
           zero == "0"
<1>1. Len(s) \in Nat
  BY LenProperties
<1>2. u \in Seq(Char) /\ Len(u) = Len(s) + 1 /\ u[Len(u)] = c /\ u # <<>>
      /\ \A i \in 1..Len(s) : u[i] = s[i]
  BY <1>1
<1>3. SubSeq(u, 1, Len(u) - 1) = s
  <2> HIDE DEF u
  <2> DEFINE t == SubSeq(u, 1, Len(s))
  <2>1. t \in Seq(Char) /\ Len(t) = Len(s) /\ \A i \in 1..Len(s) : t[i] = u[i]
    BY <1>1, <1>2, SubSeqProperties
  <2>2. t = s
    <3> HIDE DEF t
    <3> QED
      BY <1>1, <1>2, <2>1, SeqEqual
  <2>3. Len(u) - 1 = Len(s)
    BY <1>1, <1>2
  <2> QED
    BY <2>2, <2>3
<1>4. Shown(u) = IF u # <<>> /\ u[Len(u)] = zero THEN SubSeq(u, 1, Len(u) - 1) ELSE u
  BY Zenon DEF Shown
<1> HIDE DEF u, zero
<1>5. Shown(u) = IF c = zero THEN s ELSE u
  BY <1>2, <1>3, <1>4, Zenon
<1> QED
  BY <1>5, Zenon DEF u, zero

\* The marks are those of the reference.
WantedMark(v, spec) ==
  IF "HASH" \notin spec.flags \/ BaseOf(spec.type) = 10 THEN <<>>
  ELSE IF BaseOf(spec.type) = 8 THEN IF ZeroPadded(v, spec) THEN <<>> ELSE <<"0">>
       ELSE <<"0", spec.type>>

\* The mark that the code writes, and the one that is wanted.
LEMMA MarkWanted ==
  ASSUME NEW v, NEW spec
  PROVE  \/ BaseMark(spec) = <<>> /\ WantedMark(v, spec) = <<>>
         \/ BaseMark(spec) = <<"0">> /\ WantedMark(v, spec) = IF ZeroPadded(v, spec) THEN <<>> ELSE <<"0">>
         \/ /\ spec.type \in {"x", "X", "b", "B"}
            /\ BaseMark(spec) = <<"0", spec.type>> /\ WantedMark(v, spec) = <<"0", spec.type>>
<1>1. CASE "HASH" \notin spec.flags
  BY <1>1, Zenon DEF BaseMark, WantedMark
<1>2. CASE "HASH" \in spec.flags
  <2>1. CASE spec.type = "o"
    <3>1. spec.type \notin {"x", "X"} /\ spec.type \notin {"b", "B"} /\ spec.type \notin {"x", "X", "b", "B"}
      BY <2>1
    <3>2. BaseOf(spec.type) = 8
      BY <2>1, <3>1, Zenon DEF BaseOf
    <3>3. BaseMark(spec) = <<"0">>
      BY <1>2, <2>1, <3>1, Zenon DEF BaseMark
    <3>4. 8 # 10
      OBVIOUS
    <3>5. WantedMark(v, spec) = IF ZeroPadded(v, spec) THEN <<>> ELSE <<"0">>
      BY <1>2, <3>2, <3>4 DEF WantedMark
    <3> QED
      BY <3>3, <3>5, Zenon
  <2>2. CASE spec.type \in {"x", "X", "b", "B"}
    <3>1. spec.type # "o" /\ ~(spec.type \in {"x", "X"} /\ spec.type \in {"b", "B"})
          /\ (spec.type \in {"x", "X"} \/ spec.type \in {"b", "B"})
      BY <2>2
    <3>2. BaseOf(spec.type) = 16 \/ BaseOf(spec.type) = 2
      BY <3>1, Zenon DEF BaseOf
    <3>3. BaseMark(spec) = <<"0", spec.type>>
      BY <1>2, <2>2, <3>1, Zenon DEF BaseMark
    <3>4. BaseOf(spec.type) # 10 /\ BaseOf(spec.type) # 8
      BY <3>2
    <3>5. WantedMark(v, spec) = <<"0", spec.type>>
      BY <1>2, <3>4, Zenon DEF WantedMark
    <3> QED
      BY <2>2, <3>3, <3>5, Zenon
  <2>3. CASE spec.type # "o" /\ spec.type \notin {"x", "X", "b", "B"}
    <3>1. spec.type \notin {"x", "X"} /\ spec.type \notin {"b", "B"}
      BY <2>3
    <3>2. BaseOf(spec.type) = 10
      BY <2>3, <3>1, Zenon DEF BaseOf
    <3> QED
      BY <1>2, <2>3, <3>2, Zenon DEF BaseMark, WantedMark
  <2> QED
    BY <2>1, <2>2, <2>3, Zenon
<1> QED
  BY <1>1, <1>2, Zenon

\* Joining is associative, and the empty text joins nothing.
LEMMA Regrouped ==
  ASSUME NEW s \in Seq(Char), NEW t \in Seq(Char), NEW u \in Seq(Char)
  PROVE  (s \o t) \o u = s \o (t \o u)
BY Joins

\* The empty text joined to either end changes nothing.
LEMMA JoinsNothing ==
  ASSUME NEW s \in Seq(Char)
  PROVE  <<>> \o s = s /\ s \o <<>> = s
BY Joins

\* Two characters.
LEMMA PairJoined ==
  ASSUME NEW y \in Char, NEW z \in Char
  PROVE  <<z>> \in Seq(Char) /\ <<y>> \in Seq(Char) /\ <<z, y>> = <<z>> \o <<y>>
<1> DEFINE p == <<z>> \o <<y>>
           q == <<z, y>>
<1>1. <<z>> \in Seq(Char) /\ <<y>> \in Seq(Char)
  OBVIOUS
<1>2. p \in Seq(Char) /\ Len(p) = 2 /\ p[1] = z /\ p[2] = y
  OBVIOUS
<1>3. q \in Seq(Char) /\ Len(q) = 2 /\ q[1] = z /\ q[2] = y
  OBVIOUS
<1> HIDE DEF p, q
<1>4. \A i \in 1..2 : p[i] = q[i]
  BY <1>2, <1>3
<1>5. p = q
  BY <1>2, <1>3, <1>4, SeqEqual
<1> QED
  BY <1>1, <1>5 DEF p, q

\* What is shown of the prefix is the sign of the reference.
LEMMA PrefixWanted ==
  ASSUME NEW v \in Values, NEW spec, IsSpec(spec)
  PROVE  /\ ZeroPadded(v, spec) => Shown(IntPrefix(v, spec)) = IntSign(v, spec)
         /\ ~ZeroPadded(v, spec) => IntPrefix(v, spec) = IntSign(v, spec)
<1> DEFINE s == SignOf(v < 0, spec)
           t == BaseMark(spec)
           u == WantedMark(v, spec)
<1>1. s \in Seq(Char) /\ t \in Seq(Char)
  BY SignLength, PrefixSeq, Zenon
<1>2. IntPrefix(v, spec) = s \o t /\ IntSign(v, spec) = s \o u
  BY Zenon DEF IntPrefix, IntSign, WantedMark
<1>3. \/ t = <<>> /\ u = <<>>
      \/ t = <<"0">> /\ u = IF ZeroPadded(v, spec) THEN <<>> ELSE <<"0">>
      \/ spec.type \in {"x", "X", "b", "B"} /\ t = <<"0", spec.type>> /\ u = t
  BY MarkWanted, Zenon
<1>4. s = <<>> \/ s = <<"-">> \/ s = <<"+">> \/ s = <<" ">>
  BY SignSeq, Zenon
<1>5. "-" # "0" /\ "+" # "0" /\ " " # "0" /\ (spec.type \in {"x", "X", "b", "B"} => spec.type # "0")
  OBVIOUS
<1> HIDE DEF s, t, u
<1>6. s \o <<>> = s
  BY <1>1, Joins, Zenon
<1>7. CASE t = <<>> /\ u = <<>>
  <2>1. ASSUME NEW c \in Char, s = <<c>>, c # "0"
        PROVE  Shown(s) = s
    <3>1. <<>> \o <<c>> = <<c>>
      BY <1>1, <2>1, Joins, Zenon
    <3>2. Shown(<<>> \o <<c>>) = <<>> \o <<c>>
      BY <2>1, ShownLast, EmptyText, Zenon
    <3> QED
      BY <2>1, <3>1, <3>2, Zenon
  <2>2. s = <<>> => Shown(s) = s
    BY Zenon DEF Shown
  <2>3. Shown(s) = s
    BY <1>4, <1>5, <2>1, <2>2, MarksAreChars, Zenon
  <2> QED
    BY <1>2, <1>6, <1>7, <2>3, Zenon
<1>8. CASE t = <<"0">> /\ u = IF ZeroPadded(v, spec) THEN <<>> ELSE <<"0">>
  <2>1. Shown(s \o <<"0">>) = s
    BY <1>1, ShownLast, ZeroIsChar, Zenon
  <2> QED
    BY <1>2, <1>6, <1>8, <2>1, Zenon
<1>9. CASE spec.type \in {"x", "X", "b", "B"} /\ t = <<"0", spec.type>> /\ u = t
  <2> DEFINE z == "0"
             y == spec.type
             a == s \o <<z>>
  <2>1. y \in Char /\ z \in Char
    BY <1>9, ZeroIsChar, LettersAreChars, Zenon DEF Letters
  <2> HIDE DEF y, z
  <2>2. <<z>> \in Seq(Char) /\ <<y>> \in Seq(Char) /\ <<z, y>> = <<z>> \o <<y>>
    BY <2>1, PairJoined, Zenon
  <2>3. a \in Seq(Char) /\ s \o (<<z>> \o <<y>>) = a \o <<y>>
    <3> DEFINE b == <<z>>
               c == <<y>>
    <3>1. b \in Seq(Char) /\ c \in Seq(Char)
      BY <2>2, Zenon
    <3> HIDE DEF b, c
    <3>2. s \o b \in Seq(Char)
      BY <1>1, <3>1, Joined, Zenon
    <3>3. (s \o b) \o c = s \o (b \o c)
      BY <1>1, <3>1, Regrouped, Zenon
    <3> QED
      BY <3>2, <3>3, Zenon DEF b, c
  <2> HIDE DEF a
  <2>4. y # "0"
    BY <1>5, <1>9, Zenon DEF y
  <2>5. Shown(a \o <<y>>) = a \o <<y>>
    BY <2>1, <2>3, <2>4, ShownLast, Zenon
  <2>6. t = <<z, y>>
    BY <1>9, Zenon DEF y, z
  <2> QED
    BY <1>2, <1>9, <2>2, <2>3, <2>5, <2>6, Zenon
<1> QED
  BY <1>3, <1>7, <1>8, <1>9, Zenon

\* A field around its digits is laid out as the reference lays it out.
LEMMA FieldLaid ==
  ASSUME NEW d \in Seq(Char), NEW spec, spec.width \in Nat, spec.fill \in Char, NEW prefix \in Seq(Char)
  PROVE  (FieldHead(Len(d), spec, prefix) \o d) \o FieldTail(Len(d), spec, prefix)
           = Laid(spec.align, spec.fill, spec.width, prefix, d)
<1> DEFINE n == Len(d)
           padding == FieldPadding(n, spec, prefix)
           left == FieldLeft(n, spec, prefix)
           gap == Gap(spec.width, prefix, d)
           head == FieldHead(n, spec, prefix)
           tail == FieldTail(n, spec, prefix)
           fill == spec.fill
<1>1. n \in Nat /\ Len(prefix) \in Nat
  BY LenProperties
<1>2. padding \in Nat /\ gap = padding
  <2>1. spec.width - Len(prefix) - n = spec.width - (Len(prefix) + n)
    BY <1>1
  <2>2. padding = gap
    BY <2>1, Zenon DEF FieldPadding, Gap
  <2>3. padding \in Nat
    BY <1>1, FieldParts, Zenon
  <2> QED
    BY <2>2, <2>3, Zenon
<1>21. padding = Gap(spec.width, prefix, d)
  BY <1>2, Zenon
<1>3. /\ left = IF spec.align = "left" THEN 0 ELSE IF spec.align = "center" THEN padding \div 2 ELSE padding
      /\ head = IF spec.align = "numeric" THEN prefix \o Rep(fill, left) ELSE Rep(fill, left) \o prefix
      /\ tail = Rep(fill, padding - left)
  BY Zenon DEF FieldLeft, FieldHead, FieldTail
<1> DEFINE none == Rep(fill, 0)
           all == Rep(fill, padding)
<1>4. none = <<>> /\ all \in Seq(Char) /\ fill \in Char
  <2>1. fill \in Char /\ 0 \in Nat
    OBVIOUS
  <2> HIDE DEF padding, fill
  <2> QED
    BY <1>2, <2>1, RepSeq, Zenon
<1> DEFINE laid == Laid(spec.align, fill, spec.width, prefix, d)
<1>5. "numeric" # "left" /\ "numeric" # "center" /\ "left" # "center"
  OBVIOUS
<1> HIDE DEF padding, left, gap, head, tail, fill
<1>6. CASE spec.align = "numeric"
  <2>1. left = padding /\ padding - left = 0
    BY <1>2, <1>3, <1>5, <1>6
  <2>2. head = prefix \o all /\ tail = <<>>
    BY <1>3, <1>4, <1>6, <2>1, Zenon
  <2>3. laid = (prefix \o all) \o d
    <3>1. IsLaid(spec.align, fill, spec.width, prefix, d, (prefix \o all) \o d)
      BY <1>21, <1>6, LaidNumeric, Zenon
    <3> QED
      BY <3>1, Zenon DEF IsLaid
  <2> HIDE DEF all, laid
  <2>4. (prefix \o all) \o d \in Seq(Char)
    BY <1>4, Joined, Zenon
  <2>5. ((prefix \o all) \o d) \o <<>> = (prefix \o all) \o d
    BY <2>4, JoinsNothing, Zenon
  <2> QED
    BY <2>2, <2>3, <2>5, Zenon DEF head, tail, laid, n, fill
<1>7. CASE spec.align = "left"
  <2>1. left = 0 /\ padding - left = padding
    BY <1>2, <1>3, <1>7
  <2>2. head = <<>> \o prefix /\ tail = all
    BY <1>3, <1>4, <1>5, <1>7, <2>1, Zenon
  <2>3. laid = (prefix \o d) \o all
    <3>1. IsLaid(spec.align, fill, spec.width, prefix, d, (prefix \o d) \o all)
      BY <1>21, <1>7, LaidLeft, Zenon
    <3> QED
      BY <3>1, Zenon DEF IsLaid
  <2>4. <<>> \o prefix = prefix
    BY JoinsNothing, Zenon
  <2> QED
    BY <2>2, <2>3, <2>4, Zenon DEF head, tail, laid, n, fill
<1>8. CASE spec.align = "center"
  <2>1. left = padding \div 2
    BY <1>3, <1>5, <1>8
  <2>2. head = Rep(fill, padding \div 2) \o prefix /\ tail = Rep(fill, padding - padding \div 2)
    BY <1>3, <1>5, <1>8, <2>1, Zenon
  <2>3. laid = ((Rep(fill, padding \div 2) \o prefix) \o d) \o Rep(fill, padding - padding \div 2)
    <3>1. IsLaid(spec.align, fill, spec.width, prefix, d, ((Rep(fill, padding \div 2) \o prefix) \o d) \o Rep(fill, padding - padding \div 2))
      BY <1>21, <1>8, LaidCenter, Zenon
    <3> QED
      BY <3>1, Zenon DEF IsLaid
  <2> QED
    BY <2>2, <2>3, Zenon DEF head, tail, laid, n, fill
<1>9. CASE spec.align # "numeric" /\ spec.align # "left" /\ spec.align # "center"
  <2>1. left = padding /\ padding - left = 0
    BY <1>2, <1>3, <1>9
  <2>2. head = all \o prefix /\ tail = <<>>
    BY <1>3, <1>4, <1>9, <2>1, Zenon
  <2>3. laid = (all \o prefix) \o d
    <3>1. IsLaid(spec.align, fill, spec.width, prefix, d, (all \o prefix) \o d)
      BY <1>21, <1>9, LaidOther, Zenon
    <3> QED
      BY <3>1, Zenon DEF IsLaid
  <2> HIDE DEF all, laid
  <2>4. (all \o prefix) \o d \in Seq(Char)
    BY <1>4, Joined, Zenon
  <2>5. ((all \o prefix) \o d) \o <<>> = (all \o prefix) \o d
    BY <2>4, JoinsNothing, Zenon
  <2> QED
    BY <2>2, <2>3, <2>5, Zenon DEF head, tail, laid, n, fill
<1> QED
  BY <1>6, <1>7, <1>8, <1>9, Zenon

\* So is a number that is filled with zeros.
LEMMA ZerosLaid ==
  ASSUME NEW d \in Seq(Char), NEW spec, IsSpec(spec), NEW prefix \in Seq(Char), Len(d) < spec.precision
  PROVE  (IntHead(Len(d), spec, prefix) \o d) \o IntTail(Len(d), spec, prefix)
           = Laid(IF spec.align # "left" THEN "right" ELSE spec.align, spec.fill, spec.width,
                  Shown(prefix), Rep("0", spec.precision - Len(d)) \o d)
<1> DEFINE n == Len(d)
           s == Shown(prefix)
           number == NumberSize(spec, prefix)
           zeros == Rep("0", spec.precision - n)
           body == zeros \o d
           gap == Gap(spec.width, s, body)
           pad == Rep(spec.fill, gap)
           rest == Rep(spec.fill, spec.width - number)
           text == (IntHead(n, spec, prefix) \o d) \o IntTail(n, spec, prefix)
           align == IF spec.align # "left" THEN "right" ELSE spec.align
           laid == Laid(align, spec.fill, spec.width, s, body)
<1>1. spec.width \in Nat /\ spec.precision \in Int /\ spec.fill \in Char /\ n \in Nat
  BY LenProperties DEF IsSpec
<1>2. spec.precision - n \in Nat /\ ~(spec.precision <= n)
  BY <1>1
<1>3. zeros \in Seq(Char) /\ Len(zeros) = spec.precision - n
  BY <1>2, ZeroIsChar, RepSeq, Zenon
<1>4. s \in Seq(Char) /\ number = Len(s) + spec.precision /\ Len(s) \in Nat
  BY ShownSeq, LenProperties DEF NumberSize
<1>5. NumberHead(n, spec, prefix) = s \o zeros
  BY Zenon DEF NumberHead
<1> HIDE DEF s, zeros
<1>6. body \in Seq(Char) /\ Len(body) = (spec.precision - n) + n
  BY <1>3, Joined, Zenon
<1> HIDE DEF body, n
<1>7. gap = IF spec.width <= number THEN 0 ELSE spec.width - number
  <2>1. Len(body) = spec.precision
    BY <1>1, <1>6
  <2> QED
    BY <1>1, <1>4, <2>1 DEF Gap, Max2
<1>8. gap \in Nat /\ number \in Nat
  BY <1>1, <1>2, <1>4, <1>7
<1> HIDE DEF gap, number
<1>9. pad \in Seq(Char) /\ (gap = 0 => pad = <<>>)
  BY <1>1, <1>8, RepSeq, Zenon
<1> DEFINE fill == spec.fill
           width == spec.width
           theGap == Gap(width, s, body)
<1>91. gap = theGap
  BY Zenon DEF gap
<1>92. /\ spec.align # "left" => align # "numeric" /\ align # "left" /\ align # "center"
       /\ spec.align = "left" => align = "left"
  OBVIOUS
<1> HIDE DEF align
<1>10. (s \o zeros) \o d = s \o body
  BY <1>3, <1>4, Regrouped, Zenon DEF body
<1>11. s \o body \in Seq(Char) /\ s \o zeros \in Seq(Char)
  BY <1>3, <1>4, <1>6, Joined, Zenon
<1>12. CASE spec.width <= number
  <2>1. pad = <<>>
    BY <1>7, <1>9, <1>12, Zenon
  <2>2. text = ((s \o zeros) \o d) \o <<>>
    BY <1>2, <1>5, <1>12, Zenon DEF IntHead, IntTail, number
  <2>3. text = s \o body
    BY <1>10, <1>11, <2>2, JoinsNothing, Zenon
  <2>4. laid = s \o body
    <3>1. CASE spec.align # "left"
      <4>2. laid = (pad \o s) \o body
        <5>1. IsLaid(align, spec.fill, spec.width, s, body, (pad \o s) \o body)
          BY <1>91, <1>92, <3>1, LaidOther, Zenon
        <5> QED
          BY <5>1, Zenon DEF IsLaid
      <4>3. <<>> \o s = s
        BY <1>4, JoinsNothing, Zenon
      <4> QED
        BY <2>1, <4>2, <4>3, Zenon
    <3>2. CASE spec.align = "left"
      <4>1. laid = (s \o body) \o pad
        <5>1. IsLaid(align, spec.fill, spec.width, s, body, (s \o body) \o pad)
          BY <1>91, <1>92, <3>2, LaidLeft, Zenon
        <5> QED
          BY <5>1, Zenon DEF IsLaid
      <4> QED
        BY <1>11, <2>1, <4>1, JoinsNothing, Zenon
    <3> QED
      BY <3>1, <3>2, Zenon
  <2> QED
    BY <2>3, <2>4, Zenon DEF n, s, zeros, body, align
<1>13. CASE ~(spec.width <= number)
  <2>1. pad = rest
    BY <1>7, <1>13, Zenon
  <2>2. CASE spec.align # "left"
    <3>2. laid = (pad \o s) \o body
      <4>1. IsLaid(align, spec.fill, spec.width, s, body, (pad \o s) \o body)
        BY <1>91, <1>92, <2>2, LaidOther, Zenon
      <4> QED
        BY <4>1, Zenon DEF IsLaid
    <3>3. text = ((rest \o (s \o zeros)) \o d) \o <<>>
      BY <1>2, <1>5, <1>13, <2>2, Zenon DEF IntHead, IntTail, number
    <3> HIDE DEF pad, rest
    <3>4. (pad \o (s \o zeros)) \o d \in Seq(Char) /\ pad \o (s \o zeros) \in Seq(Char)
      BY <1>9, <1>11, Joined, Zenon
    <3>5. text = (pad \o (s \o zeros)) \o d
      BY <2>1, <3>3, <3>4, JoinsNothing, Zenon
    <3>6. (pad \o (s \o zeros)) \o d = pad \o ((s \o zeros) \o d)
      BY <1>9, <1>11, Regrouped, Zenon
    <3>7. (pad \o s) \o body = pad \o (s \o body)
      BY <1>4, <1>6, <1>9, Regrouped, Zenon
    <3> QED
      BY <1>10, <3>2, <3>5, <3>6, <3>7, Zenon DEF n, s, zeros, body, align
  <2>3. CASE spec.align = "left"
    <3>1. laid = (s \o body) \o pad
      <4>1. IsLaid(align, spec.fill, spec.width, s, body, (s \o body) \o pad)
        BY <1>91, <1>92, <2>3, LaidLeft, Zenon
      <4> QED
        BY <4>1, Zenon DEF IsLaid
    <3>2. text = ((s \o zeros) \o d) \o rest
      BY <1>2, <1>5, <1>13, <2>3, Zenon DEF IntHead, IntTail, number
    <3> QED
      BY <1>10, <2>1, <3>1, <3>2, Zenon DEF n, s, zeros, body, align
  <2> QED
    BY <2>2, <2>3, Zenon
<1> QED
  BY <1>12, <1>13, Zenon

\* The characters of an integer are the ones that are wanted.
LEMMA IntTextWanted ==
  ASSUME NEW v \in Values, NEW spec, IsSpec(spec)
  PROVE  IntText(v, spec)
           = Laid(IF ZeroPadded(v, spec) /\ spec.align # "left" THEN "right" ELSE spec.align,
                  spec.fill, spec.width, IntSign(v, spec), IntBody(v, spec))
<1> DEFINE d == Magnitude(v, spec)
           n == Len(d)
           prefix == IntPrefix(v, spec)
<1>1. d \in Seq(Char) /\ n \in Nat /\ prefix \in Seq(Char)
  BY MagnitudeSeq, PrefixSeq, Zenon
<1>2. spec.width \in Nat /\ spec.precision \in Int /\ spec.fill \in Char
  BY Zenon DEF IsSpec
<1>3. ZeroPadded(v, spec) <=> n < spec.precision
  <2>1. ZeroPadded(v, spec) <=> spec.precision > n
    BY Zenon DEF ZeroPadded
  <2> HIDE DEF n
  <2> QED
    BY <1>1, <1>2, <2>1
<1>4. IntText(v, spec) = (IntHead(n, spec, prefix) \o d) \o IntTail(n, spec, prefix)
  BY Zenon DEF IntText
<1>5. IntBody(v, spec) = Rep("0", Max2(0, spec.precision - n)) \o d
  BY Zenon DEF IntBody
<1>6. CASE ZeroPadded(v, spec)
  <2>1. Shown(prefix) = IntSign(v, spec)
    BY <1>6, PrefixWanted, Zenon
  <2>2. Max2(0, spec.precision - n) = spec.precision - n
    <3> HIDE DEF n
    <3> QED
      BY <1>1, <1>2, <1>3, <1>6 DEF Max2
  <2> HIDE DEF d, prefix
  <2>3. (IntHead(n, spec, prefix) \o d) \o IntTail(n, spec, prefix)
           = Laid(IF spec.align # "left" THEN "right" ELSE spec.align, spec.fill, spec.width,
                  Shown(prefix), Rep("0", spec.precision - n) \o d)
    BY <1>1, <1>3, <1>6, ZerosLaid, Zenon
  <2> QED
    BY <1>4, <1>5, <1>6, <2>1, <2>2, <2>3, Zenon
<1>7. CASE ~ZeroPadded(v, spec)
  <2>1. prefix = IntSign(v, spec)
    BY <1>7, PrefixWanted, Zenon
  <2>2. Max2(0, spec.precision - n) = 0 /\ spec.precision <= n
    <3> HIDE DEF n
    <3> QED
      BY <1>1, <1>2, <1>3, <1>7 DEF Max2
  <2>3. Rep("0", 0) \o d = d
    <3>1. Rep("0", 0) = <<>>
      BY ZeroIsChar, RepSeq
    <3> QED
      BY <1>1, <3>1, JoinsNothing, Zenon
  <2> HIDE DEF d, prefix
  <2>4. (FieldHead(n, spec, prefix) \o d) \o FieldTail(n, spec, prefix)
           = Laid(spec.align, spec.fill, spec.width, prefix, d)
    BY <1>1, <1>2, FieldLaid, Zenon
  <2>5. IntHead(n, spec, prefix) = FieldHead(n, spec, prefix) /\ IntTail(n, spec, prefix) = FieldTail(n, spec, prefix)
    BY <2>2, Zenon DEF IntHead, IntTail
  <2> QED
    BY <1>4, <1>5, <1>7, <2>1, <2>2, <2>3, <2>4, <2>5, Zenon
<1> QED
  BY <1>6, <1>7, Zenon

-----------------------------------------------------------------------------
(* Statements                                                              *)

\* The statements known to write through a stale pointer are those whose padding
\* on the right moves the storage.
LEMMA FreedPads ==
  ASSUME NEW m, m.size \in Nat, m.capacity \in Nat, NEW st, st.op = "int", st.num \in Values, IsSpec(st.spec)
  PROVE  WritesFreed(m, st) <=>
           /\ PadsAfter(Len(Magnitude(st.num, st.spec)), st.spec, IntPrefix(st.num, st.spec))
           /\ ~PaddingFits(m, st.num, st.spec)
<1> DEFINE v == st.num
           spec == st.spec
           n == Len(Magnitude(v, spec))
           prefix == IntPrefix(v, spec)
           number == NumberSize(spec, prefix)
           count == Len(IntSign(v, spec)) + spec.precision
<1>1. n \in Nat /\ prefix \in Seq(Char) /\ spec.width \in Nat /\ spec.precision \in Int
  BY MagnitudeSeq, PrefixSeq, Zenon DEF IsSpec
<1>2. ZeroPadded(v, spec) <=> spec.precision > n
  BY Zenon DEF ZeroPadded
<1>3. WritesFreed(m, st) <=>
        /\ ZeroPadded(v, spec) /\ spec.align = "left"
        /\ count < spec.width /\ m.size + spec.width > Fitted(m, count, spec.width)
  BY Zenon DEF WritesFreed, Fitted, Room
<1> HIDE DEF v, spec
<1>4. (spec.precision > n) <=> (n < spec.precision)
  <2> HIDE DEF n
  <2> QED
    BY <1>1
<1>5. CASE ~(n < spec.precision)
  BY <1>2, <1>3, <1>4, <1>5, Zenon DEF PadsAfter, v, spec
<1>6. CASE n < spec.precision
  <2>1. v \in Values /\ IsSpec(spec)
    BY Zenon DEF v, spec
  <2>2. Shown(prefix) = IntSign(v, spec)
    BY <1>2, <1>4, <1>6, <2>1, PrefixWanted, Zenon
  <2>3. count = number
    BY <2>2, Zenon DEF NumberSize
  <2>4. number \in Nat
    BY <1>1, <1>6, <2>1, NumberParts, Zenon
  <2> HIDE DEF number, count
  <2> DEFINE fitted == Fitted(m, number, spec.width)
  <2>5. fitted \in Int
    BY <1>1, <2>4 DEF Fitted, Room, Max2
  <2> HIDE DEF fitted
  <2>6. (m.size + spec.width > fitted) <=> ~(m.size + spec.width <= fitted)
    BY <1>1, <2>5
  <2>7. PaddingFits(m, v, spec) <=> m.size + spec.width <= fitted
    BY Zenon DEF PaddingFits, fitted, number
  <2>8. WritesFreed(m, st) <=> spec.align = "left" /\ number < spec.width /\ m.size + spec.width > fitted
    BY <1>2, <1>3, <1>4, <1>6, <2>3, Zenon DEF fitted
  <2>9. PadsAfter(n, spec, prefix) <=> number < spec.width /\ spec.align = "left"
    BY <1>6, Zenon DEF PadsAfter, number
  <2> QED
    BY <2>6, <2>7, <2>8, <2>9, Zenon DEF v, spec
<1> QED
  BY <1>5, <1>6, Zenon

\* A text in its padding is laid out as the reference lays it out.
LEMMA FramedLaid ==
  ASSUME NEW s \in Seq(Char), NEW width \in Nat, NEW fill \in Char, NEW align
  PROVE  LET padding == Max2(0, width - Len(s))
             left == LeftPadding(align, padding)
         IN  Framed(fill, left, s, padding - left) = Laid(TextAlign(align), fill, width, <<>>, s)
<1> DEFINE padding == Max2(0, width - Len(s))
           left == LeftPadding(align, padding)
           framed == Framed(fill, left, s, padding - left)
           to == TextAlign(align)
           none == <<>>
           laid == Laid(to, fill, width, none, s)
           all == Rep(fill, padding)
<1>1. Len(s) \in Nat /\ Len(<<>>) = 0
  BY LenProperties, EmptyText
<1>2. padding \in Nat /\ left \in Nat /\ padding - left \in Nat
  BY <1>1, PaddingBounds, Zenon
<1>3. padding = Gap(width, <<>>, s)
  <2>1. width - Len(<<>>) - Len(s) = width - Len(s)
    BY <1>1
  <2> QED
    BY <2>1, Zenon DEF Gap
<1>4. framed = (Rep(fill, left) \o s) \o Rep(fill, padding - left)
  BY Zenon DEF Framed
<1>5. none \in Seq(Char) /\ none \o s = s
  BY EmptyText, JoinsNothing, Zenon
<1>51. padding = Gap(width, none, s)
  BY <1>3, Zenon
<1> HIDE DEF padding, framed, to, laid
<1>6. Rep(fill, 0) = none /\ all \in Seq(Char)
  <2>1. Rep(fill, 0) = <<>>
    BY RepSeq
  <2>2. all \in Seq(Char)
    BY <1>2, RepSeq, Zenon
  <2> QED
    BY <2>1, <2>2, Zenon
<1>7. CASE align = "right"
  <2>1. to = "right"
    BY <1>7 DEF TextAlign, to
  <2>2. to # "numeric" /\ to # "left" /\ to # "center"
    BY <2>1
  <2>3. IsLaid(to, fill, width, none, s, (Rep(fill, padding) \o none) \o s)
    BY <1>51, <2>2, LaidOther, Zenon
  <2>4. left = padding /\ padding - left = 0
    <3>1. left = padding
      BY <1>7, Zenon DEF LeftPadding
    <3> QED
      BY <1>2, <3>1
  <2>5. framed = (all \o s) \o none
    BY <1>4, <1>6, <2>4, Zenon
  <2>6. laid = (all \o none) \o s
    BY <2>3, Zenon DEF IsLaid, laid
  <2> HIDE DEF all
  <2>7. all \o none = all
    BY <1>6, JoinsNothing, Zenon
  <2>8. (all \o s) \o none = all \o s
    <3>1. all \o s \in Seq(Char)
      BY <1>6, Joined, Zenon
    <3> QED
      BY <3>1, JoinsNothing, Zenon
  <2> QED
    BY <2>5, <2>6, <2>7, <2>8, Zenon DEF framed, laid, to, padding
<1>8. CASE align = "center"
  <2>1. to = "center"
    BY <1>8 DEF TextAlign, to
  <2>2. IsLaid(to, fill, width, none, s, ((Rep(fill, padding \div 2) \o none) \o s) \o Rep(fill, padding - padding \div 2))
    BY <1>51, <2>1, LaidCenter, Zenon
  <2>3. left = padding \div 2
    <3>1. align # "right"
      BY <1>8
    <3> QED
      BY <1>8, <3>1, Zenon DEF LeftPadding
  <2> DEFINE half == Rep(fill, padding \div 2)
             rest == Rep(fill, padding - padding \div 2)
  <2>4. framed = (half \o s) \o rest
    BY <1>4, <2>3, Zenon
  <2>5. laid = ((half \o none) \o s) \o rest
    BY <2>2, Zenon DEF IsLaid, laid
  <2>6. half \in Seq(Char)
    BY <1>2, <2>3, RepSeq, Zenon
  <2> HIDE DEF half, rest
  <2>7. half \o none = half
    BY <2>6, JoinsNothing, Zenon
  <2> QED
    BY <2>4, <2>5, <2>7, Zenon DEF framed, laid, to, padding
<1>9. CASE align # "right" /\ align # "center"
  <2>1. to = "left"
    BY <1>9 DEF TextAlign, to
  <2>2. IsLaid(to, fill, width, none, s, (none \o s) \o Rep(fill, padding))
    BY <1>51, <2>1, LaidLeft, Zenon
  <2>3. left = 0 /\ padding - left = padding
    <3>1. left = 0
      BY <1>9, Zenon DEF LeftPadding
    <3> QED
      BY <1>2, <3>1
  <2>4. framed = (none \o s) \o all
    BY <1>4, <1>6, <2>3, Zenon
  <2>5. laid = (none \o s) \o all
    BY <2>2, Zenon DEF IsLaid, laid
  <2> QED
    BY <2>4, <2>5, Zenon DEF framed, laid, to, padding
<1> QED
  BY <1>7, <1>8, <1>9, Zenon

\* write_str() appends what is wanted.
LEMMA StrWanted ==
  ASSUME NEW m, Fits(m), NEW s \in Seq(Char), NEW spec, spec.width \in Nat, spec.fill \in Char
  PROVE  Appended(m, Laid(TextAlign(spec.align), spec.fill, spec.width, <<>>, s), WriteStrAt(m, s, spec).m)
<1> DEFINE padding == Max2(0, spec.width - Len(s))
           left == LeftPadding(spec.align, padding)
           framed == Framed(spec.fill, left, s, padding - left)
<1>1. Appended(m, framed, WriteStrAt(m, s, spec).m)
  BY WriteStrAtAppended, Zenon
<1>2. framed = Laid(TextAlign(spec.align), spec.fill, spec.width, <<>>, s)
  BY FramedLaid, Zenon
<1> QED
  BY <1>1, <1>2, Zenon

-----------------------------------------------------------------------------
(* Floating-point numbers: a text put together behind the content          *)

\* What holds a joined text holds its parts.
LEMMA HoldsSplit ==
  ASSUME NEW m, NEW s \in Seq(Char), NEW t \in Seq(Char), NEW o \in Nat, NEW n \in Nat, Len(s) = n,
         Holds(m, o, s \o t)
  PROVE  Holds(m, o, s) /\ Holds(m, o + n, t)
<1> DEFINE u == s \o t
           k == Len(t)
<1>1. k \in Nat
  BY LenProperties
<1>2. /\ u \in Seq(Char) /\ Len(u) = n + k
      /\ \A i \in 1..(n + k) : u[i] = IF i <= n THEN s[i] ELSE t[i - n]
  BY Joined
<1>3. \A i \in 1..(n + k) : m.cells[o + i - 1] = u[i]
  BY <1>2, Zenon DEF Holds
<1> HIDE DEF u, k
<1>4. ASSUME NEW i \in 1..n
      PROVE  m.cells[o + i - 1] = s[i]
  <2>1. i \in 1..(n + k) /\ i <= n
    BY <1>1
  <2> QED
    BY <1>2, <1>3, <2>1, Zenon
<1>5. ASSUME NEW i \in 1..k
      PROVE  m.cells[o + n + i - 1] = t[i]
  <2>1. n + i \in 1..(n + k) /\ ~(n + i <= n) /\ (n + i) - n = i /\ o + (n + i) - 1 = o + n + i - 1
    BY <1>1
  <2>2. m.cells[o + (n + i) - 1] = t[(n + i) - n]
    BY <1>2, <1>3, <2>1, Zenon
  <2> QED
    BY <2>1, <2>2, Zenon
<1> QED
  BY <1>4, <1>5, Zenon DEF Holds, k

\* Behind the content, which is what it was at m, a text is put together.
Drafted(m, r, s) ==
  /\ From(m, r) /\ r.faults = m.faults
  /\ Runs(r) => r.size = m.size /\ m.size + Len(s) <= r.capacity /\ Holds(r, m.size, s)

\* The same, whatever is counted of it.
Stands(m, r, s, z) ==
  /\ From(m, r) /\ r.faults = m.faults
  /\ Runs(r) => r.size = z /\ m.size + Len(s) <= r.capacity /\ Holds(r, m.size, s)

\* Texts of one length.
SameLength(b, t) == Len(b) = Len(t)
PointsBehind(p, m, r, a) == p.off = m.size + Len(a) /\ p.gen = r.gen
Rewritten(m, r, w, s, z) == Stands(m, w, s, z) /\ w.gen = r.gen /\ w.capacity = r.capacity

\* Characters of a text are replaced by as many others.
LEMMA Overwritten ==
  ASSUME NEW m, Fits(m), NEW a \in Seq(Char), NEW b \in Seq(Char), NEW c \in Seq(Char),
         NEW t \in Seq(Char), SameLength(b, t), NEW r, NEW z, Stands(m, r, (a \o b) \o c, z),
         NEW p, PointsBehind(p, m, r, a)
  PROVE  Rewritten(m, r, Put(r, p, t), (a \o t) \o c, z)
<1>0. Len(b) = Len(t) /\ p.off = m.size + Len(a) /\ p.gen = r.gen
  BY Zenon DEF SameLength, PointsBehind
<1> DEFINE w == Put(r, p, t)
           old == (a \o b) \o c
           new == (a \o t) \o c
           o == m.size
           k == Len(a)
           n == Len(t)
           l == Len(c)
<1>1. o \in Nat /\ k \in Nat /\ n \in Nat /\ l \in Nat
  BY LenProperties DEF Fits
<1>2. From(m, r) /\ r.faults = m.faults /\ Fits(r)
  BY FromFits, Zenon DEF Stands
<1>3. CASE ~Runs(r)
  <2>1. w = r
    BY <1>3, PutIdle, Zenon
  <2> QED
    BY <1>2, <1>3, <2>1, Zenon DEF Stands, Rewritten
<1>4. CASE Runs(r)
  <2>1. a \o b \in Seq(Char) /\ Len(a \o b) = k + n
    <3>1. a \o b \in Seq(Char) /\ Len(a \o b) = k + Len(b)
      BY Joined, Zenon
    <3> QED
      BY <1>0, <3>1, Zenon
  <2>2. a \o t \in Seq(Char) /\ Len(a \o t) = k + n
    BY Joined, Zenon
  <2>3. old \in Seq(Char) /\ Len(old) = (k + n) + l
    BY <2>1, Joined
  <2>4. new \in Seq(Char) /\ Len(new) = (k + n) + l
    BY <2>2, Joined
  <2>5. r.size = z /\ o + Len(old) <= r.capacity /\ Holds(r, o, old)
    BY <1>4, Zenon DEF Stands
  <2> HIDE DEF o, k, n, l
  <2>6. /\ o + ((k + n) + l) <= r.capacity /\ r.capacity \in Nat
        /\ p.off = o + k /\ o + k \in Nat /\ k + n \in Nat /\ o + (k + n) \in Nat
        /\ (o + k) + n <= r.capacity /\ o <= o + k /\ o + k \in Int
        /\ o + k <= o + k /\ (o + (k + n)) + l <= r.capacity /\ (o + k) + n <= o + (k + n)
        /\ o + k <= r.capacity /\ (o + k) + n = o + (k + n)
    <3>1. r.capacity \in Nat
      BY <1>2 DEF Fits
    <3>2. o + ((k + n) + l) <= r.capacity
      BY <2>3, <2>5, Zenon
    <3>3. p.off = o + k
      BY <1>0, Zenon DEF o, k
    <3> QED
      BY <1>1, <3>1, <3>2, <3>3
  <2>7. Holds(r, o, a \o b) /\ Holds(r, o + (k + n), c)
    BY <1>1, <2>1, <2>5, <2>6, HoldsSplit, Zenon
  <2>8. Holds(r, o, a)
    BY <1>1, <2>7, HoldsSplit, Zenon DEF k
  <2>9. Holds(w, o + k, t)
    BY <1>0, <1>1, <1>2, <1>4, <2>6, StoreHolds, Zenon DEF n
  <2>10. Holds(w, o, a)
    BY <1>0, <1>1, <1>2, <1>4, <2>6, <2>8, StoreLeaves, Zenon DEF n, k
  <2>11. Holds(w, o + (k + n), c)
    BY <1>0, <1>1, <1>2, <1>4, <2>6, <2>7, StoreLeaves, Zenon DEF n, l
  <2>12. Holds(w, o, a \o t)
    BY <1>1, <2>6, <2>9, <2>10, HoldsJoined, Zenon DEF k
  <2>13. Holds(w, o, new)
    BY <1>1, <2>2, <2>6, <2>11, <2>12, HoldsJoined, Zenon
  <2>14. From(m, w)
    BY <1>2, <2>6, PutFrom, Zenon DEF o
  <2>15. Runs(w) /\ w.size = r.size /\ w.capacity = r.capacity /\ w.gen = r.gen /\ w.faults = r.faults
    BY <1>0, <1>1, <1>2, <1>4, <2>6, StoreIn DEF n
  <2>16. o + Len(new) <= w.capacity
    BY <2>4, <2>6, <2>15, Zenon
  <2> HIDE DEF w, new
  <2>17. Stands(m, w, new, z)
    BY <1>2, <2>5, <2>13, <2>14, <2>15, <2>16, Zenon DEF Stands, o
  <2> QED
    BY <2>15, <2>17, Zenon DEF w, new, Rewritten
<1> QED
  BY <1>3, <1>4, Zenon

\* snprintf() into the room behind offset: what fits, and a NUL.
LEMMA Printed ==
  ASSUME NEW m, Fits(m), NEW r, From(m, r), r.faults = m.faults, Runs(r) => r.size = m.size,
         NEW offset \in Nat, m.size <= offset, NEW s \in Seq(Char)
  PROVE  LET w == Snprintf(r, offset, s)
         IN  /\ From(m, w) /\ w.faults = m.faults /\ (Runs(w) <=> Runs(r))
             /\ w.size = r.size /\ w.capacity = r.capacity /\ w.gen = r.gen
             /\ Runs(r) /\ FitsIn(offset, Len(s), r) => Holds(w, offset, s)
<1> DEFINE w == Snprintf(r, offset, s)
           room == r.capacity - offset
           k == IF Len(s) < room THEN Len(s) ELSE room - 1
           cut == SubSeq(s, 1, k)
           out == cut \o <<NUL>>
           p == Pointer(r, offset)
<1>1. Fits(r) /\ Len(s) \in Nat
  BY FromFits, LenProperties
<1>2. r.capacity \in Nat
  BY <1>1 DEF Fits
<1>3. w = IF room <= 0 THEN r ELSE Put(r, p, out)
  BY Zenon DEF Snprintf
<1>4. FitsIn(offset, Len(s), r) <=> offset + Len(s) < r.capacity
  BY Zenon DEF FitsIn
<1>5. p.off = offset /\ p.gen = r.gen
  BY PointerFields, Zenon
<1> HIDE DEF w, p
<1>6. CASE ~Runs(r) \/ room <= 0
  <2>1. w = r
    BY <1>3, <1>6, PutIdle, Zenon
  <2>2. ~Runs(r) \/ ~FitsIn(offset, Len(s), r)
    <3> DEFINE run == Runs(r)
    <3> HIDE DEF run
    <3>1. ~run \/ room <= 0
      BY <1>6 DEF run
    <3> QED
      BY <1>1, <1>2, <1>4, <3>1 DEF run
  <2> QED
    BY <2>1, <2>2, Zenon DEF w
<1>7. CASE Runs(r) /\ ~(room <= 0)
  <2>1. k \in Nat /\ k <= Len(s) /\ k + 1 <= room
    BY <1>1, <1>2, <1>7
  <2> HIDE DEF k
  <2>2. cut \in Seq(Char) /\ Len(cut) = k /\ (k = Len(s) => cut = s)
    <3>1. cut \in Seq(Char) /\ Len(cut) = k
      BY <1>1, <2>1, SubSeqProperties
    <3>2. k = Len(s) => cut = s
      BY <1>1, SubSeqProperties, SeqEqual
    <3> QED
      BY <3>1, <3>2
  <2>3. <<NUL>> \in Seq(Char) /\ Len(<<NUL>>) = 1
    <3> DEFINE z == NUL
    <3>1. z \in Char
      BY MarksAreChars, Zenon
    <3> HIDE DEF z
    <3>2. <<z>> \in Seq(Char) /\ Len(<<z>>) = 1
      BY <3>1
    <3> QED
      BY <3>2, Zenon DEF z
  <2> HIDE DEF cut
  <2> DEFINE nul == <<NUL>>
             size == Len(out)
  <2> HIDE DEF nul
  <2>4. out \in Seq(Char) /\ size = k + 1
    BY <2>2, <2>3, Joined DEF nul
  <2>5. /\ size \in Nat /\ offset + size <= r.capacity /\ offset \in Int
        /\ (offset + Len(s) < r.capacity => k = Len(s))
    <3>1. offset + Len(s) < r.capacity => k = Len(s)
      BY <1>1, <1>2 DEF k
    <3> HIDE DEF size
    <3> QED
      BY <1>1, <1>2, <2>1, <2>4, <3>1
  <2>6. w = Put(r, p, out)
    BY <1>3, <1>7, Zenon
  <2> HIDE DEF out, size
  <2>7. From(m, w)
    BY <1>5, <2>4, <2>5, <2>6, PutFrom, Zenon
  <2>8. Runs(w) /\ w.size = r.size /\ w.capacity = r.capacity /\ w.gen = r.gen /\ w.faults = r.faults
    BY <1>1, <1>5, <1>7, <2>4, <2>5, <2>6, StoreIn DEF size
  <2>9. Holds(w, offset, out)
    BY <1>1, <1>5, <1>7, <2>4, <2>5, <2>6, StoreHolds, Zenon DEF size
  <2>10. Holds(w, offset, cut)
    <3>1. Holds(w, offset, cut \o nul)
      BY <2>9, Zenon DEF out, nul
    <3>2. nul \in Seq(Char)
      BY <2>3, Zenon DEF nul
    <3> QED
      BY <2>1, <2>2, <3>1, <3>2, HoldsSplit, Zenon
  <2> QED
    BY <1>4, <1>7, <2>2, <2>5, <2>7, <2>8, <2>10, Zenon DEF w
<1> QED
  BY <1>6, <1>7, Zenon

\* The number is printed behind the cell of the sign, again if it did not fit.
NumberDone(m, sign, printed, spec) ==
  LET offset == m.size + Len(sign)
      n      == Len(printed)
      ready  == SignRoom(m, sign, spec)
      first  == Snprintf(ready, offset, printed)
  IN  IF FitsIn(offset, n, ready) THEN first
      ELSE Snprintf(Reserve(first, offset + n + 1), offset, printed)

\* The sign has its cell, and a number without sign does not move the storage yet.
LEMMA SignReady ==
  ASSUME NEW m, Fits(m), NEW sign \in Seq(Char), NEW spec, spec.width \in Nat
  PROVE  LET r == SignRoom(m, sign, spec)
         IN  /\ From(m, r) /\ r.faults = m.faults /\ (Runs(r) => r.size = m.size)
             /\ sign = <<>> => r = m
             /\ sign # <<>> /\ Runs(r) => m.size + Max2(spec.width, 1) <= r.capacity
<1> DEFINE r == SignRoom(m, sign, spec)
           k == m.size + Max2(spec.width, 1)
<1>1. CASE sign = <<>>
  <2>1. r = m
    BY <1>1, Zenon DEF SignRoom
  <2> QED
    BY <1>1, <2>1, FromSelf, Zenon
<1>2. CASE sign # <<>>
  <2>1. r = Reserve(m, k)
    BY <1>2, Zenon DEF SignRoom
  <2>2. k \in Nat
    <3>1. m.size \in Nat
      BY DEF Fits
    <3> QED
      BY <3>1 DEF Max2
  <2> HIDE DEF r, k
  <2>3. Appended(m, <<>>, r) /\ r.size = m.size
    BY <2>1, <2>2, ReserveAppended, Zenon
  <2>4. From(m, r) /\ r.faults = m.faults
    BY <2>3, Zenon DEF Appended
  <2>5. Runs(r) => k <= r.capacity
    <3>1. CASE Runs(m)
      BY <2>1, <2>2, <3>1, ReserveCells, Zenon
    <3>2. CASE ~Runs(m)
      BY <2>4, <3>2, Zenon DEF From, Idle
    <3> QED
      BY <3>1, <3>2, Zenon
  <2> QED
    BY <1>2, <2>3, <2>4, <2>5, Zenon DEF r, k
<1> QED
  BY <1>1, <1>2, Zenon

\* A text longer by one at most: what stood in the cell of the sign does not matter.
LEMMA CellDrafted ==
  ASSUME NEW m, Fits(m), NEW r, From(m, r), r.faults = m.faults, Runs(r) => r.size = m.size,
         NEW k \in {0, 1}, NEW s \in Seq(Char),
         Runs(r) => (m.size + k) + Len(s) < r.capacity /\ Holds(r, m.size + k, s)
  PROVE  \E x \in Seq(Char) : Len(x) = k /\ Drafted(m, r, x \o s)
<1> DEFINE o == m.size
           n == Len(s)
           c == r.cells[o]
<1>1. o \in Nat /\ n \in Nat /\ Fits(r)
  BY FromFits, LenProperties DEF Fits
<1>2. CASE ~Runs(r)
  <2>1. \E x \in Seq(Char) : Len(x) = k
    <3>1. CASE k = 0
      BY <3>1, EmptyText, Zenon
    <3>2. CASE k = 1
      <4>1. JUNK \in Char
        BY MarksAreChars, Zenon
      <4> DEFINE j == JUNK
      <4>2. j \in Char
        BY <4>1
      <4> HIDE DEF j
      <4>3. <<j>> \in Seq(Char) /\ Len(<<j>>) = 1
        BY <4>2
      <4> QED
        BY <3>2, <4>3
    <3> QED
      BY <3>1, <3>2
  <2> QED
    BY <1>2, <2>1, Zenon DEF Drafted
<1>3. CASE Runs(r)
  <2>1. r.size = o /\ (o + k) + n < r.capacity /\ Holds(r, o + k, s) /\ r.capacity \in Nat
    <3>1. r.capacity \in Nat
      BY <1>1 DEF Fits
    <3> QED
      BY <1>3, <3>1, Zenon
  <2>2. CASE k = 0
    <3>1. o + k = o /\ o + n <= r.capacity
      BY <1>1, <2>1, <2>2
    <3>2. <<>> \o s = s
      BY JoinsNothing, Zenon
    <3>3. Drafted(m, r, <<>> \o s)
      BY <2>1, <3>1, <3>2, Zenon DEF Drafted
    <3> QED
      BY <2>2, <3>3, EmptyText, Zenon
  <2>3. CASE k = 1
    <3>1. c \in Char
      <4>1. o \in 0..(r.capacity - 1)
        BY <1>1, <2>1, <2>3
      <4>2. r.cells \in [0..(r.capacity - 1) -> Char]
        BY <1>1, Zenon DEF Fits
      <4> QED
        BY <4>1, <4>2
    <3> HIDE DEF c
    <3> DEFINE x == <<c>>
    <3>2. x \in Seq(Char) /\ Len(x) = 1 /\ x[1] = c
      BY <3>1
    <3> HIDE DEF x
    <3>3. Holds(r, o, x)
      <4>1. ASSUME NEW i \in 1..Len(x)
            PROVE  r.cells[o + i - 1] = x[i]
        <5>1. i = 1 /\ o + i - 1 = o
          BY <1>1, <3>2
        <5> QED
          BY <3>2, <5>1 DEF c
      <4> QED
        BY <4>1, Zenon DEF Holds
    <3>4. o + 1 \in Nat /\ Holds(r, o + 1, s) /\ o + (1 + n) <= r.capacity
      <4>1. Holds(r, o + 1, s)
        BY <2>1, <2>3, Zenon
      <4>2. (o + 1) + n < r.capacity
        BY <2>1, <2>3, Zenon
      <4> QED
        BY <1>1, <2>1, <4>1, <4>2
    <3>5. Holds(r, o, x \o s)
      <4>1. 1 \in Nat
        OBVIOUS
      <4> QED
        BY <1>1, <3>2, <3>3, <3>4, <4>1, HoldsJoined, Zenon
    <3>6. Len(x \o s) = 1 + n
      BY <3>2, Joined
    <3>7. Drafted(m, r, x \o s)
      BY <2>1, <3>4, <3>5, <3>6, Zenon DEF Drafted
    <3> QED
      BY <2>3, <3>2, <3>7, Zenon
  <2> QED
    BY <2>2, <2>3
<1> QED
  BY <1>2, <1>3, Zenon

\* A sign is nothing or one character.
IsSign(s) == s \in Seq(Char) /\ Len(s) \in {0, 1} /\ (s # <<>> => Len(s) = 1)

\* The number is printed behind the cell of its sign, and this is the room it has.
NumberRoom(m, sign, printed, spec, r) ==
  /\ \E x \in Seq(Char) : Len(x) = Len(sign) /\ Drafted(m, r, x \o printed)
  /\ Runs(r) /\ sign # <<>> => m.size + Max2(spec.width, 1) <= r.capacity
  /\ Runs(r) /\ sign = <<>> =>
       r.capacity = IF FitsIn(m.size, Len(printed), m) THEN m.capacity
                    ELSE Room(m, m.size + Len(printed) + 1)

\* The number is there, with room for more than its characters.
LEMMA NumberPrinted ==
  ASSUME NEW m, Fits(m), NEW sign, IsSign(sign), NEW printed \in Seq(Char), NEW spec, spec.width \in Nat
  PROVE  NumberRoom(m, sign, printed, spec, NumberDone(m, sign, printed, spec))
<1>0. sign \in Seq(Char) /\ Len(sign) \in {0, 1} /\ (sign # <<>> => Len(sign) = 1)
  BY Zenon DEF IsSign
<1> DEFINE offset == m.size + Len(sign)
           n == Len(printed)
           k == offset + n + 1
           ready == SignRoom(m, sign, spec)
           first == Snprintf(ready, offset, printed)
           grown == Reserve(first, k)
           again == Snprintf(grown, offset, printed)
           r == NumberDone(m, sign, printed, spec)
<1>1. m.size \in Nat /\ n \in Nat /\ Len(sign) \in Nat /\ offset \in Nat /\ m.size <= offset /\ k \in Nat
  <2>1. m.size \in Nat /\ n \in Nat /\ Len(sign) \in Nat
    BY LenProperties DEF Fits
  <2> QED
    BY <2>1
<1>2. r = IF FitsIn(offset, n, ready) THEN first ELSE again
  BY Zenon DEF NumberDone
<1> HIDE DEF r, k
<1>3. /\ From(m, ready) /\ ready.faults = m.faults /\ (Runs(ready) => ready.size = m.size)
      /\ sign = <<>> => ready = m
      /\ sign # <<>> /\ Runs(ready) => m.size + Max2(spec.width, 1) <= ready.capacity
  BY <1>0, SignReady, Zenon
<1> HIDE DEF ready
<1> HIDE DEF offset
<1>4. /\ From(m, first) /\ first.faults = m.faults /\ (Runs(first) <=> Runs(ready))
      /\ first.size = ready.size /\ first.capacity = ready.capacity /\ first.gen = ready.gen
      /\ Runs(ready) /\ FitsIn(offset, n, ready) => Holds(first, offset, printed)
  BY <1>1, <1>3, Printed, Zenon
<1> HIDE DEF first
<1>5. Fits(first) /\ Fits(ready)
  BY <1>3, <1>4, FromFits, Zenon
<1>6. /\ From(m, grown) /\ grown.faults = m.faults /\ (Runs(grown) => grown.size = m.size /\ Runs(first))
      /\ Runs(grown) => k <= grown.capacity /\ grown.capacity = Room(first, k)
  <2>1. Appended(first, <<>>, grown) /\ grown.size = first.size
    BY <1>1, <1>5, ReserveAppended, Zenon
  <2>2. From(first, grown) /\ grown.faults = first.faults
    BY <2>1, Zenon DEF Appended
  <2>3. From(m, grown)
    BY <1>4, <2>2, FromChain, Zenon
  <2>4. Runs(grown) => Runs(first)
    BY <2>2, Zenon DEF From, Idle
  <2>5. Runs(grown) => k <= grown.capacity
    BY <1>1, <1>5, <2>4, ReserveCells, Zenon
  <2>6. Runs(grown) => grown.capacity = Room(first, k)
    BY <1>1, <1>5, ReserveRoom, Zenon
  <2> QED
    BY <1>3, <1>4, <2>1, <2>2, <2>3, <2>4, <2>5, <2>6, Zenon
<1> HIDE DEF grown
<1>7. /\ From(m, again) /\ again.faults = m.faults /\ (Runs(again) <=> Runs(grown))
      /\ again.size = grown.size /\ again.capacity = grown.capacity
      /\ Runs(grown) /\ FitsIn(offset, n, grown) => Holds(again, offset, printed)
  BY <1>1, <1>6, Printed, Zenon
<1> HIDE DEF again
<1>8. Fits(grown) /\ ready.capacity \in Nat /\ grown.capacity \in Nat
  <2>1. Fits(grown)
    BY <1>6, FromFits, Zenon
  <2>2. ready.capacity \in Nat
    BY <1>5, Zenon DEF Fits
  <2>3. grown.capacity \in Nat
    BY <2>1, Zenon DEF Fits
  <2> QED
    BY <2>1, <2>2, <2>3
<1>9. Runs(r) => offset + n < r.capacity /\ Holds(r, offset, printed)
  <2>1. CASE FitsIn(offset, n, ready)
    <3>1. offset + n < ready.capacity
      BY <2>1, Zenon DEF FitsIn
    <3>2. r = first
      BY <1>2, <2>1, Zenon
    <3> QED
      BY <1>4, <2>1, <3>1, <3>2, Zenon
  <2>2. CASE ~FitsIn(offset, n, ready)
    <3>1. r = again
      BY <1>2, <2>2, Zenon
    <3>2. ASSUME Runs(r)
          PROVE  offset + n < r.capacity /\ Holds(r, offset, printed)
      <4>1. Runs(grown) /\ k <= grown.capacity
        BY <1>6, <1>7, <3>1, <3>2, Zenon
      <4>2. k <= grown.capacity
        BY <4>1, Zenon
      <4>3. offset + n < grown.capacity
        BY <1>1, <1>8, <4>2 DEF k
      <4>4. FitsIn(offset, n, grown)
        BY <4>3, Zenon DEF FitsIn
      <4> QED
        BY <1>7, <3>1, <4>1, <4>3, <4>4, Zenon
    <3> QED
      BY <3>2, Zenon
  <2> QED
    BY <2>1, <2>2, Zenon
<1>10. From(m, r) /\ r.faults = m.faults /\ (Runs(r) => r.size = m.size /\ Runs(ready))
  BY <1>2, <1>3, <1>4, <1>6, <1>7, Zenon
<1>11. \E x \in Seq(Char) : Len(x) = Len(sign) /\ Drafted(m, r, x \o printed)
  <2> DEFINE j == Len(sign)
  <2>1. j \in {0, 1} /\ offset = m.size + j
    BY <1>0, Zenon DEF offset
  <2> HIDE DEF j
  <2>2. Runs(r) => (m.size + j) + Len(printed) < r.capacity /\ Holds(r, m.size + j, printed)
    BY <1>9, <2>1, Zenon
  <2>3. \E x \in Seq(Char) : Len(x) = j /\ Drafted(m, r, x \o printed)
    BY <1>10, <2>1, <2>2, CellDrafted, Zenon
  <2> QED
    BY <2>3, Zenon DEF j
<1>12. Runs(r) /\ sign # <<>> => m.size + Max2(spec.width, 1) <= r.capacity
  <2>1. ASSUME Runs(r), sign # <<>>
        PROVE  m.size + Max2(spec.width, 1) <= r.capacity
    <3> DEFINE least == m.size + Max2(spec.width, 1)
    <3>1. least <= ready.capacity
      BY <1>3, <1>10, <2>1, Zenon
    <3>2. least \in Int
      BY <1>1 DEF Max2
    <3> HIDE DEF least
    <3>3. CASE FitsIn(offset, n, ready)
      <4>1. r.capacity = ready.capacity
        BY <1>2, <1>4, <3>3, Zenon
      <4>2. least <= r.capacity
        BY <3>1, <4>1, Zenon
      <4> QED
        BY <4>2, Zenon DEF least
    <3>4. CASE ~FitsIn(offset, n, ready)
      <4>1. r = again /\ Runs(grown) /\ grown.capacity = Room(first, k)
        BY <1>2, <1>6, <1>7, <2>1, <3>4, Zenon
      <4>2. Room(first, k) \in Int /\ first.capacity <= Room(first, k)
        <5>1. first.capacity \in Nat
          BY <1>4, <1>8, Zenon
        <5> QED
          BY <1>1, <5>1 DEF Room, Max2
      <4>3. first.capacity = ready.capacity /\ r.capacity = Room(first, k)
        BY <1>4, <1>7, <4>1, Zenon
      <4>4. least <= r.capacity
        <5> DEFINE room == Room(first, k)
                   f == first.capacity
        <5>1. room \in Int /\ f <= room /\ f \in Nat /\ least <= f /\ r.capacity = room
          BY <1>8, <3>1, <4>2, <4>3, Zenon
        <5> HIDE DEF room, f
        <5> QED
          BY <3>2, <5>1
      <4> QED
        BY <4>4, Zenon DEF least
    <3> QED
      BY <3>3, <3>4, Zenon DEF least
  <2> QED
    BY <2>1, Zenon
<1>13. Runs(r) /\ sign = <<>> =>
         r.capacity = IF FitsIn(m.size, n, m) THEN m.capacity ELSE Room(m, m.size + n + 1)
  <2>1. ASSUME Runs(r), sign = <<>>
        PROVE  r.capacity = IF FitsIn(m.size, n, m) THEN m.capacity ELSE Room(m, m.size + n + 1)
    <3>1. ready = m
      BY <1>3, <2>1, Zenon
    <3>2. offset = m.size
      <4>1. Len(sign) = 0
        BY <2>1, EmptyText, Zenon
      <4> QED
        BY <1>1, <4>1 DEF offset
    <3>3. CASE FitsIn(offset, n, ready)
      BY <1>2, <1>4, <3>1, <3>2, <3>3, Zenon
    <3>4. CASE ~FitsIn(offset, n, ready)
      <4>1. r = again /\ Runs(grown) /\ grown.capacity = Room(first, k) /\ first.capacity = m.capacity
        BY <1>2, <1>4, <1>6, <1>7, <2>1, <3>1, <3>4, Zenon
      <4>2. r.capacity = Room(m, k)
        BY <1>7, <4>1, Zenon DEF Room
      <4>3. k = m.size + n + 1
        BY <3>2, Zenon DEF k
      <4> QED
        BY <3>1, <3>2, <3>4, <4>2, <4>3, Zenon
    <3> QED
      BY <3>3, <3>4, Zenon
  <2> QED
    BY <2>1, Zenon
<1> QED
  BY <1>11, <1>12, <1>13, Zenon DEF r, NumberRoom

\* The blanks in front of a number are counted.
LEMMA RunCounted ==
  ASSUME NEW blank \in Char, NEW k \in Nat, NEW t \in Seq(Char), 0 < Len(t), t[1] # blank
  PROVE  LET s == Rep(blank, k) \o t
         IN  Cardinality({i \in 1..Len(s) : \A j \in 1..i : s[j] = blank}) = k
<1> DEFINE b == Rep(blank, k)
           s == b \o t
           n == Len(t)
           T == {i \in 1..Len(s) : \A j \in 1..i : s[j] = blank}
<1>1. t[1] # blank
  OBVIOUS
<1>2. b \in Seq(Char) /\ Len(b) = k /\ \A i \in 1..k : b[i] = blank
  BY <1>1, RepSeq, Zenon
<1>3. n \in Nat /\ 0 < n
  BY LenProperties
<1> HIDE DEF b
<1>4. /\ s \in Seq(Char) /\ Len(s) = k + n
      /\ \A i \in 1..(k + n) : s[i] = IF i <= k THEN b[i] ELSE t[i - k]
  BY <1>2, Joined
<1> HIDE DEF s, n
<1>5. \A i \in 1..k : s[i] = blank
  <2>1. ASSUME NEW i \in 1..k
        PROVE  i \in 1..(k + n) /\ i <= k
    BY <1>3
  <2> QED
    BY <1>2, <1>4, <2>1, Zenon
<1>6. s[k + 1] # blank
  <2>1. k + 1 \in 1..(k + n) /\ ~(k + 1 <= k) /\ (k + 1) - k = 1
    BY <1>3
  <2>2. s[k + 1] = t[(k + 1) - k]
    BY <1>4, <2>1, Zenon
  <2> QED
    BY <1>1, <2>1, <2>2, Zenon
<1>7. T = 1..k
  <2>1. ASSUME NEW i \in 1..k
        PROVE  i \in T
    <3>1. i \in 1..Len(s) /\ \A j \in 1..i : j \in 1..k
      BY <1>3, <1>4
    <3> QED
      BY <1>5, <3>1, Zenon
  <2>2. ASSUME NEW i \in T
        PROVE  i \in 1..k
    <3>1. i \in 1..(k + n) /\ \A j \in 1..i : s[j] = blank
      BY <1>4
    <3>2. k + 1 \notin 1..i
      BY <1>6, <3>1
    <3> QED
      BY <3>1, <3>2
  <2> QED
    BY <2>1, <2>2
<1>8. Cardinality(1..k) = k
  BY FS_Interval
<1> QED
  BY <1>7, <1>8 DEF s, b

\* A text that does not begin with a blank, as numbers never do.
Solid(t) == t # <<>> /\ t[1] # " "

\* The blanks that a text starts with are counted if it goes on with something else.
LEMMA BlanksCounted ==
  ASSUME NEW k \in Nat, NEW t \in Seq(Char), Solid(t)
  PROVE  LET s == Rep(" ", k) \o t
         IN  Cardinality({i \in 1..Len(s) : \A j \in 1..i : s[j] = " "}) = k
<1> DEFINE blank == " "
<1>1. blank \in Char /\ t[1] # blank /\ t # <<>>
  BY MarksAreChars, Zenon DEF Solid
<1> HIDE DEF blank
<1>2. 0 < Len(t)
  BY <1>1, EmptySeq, LenProperties
<1>3. Cardinality({i \in 1..Len(Rep(blank, k) \o t) : \A j \in 1..i : (Rep(blank, k) \o t)[j] = blank}) = k
  BY <1>1, <1>2, RunCounted, Zenon
<1> QED
  BY <1>3, Zenon DEF blank

\* What was put together behind the content is counted to it.
LEMMA DraftCounted ==
  ASSUME NEW m, Fits(m), NEW s \in Seq(Char), NEW r, Drafted(m, r, s)
  PROVE  Appended(m, s, GrowBuffer(r, Len(s)))
<1> DEFINE g == GrowBuffer(r, Len(s))
<1>1. From(m, r) /\ r.faults = m.faults /\ Fits(r) /\ Len(s) \in Nat
  BY FromFits, LenProperties, Zenon DEF Drafted
<1>2. From(r, g) /\ g.faults = r.faults
  BY <1>1, GrowArea, Zenon
<1>3. From(m, g)
  BY <1>1, <1>2, FromChain, Zenon
<1>4. ASSUME Runs(g)
      PROVE  g.size = m.size + Len(s) /\ Holds(g, m.size, s)
  <2>1. Runs(r) /\ g.size = r.size + Len(s) /\ (r.size + Len(s) <= r.capacity => g.cells = r.cells)
    BY <1>1, <1>4, GrowArea, Zenon
  <2>2. r.size = m.size /\ m.size + Len(s) <= r.capacity /\ Holds(r, m.size, s)
    BY <2>1, Zenon DEF Drafted
  <2> QED
    BY <2>1, <2>2, Zenon DEF Holds
<1> QED
  BY <1>1, <1>2, <1>3, <1>4, Zenon DEF Appended, Holds

\* A text in the middle of its field.
CentredText(s, n, spec) ==
  LET left == (spec.width - n) \div 2
  IN  (Rep(spec.fill, left) \o s) \o Rep(spec.fill, spec.width - n - left)

\* A number in the middle of its field is there unless making the field moves the
\* storage, which then has nothing where the number should be.
CentredIn(m, s, r, n, spec, w) ==
  LET left == (spec.width - n) \div 2
      text == CentredText(s, n, spec)
  IN  /\ From(m, w) /\ w.faults = m.faults
      /\ text \in Seq(Char) /\ Len(text) = spec.width
      /\ Runs(w) => w.size = m.size + spec.width
      /\ m.size + spec.width <= r.capacity => Appended(m, text, w)
      /\ Runs(w) /\ ~(m.size + spec.width <= r.capacity) /\ 0 < n =>
           w.cells[m.size + left] = JUNK

\* A text that is moved to the middle of its field, with the fill around it.
LEMMA CentredDrafted ==
  ASSUME NEW m, Fits(m), NEW s \in Seq(Char), NEW r, Drafted(m, r, s), NEW n \in Nat, Len(s) = n,
         NEW spec, spec.width \in Nat, spec.fill \in Char, n < spec.width
  PROVE  CentredIn(m, s, r, n, spec, Centred(r, n, spec))
<1> DEFINE width == spec.width
           fill == spec.fill
           g == GrowBuffer(r, width)
           p == AreaOf(r, g)
           w == Centred(r, n, spec)
           left == (width - n) \div 2
           right == width - n - left
           a == Rep(fill, left)
           c == Rep(fill, right)
           text == (a \o s) \o c
           held == [k \in 1..n |-> g.cells[p.off + k - 1]]
           out == (a \o held) \o c
<1>1. From(m, r) /\ r.faults = m.faults /\ Fits(r)
  BY FromFits, Zenon DEF Drafted
<1>2. width \in Nat /\ left \in Nat /\ right \in Nat /\ left + n + right = width
  <2> DEFINE d == width - n
  <2>1. d \in Nat /\ d + n = width /\ width \in Nat
    OBVIOUS
  <2> HIDE DEF d
  <2>2. d \div 2 \in Nat /\ d - d \div 2 \in Nat
    BY <2>1
  <2>3. left = d \div 2 /\ right = d - d \div 2
    BY DEF d
  <2> HIDE DEF left, right, width
  <2> QED
    BY <2>1, <2>2, <2>3
<1>3. w = Put(g, p, out)
  BY Zenon DEF Centred
<1> HIDE DEF width, left, right
<1>4. a \in Seq(Char) /\ Len(a) = left /\ c \in Seq(Char) /\ Len(c) = right
      /\ \A i \in 1..left : a[i] = fill
  BY <1>2, RepSeq, Zenon
<1> HIDE DEF a, c
<1>5. ASSUME NEW u \in Seq(Char), Len(u) = n
      PROVE  (a \o u) \o c \in Seq(Char) /\ Len((a \o u) \o c) = width
  <2>1. a \o u \in Seq(Char) /\ Len(a \o u) = left + n
    <3>1. a \o u \in Seq(Char) /\ Len(a \o u) = Len(a) + Len(u)
      BY <1>4, Joined, Zenon
    <3> QED
      BY <1>4, <1>5, <3>1, Zenon
  <2> DEFINE b == a \o u
  <2> HIDE DEF b
  <2>2. b \o c \in Seq(Char) /\ Len(b \o c) = (left + n) + right
    BY <1>4, <2>1, Joined DEF b
  <2> QED
    BY <1>2, <2>2 DEF b
<1>6. text \in Seq(Char) /\ Len(text) = width
  BY <1>5, Zenon
<1>7. /\ From(r, g) /\ g.faults = r.faults /\ p.off = r.size /\ p.gen = g.gen
      /\ Runs(g) => /\ Runs(r) /\ g.size = r.size + width /\ g.size <= g.capacity
                    /\ r.size + width <= r.capacity => g.cells = r.cells
                    /\ r.size + width > r.capacity =>
                         \A i \in r.size..(g.capacity - 1) : g.cells[i] = JUNK
  BY <1>1, <1>2, GrowArea
<1>8. From(m, g) /\ Fits(g)
  BY <1>1, <1>7, FromChain, FromFits, Zenon
<1> HIDE DEF w, text, held
<1>9. CASE ~Runs(g)
  <2>1. w = g
    BY <1>3, <1>9, PutIdle, Zenon
  <2>2. Appended(m, text, w)
    BY <1>1, <1>7, <1>8, <1>9, <2>1, Zenon DEF Appended
  <2> QED
    BY <1>1, <1>6, <1>7, <1>8, <1>9, <2>1, <2>2, Zenon DEF w, text, a, c, left, right, width, CentredIn, CentredText
<1>10. CASE Runs(g)
  <2> HIDE DEF g
  <2>1. /\ Runs(r) /\ r.size = m.size /\ m.size + n <= r.capacity /\ Holds(r, m.size, s)
    BY <1>7, <1>10, Zenon DEF Drafted
  <2>2. m.size \in Nat /\ r.capacity \in Nat /\ g.capacity \in Nat
    <3>1. m.size \in Nat
      BY Zenon DEF Fits
    <3>2. r.capacity \in Nat
      BY <1>1, Zenon DEF Fits
    <3>3. g.capacity \in Nat
      BY <1>8, Zenon DEF Fits
    <3> QED
      BY <3>1, <3>2, <3>3
  <2>3. g.size = m.size + width /\ g.size <= g.capacity /\ p.off = m.size
        /\ (m.size + width <= r.capacity => g.cells = r.cells)
        /\ (m.size + width > r.capacity => \A i \in m.size..(g.capacity - 1) : g.cells[i] = JUNK)
    BY <1>7, <1>10, <2>1, Zenon
  <2> HIDE DEF p
  <2>4. ASSUME NEW k \in 1..n
        PROVE  m.size + k - 1 \in 0..(g.capacity - 1) /\ m.size + k - 1 \in m.size..(g.capacity - 1)
    <3>1. m.size + width <= g.capacity
      BY <2>3, Zenon
    <3> QED
      BY <1>2, <2>2, <3>1
  <2>5. held = [k \in 1..n |-> g.cells[m.size + k - 1]]
    BY <2>3, Zenon DEF held
  <2>6. held \in Seq(Char) /\ Len(held) = n /\ \A k \in 1..n : held[k] = g.cells[m.size + k - 1]
    <3>1. g.cells \in [0..(g.capacity - 1) -> Char]
      BY <1>8, Zenon DEF Fits
    <3>2. ASSUME NEW k \in 1..n
          PROVE  g.cells[m.size + k - 1] \in Char
      BY <2>4, <3>1
    <3>3. held \in [1..n -> Char] /\ \A k \in 1..n : held[k] = g.cells[m.size + k - 1]
      BY <2>5, <3>2
    <3>4. held \in Seq(Char)
      BY <3>3, SeqDef
    <3>5. Len(held) = n
      BY <3>3, <3>4, LenProperties
    <3> QED
      BY <3>3, <3>4, <3>5
  <2>7. out \in Seq(Char) /\ Len(out) = width
    BY <1>5, <2>6, Zenon
  <2>8. Appended(r, out, w)
    <3> HIDE DEF out
    <3>1. LET gg == GrowBuffer(r, Len(out)) IN Appended(r, out, Put(gg, AreaOf(r, gg), out))
      BY <1>1, <2>7, AreaFilled, Zenon
    <3> QED
      BY <1>3, <2>7, <3>1, Zenon DEF g, p
  <2>9. /\ From(r, w) /\ w.faults = m.faults
        /\ Runs(w) => w.size = m.size + width /\ Holds(w, m.size, out)
    BY <1>1, <2>1, <2>7, <2>8, Zenon DEF Appended, Holds
  <2>10. From(m, w)
    BY <1>1, <2>9, FromChain, Zenon
  <2>11. ASSUME m.size + width <= r.capacity
         PROVE  Appended(m, text, w)
    <3>1. held = s
      <4>1. ASSUME NEW k \in 1..n
            PROVE  held[k] = s[k]
        BY <2>1, <2>3, <2>6, <2>11, Zenon DEF Holds
      <4> QED
        BY <2>6, <4>1, SeqEqual
    <3>2. out = text
      BY <3>1, Zenon DEF text
    <3> QED
      BY <1>6, <2>9, <2>10, <3>2, Zenon DEF Appended, Holds
  <2>12. ASSUME Runs(w), ~(m.size + width <= r.capacity), 0 < n
         PROVE  w.cells[m.size + left] = JUNK
    <3>1. Holds(w, m.size, out)
      BY <2>9, <2>12, Zenon
    <3>2. Holds(w, m.size + left, held)
      <4>1. a \o held \in Seq(Char)
        BY <1>4, <2>6, Joined, Zenon
      <4>2. Holds(w, m.size, a \o held)
        <5> DEFINE l == Len(a \o held)
        <5>1. l \in Nat
          BY <4>1, LenProperties
        <5> QED
          BY <1>4, <2>2, <3>1, <4>1, <5>1, HoldsSplit, Zenon
      <4> QED
        BY <1>2, <1>4, <2>2, <2>6, <4>2, HoldsSplit, Zenon
    <3>3. 1 \in 1..n /\ (m.size + left) + 1 - 1 = m.size + left /\ m.size + 1 - 1 = m.size
      BY <1>2, <2>2, <2>12
    <3>4. w.cells[(m.size + left) + 1 - 1] = held[1]
      BY <2>6, <3>2, <3>3, Zenon DEF Holds
    <3>5. held[1] = g.cells[m.size]
      BY <2>6, <3>3, Zenon
    <3>6. g.cells[m.size] = JUNK
      <4>1. m.size + width > r.capacity
        BY <1>2, <2>2, <2>12
      <4>2. m.size \in m.size..(g.capacity - 1)
        BY <2>4, <3>3, Zenon
      <4> QED
        BY <2>3, <4>1, <4>2, Zenon
    <3> QED
      BY <3>3, <3>4, <3>5, <3>6, Zenon
  <2> QED
    BY <1>6, <2>9, <2>10, <2>11, <2>12, Zenon DEF w, text, a, c, left, right, width, CentredIn, CentredText
<1> QED
  BY <1>9, <1>10, Zenon

-----------------------------------------------------------------------------
(* write_double(): the number in its field                                 *)

\* What write_double() puts in front is a sign.
LEMMA SignIsSign ==
  ASSUME NEW negative, NEW spec
  PROVE  IsSign(SignOf(negative, spec))
<1> DEFINE s == SignOf(negative, spec)
<1>1. s \in Seq(Char) /\ Len(s) = IF s = <<>> THEN 0 ELSE 1
  BY SignLength, Zenon
<1> HIDE DEF s
<1>2. Len(s) \in {0, 1} /\ (s # <<>> => Len(s) = 1)
  BY <1>1
<1> QED
  BY <1>1, <1>2, Zenon DEF IsSign, s

\* A text that starts with something else than a blank does so whatever follows.
LEMMA SolidJoined ==
  ASSUME NEW t \in Seq(Char), NEW u \in Seq(Char), Solid(t)
  PROVE  Solid(t \o u)
<1> DEFINE s == t \o u
<1>1. t # <<>>
  BY Zenon DEF Solid
<1>2. Len(t) \in Nat /\ Len(u) \in Nat /\ 0 < Len(t)
  BY <1>1, EmptySeq, LenProperties
<1>3. s \in Seq(Char) /\ Len(s) = Len(t) + Len(u)
      /\ \A i \in 1..(Len(t) + Len(u)) : s[i] = IF i <= Len(t) THEN t[i] ELSE u[i - Len(t)]
  BY Joined
<1> HIDE DEF s
<1>4. 1 \in 1..(Len(t) + Len(u)) /\ 1 <= Len(t)
  BY <1>2
<1>5. s[1] = t[1]
  BY <1>3, <1>4, Zenon
<1>6. s # <<>>
  BY <1>2, <1>3
<1> QED
  BY <1>5, <1>6, Zenon DEF Solid, s

\* Blanks in front of a text.
Blanks(k) == Rep(" ", k)

\* A run of blanks is a text.
LEMMA BlanksSeq ==
  ASSUME NEW k \in Nat
  PROVE  Blanks(k) \in Seq(Char) /\ Len(Blanks(k)) = k
<1>1. " " \in Char
  BY MarksAreChars, Zenon
<1> QED
  BY <1>1, RepSeq, Zenon DEF Blanks

\* What snprintf() prints: blanks, and the number with what is behind it.
NumPrinted(sign, text, spec) ==
  SPrintf(text,
          IF spec.align = "center" THEN 0
          ELSE IF sign # <<>> /\ spec.width > 0 THEN spec.width - 1 ELSE spec.width,
          spec.align = "left")
NumLead(gap, spec) == IF spec.align = "left" \/ spec.align = "center" THEN 0 ELSE gap
NumRest(text, gap, spec) == IF spec.align = "left" THEN text \o Rep(" ", gap) ELSE text

\* What snprintf prints of a number: blanks, and what follows them.
LEMMA PrintedParts ==
  ASSUME NEW sign, IsSign(sign), NEW text \in Seq(Char), Solid(text), NEW spec, spec.width \in Nat
  PROVE  LET gap == Gap(spec.width, sign, text)
             k == NumLead(gap, spec)
             t == NumRest(text, gap, spec)
         IN  /\ gap \in Nat /\ k \in Nat /\ t \in Seq(Char) /\ Solid(t)
             /\ gap = IF spec.width <= Len(sign) + Len(text) THEN 0 ELSE spec.width - (Len(sign) + Len(text))
             /\ NumPrinted(sign, text, spec) = Blanks(k) \o t
<1> DEFINE gap == Gap(spec.width, sign, text)
           k == NumLead(gap, spec)
           t == NumRest(text, gap, spec)
           blank == " "
           wide == IF sign # <<>> /\ spec.width > 0 THEN spec.width - 1 ELSE spec.width
           fill == Rep(blank, Max2(0, wide - Len(text)))
           n == Len(text)
           l == Len(sign)
           width == spec.width
<1>1. sign \in Seq(Char) /\ l \in {0, 1} /\ (sign # <<>> => l = 1) /\ (sign = <<>> => l = 0)
  BY EmptyText, Zenon DEF IsSign
<1>2. n \in Nat /\ 0 < n /\ width \in Nat
  <2>1. text # <<>>
    BY Zenon DEF Solid
  <2> QED
    BY <2>1, EmptySeq, LenProperties
<1>3. gap = Max2(0, width - l - n)
  BY Zenon DEF Gap
<1> HIDE DEF n, l, width
<1>4. gap \in Nat /\ gap = IF width <= l + n THEN 0 ELSE width - (l + n)
  BY <1>1, <1>2, <1>3 DEF Max2
<1>5. Max2(0, wide - n) = gap
  <2>1. CASE sign = <<>>
    <3>1. wide = width /\ l = 0
      BY <1>1, <2>1, Zenon DEF width
    <3> HIDE DEF wide
    <3> QED
      BY <1>2, <1>4, <3>1 DEF Max2
  <2>2. CASE sign # <<>>
    <3>1. l = 1 /\ wide = IF width > 0 THEN width - 1 ELSE width
      BY <1>1, <2>2, Zenon DEF width
    <3> HIDE DEF wide
    <3> QED
      BY <1>2, <1>4, <3>1 DEF Max2
  <2> QED
    BY <2>1, <2>2
<1> HIDE DEF gap, wide
<1>6. k \in Nat
  BY <1>4 DEF NumLead
<1>7. blank \in Char
  BY MarksAreChars, Zenon
<1> HIDE DEF blank
<1>8. Rep(blank, gap) \in Seq(Char) /\ Rep(blank, 0) = <<>>
  <2>1. Rep(blank, gap) \in Seq(Char)
    BY <1>4, <1>7, RepSeq, Zenon
  <2>2. Rep(blank, 0) = <<>>
    BY <1>7, RepSeq
  <2> QED
    BY <2>1, <2>2
<1> DEFINE pad == Rep(blank, gap)
<1> HIDE DEF pad
<1>9. t = (IF spec.align = "left" THEN text \o pad ELSE text) /\ pad \in Seq(Char)
  BY <1>8, Zenon DEF NumRest, pad, blank
<1>10. t \in Seq(Char) /\ Solid(t)
  <2>1. text \o pad \in Seq(Char) /\ Solid(text \o pad)
    BY <1>9, Joined, SolidJoined, Zenon
  <2> QED
    BY <1>9, <2>1, Zenon
<1> DEFINE printed == NumPrinted(sign, text, spec)
<1>11. printed = Rep(blank, k) \o t
  <2> HIDE DEF t
  <2>1. CASE spec.align = "left"
    <3>1. spec.align # "center"
      BY <2>1
    <3>2. printed = text \o fill
      BY <2>1, <3>1, Zenon DEF NumPrinted, SPrintf, wide, blank
    <3>3. k = 0 /\ t = text \o pad
      BY <1>9, <2>1, Zenon DEF NumLead
    <3>4. fill = pad
      BY <1>5, Zenon DEF n, pad
    <3>5. <<>> \o t = t
      BY <1>10, JoinsNothing, Zenon
    <3> HIDE DEF k, printed, fill
    <3> QED
      BY <1>8, <3>2, <3>3, <3>4, <3>5, Zenon
  <2>2. CASE spec.align = "center"
    <3>1. spec.align # "left"
      BY <2>2
    <3>2. printed = Rep(blank, Max2(0, 0 - n)) \o text
      BY <2>2, <3>1, Zenon DEF NumPrinted, SPrintf, n, blank
    <3>3. k = 0 /\ t = text
      BY <1>9, <2>2, <3>1, Zenon DEF NumLead
    <3>4. Max2(0, 0 - n) = 0
      BY <1>2 DEF Max2
    <3> HIDE DEF k, printed
    <3> QED
      BY <3>2, <3>3, <3>4, Zenon
  <2>3. CASE spec.align # "left" /\ spec.align # "center"
    <3>1. printed = fill \o text
      BY <2>3, Zenon DEF NumPrinted, SPrintf, wide, blank
    <3>2. k = gap /\ t = text
      BY <1>9, <2>3, Zenon DEF NumLead
    <3>3. fill = pad
      BY <1>5, Zenon DEF n, pad
    <3> HIDE DEF k, printed, fill
    <3> QED
      BY <3>1, <3>2, <3>3, Zenon DEF pad
  <2> QED
    BY <2>1, <2>2, <2>3, Zenon
<1> QED
  BY <1>4, <1>6, <1>10, <1>11, Zenon DEF gap, n, l, width, blank, Blanks

\* Characters of a draft are replaced.
Redrafted(m, r, w, s) == Drafted(m, w, s) /\ w.gen = r.gen /\ w.capacity = r.capacity

\* A middle part of what was put together is replaced by as many characters.
LEMMA ReplacedText ==
  ASSUME NEW m, Fits(m), NEW a \in Seq(Char), NEW b \in Seq(Char), NEW c \in Seq(Char),
         NEW t \in Seq(Char), SameLength(b, t), NEW r, Drafted(m, r, (a \o b) \o c),
         NEW p, PointsBehind(p, m, r, a)
  PROVE  Redrafted(m, r, Put(r, p, t), (a \o t) \o c)
<1>1. Stands(m, r, (a \o b) \o c, m.size)
  BY Zenon DEF Stands, Drafted
<1>2. Rewritten(m, r, Put(r, p, t), (a \o t) \o c, m.size)
  BY <1>1, Overwritten, Zenon
<1> QED
  BY <1>2, Zenon DEF Rewritten, Redrafted, Stands, Drafted

\* One character is a text.
LEMMA CharText ==
  ASSUME NEW c \in Char
  PROVE  <<c>> \in Seq(Char) /\ Len(<<c>>) = 1
OBVIOUS

\* Printed behind the cell of the sign, whatever that holds.
SignedDraft(m, r, sign, printed) ==
  \E x \in Seq(Char) : SameLength(x, sign) /\ Drafted(m, r, x \o printed)

\* The cell of the sign is written to, if there is one.
LEMMA SignStored ==
  ASSUME NEW m, Fits(m), NEW sign, IsSign(sign), NEW printed \in Seq(Char), NEW r,
         SignedDraft(m, r, sign, printed), NEW c \in Seq(Char), SameLength(c, sign)
  PROVE  Redrafted(m, r, Put(r, Plus(Pointer(r, m.size + Len(sign)), -1), c), c \o printed)
<1> DEFINE p == Plus(Pointer(r, m.size + Len(sign)), -1)
           w == Put(r, p, c)
           none == <<>>
<1>0. PICK x \in Seq(Char) : Len(x) = Len(sign) /\ Drafted(m, r, x \o printed)
  BY Zenon DEF SignedDraft, SameLength
<1>00. Len(c) = Len(sign)
  BY Zenon DEF SameLength
<1>1. m.size \in Nat
  BY DEF Fits
<1>2. Len(sign) \in {0, 1}
  BY Zenon DEF IsSign
<1>3. none \in Seq(Char) /\ Len(none) = 0 /\ none \o x = x /\ none \o c = c
  BY <1>0, EmptyText, JoinsNothing, Zenon
<1>4. CASE Len(sign) = 0
  <2>1. x = <<>> /\ c = <<>>
    <3>1. Len(x) = 0 /\ Len(c) = 0
      BY <1>0, <1>00, <1>4, Zenon
    <3> QED
      BY <3>1, EmptySeq
  <2>2. w = r
    BY <2>1, PutNothing, Zenon
  <2>3. Drafted(m, w, c \o printed)
    BY <1>0, <2>1, <2>2, Zenon
  <2> HIDE DEF w
  <2>4. Redrafted(m, r, w, c \o printed)
    BY <2>2, <2>3, Zenon DEF Redrafted
  <2> QED
    BY <2>4, Zenon DEF w
<1>5. CASE Len(sign) = 1
  <2>1. p.off = (m.size + Len(sign)) + (-1) /\ p.gen = r.gen
    <3> DEFINE q == Pointer(r, m.size + Len(sign))
    <3>1. IsPointer(q) /\ q.off = m.size + Len(sign) /\ q.gen = r.gen
      BY PointerFields, Zenon
    <3>2. p = Plus(q, -1)
      BY Zenon
    <3> HIDE DEF q, p
    <3> DEFINE e == -1
    <3>3. p = Plus(q, e)
      BY <3>2, Zenon
    <3> HIDE DEF e
    <3>4. Plus(q, e).off = q.off + e /\ Plus(q, e).gen = q.gen
      BY <3>1, PlusFields, Zenon
    <3> QED
      BY <3>1, <3>3, <3>4, Zenon DEF e
  <2>2. p.off = m.size + Len(none)
    BY <1>1, <1>3, <1>5, <2>1
  <2> HIDE DEF p, none
  <2>3. Drafted(m, r, (none \o x) \o printed)
    BY <1>0, <1>3, Zenon
  <2>4. SameLength(x, c) /\ PointsBehind(p, m, r, none)
    BY <1>0, <1>00, <2>1, <2>2, Zenon DEF SameLength, PointsBehind
  <2>5. Redrafted(m, r, Put(r, p, c), (none \o c) \o printed)
    BY <1>0, <1>3, <2>3, <2>4, ReplacedText, Zenon
  <2> QED
    BY <1>3, <2>5, Zenon DEF p
<1> QED
  BY <1>2, <1>4, <1>5

\* The blanks in front of the number become the fill.
LEMMA BlanksFilled ==
  ASSUME NEW m, Fits(m), NEW k \in Nat, NEW t \in Seq(Char), NEW c \in Seq(Char),
         NEW r, Drafted(m, r, c \o (Blanks(k) \o t)), NEW fill \in Char,
         NEW p, PointsBehind(p, m, r, c)
  PROVE  /\ Redrafted(m, r, Put(r, p, Rep(fill, k)), (c \o Rep(fill, k)) \o t)
         /\ fill = " " => Drafted(m, r, (c \o Rep(fill, k)) \o t)
<1> DEFINE b == Blanks(k)
           f == Rep(fill, k)
<1>1. b \in Seq(Char) /\ Len(b) = k
  BY BlanksSeq, Zenon
<1>2. f \in Seq(Char) /\ Len(f) = k
  BY RepSeq, Zenon
<1>3. fill = " " => b = f
  BY Zenon DEF Blanks
<1>4. Drafted(m, r, c \o (b \o t))
  OBVIOUS
<1> HIDE DEF b, f
<1>5. (c \o b) \o t = c \o (b \o t)
  BY <1>1, Regrouped, Zenon
<1>6. Drafted(m, r, (c \o b) \o t)
  BY <1>4, <1>5, Zenon
<1>7. SameLength(b, f)
  BY <1>1, <1>2, Zenon DEF SameLength
<1>8. Redrafted(m, r, Put(r, p, f), (c \o f) \o t)
  BY <1>1, <1>2, <1>6, <1>7, ReplacedText, Zenon
<1> QED
  BY <1>3, <1>6, <1>8, Zenon DEF f

\* One character in front of a run of it is one behind it.
LEMMA RunTurned ==
  ASSUME NEW c \in Char, NEW k \in Nat
  PROVE  <<c>> \o Rep(c, k) = Rep(c, k) \o <<c>>
<1> DEFINE u == <<c>>
           f == Rep(c, k)
           a == u \o f
           b == f \o u
<1>1. u \in Seq(Char) /\ Len(u) = 1 /\ u[1] = c
  OBVIOUS
<1>2. f \in Seq(Char) /\ Len(f) = k /\ \A i \in 1..k : f[i] = c
  BY RepSeq, Zenon
<1> HIDE DEF u, f
<1>3. /\ a \in Seq(Char) /\ Len(a) = 1 + k
      /\ \A i \in 1..(1 + k) : a[i] = IF i <= 1 THEN u[i] ELSE f[i - 1]
  <2>1. /\ a \in Seq(Char) /\ Len(a) = Len(u) + Len(f)
        /\ \A i \in 1..(Len(u) + Len(f)) : a[i] = IF i <= Len(u) THEN u[i] ELSE f[i - Len(u)]
    BY <1>1, <1>2, Joined, Zenon
  <2> QED
    BY <1>1, <1>2, <2>1, Zenon
<1>4. /\ b \in Seq(Char) /\ Len(b) = k + 1
      /\ \A i \in 1..(k + 1) : b[i] = IF i <= k THEN f[i] ELSE u[i - k]
  <2>1. /\ b \in Seq(Char) /\ Len(b) = Len(f) + Len(u)
        /\ \A i \in 1..(Len(f) + Len(u)) : b[i] = IF i <= Len(f) THEN f[i] ELSE u[i - Len(f)]
    BY <1>1, <1>2, Joined, Zenon
  <2> QED
    BY <1>1, <1>2, <2>1, Zenon
<1> HIDE DEF a, b
<1>5. ASSUME NEW i \in 1..(1 + k)
       PROVE  a[i] = b[i]
  <2>1. i \in 1..(k + 1)
    OBVIOUS
  <2>2. a[i] = (IF i <= 1 THEN u[i] ELSE f[i - 1]) /\ b[i] = IF i <= k THEN f[i] ELSE u[i - k]
    BY <1>3, <1>4, <2>1, Zenon
  <2>3. /\ i <= 1 => i = 1
        /\ ~(i <= 1) => i - 1 \in 1..k
        /\ i <= k => i \in 1..k
        /\ ~(i <= k) => i - k = 1
    OBVIOUS
  <2>4. a[i] = c
    BY <1>1, <1>2, <2>2, <2>3, Zenon
  <2>5. b[i] = c
    BY <1>1, <1>2, <2>2, <2>3, Zenon
  <2> QED
    BY <2>4, <2>5
<1>6. Len(a) = Len(b)
  BY <1>3, <1>4
<1>7. a = b
  BY <1>3, <1>4, <1>5, <1>6, SeqEqual
<1> QED
  BY <1>7, Zenon DEF a, b, u, f

\* The number in front of the end of write_double(): its sign, the fill in place of the
\* blanks, and the sign behind the fill.
Glues(k, spec) == spec.align \notin {"right", "default"} \/ k = 0
Later(sign, k, spec) == sign # <<>> /\ ~Glues(k, spec)
SignCell(sign, k, spec) == IF sign = <<>> \/ Glues(k, spec) THEN sign ELSE <<spec.fill>>

\* The rounds of a number by their parts: where it starts, with its sign, with its fill.
NumberStart(m, done, sign) == Pointer(done, m.size + Len(sign))

NumberSigned(m, done, sign, k, spec) ==
  Put(done, Plus(NumberStart(m, done, sign), -1), SignCell(sign, k, spec))

NumberFilled(m, done, sign, k, spec) ==
  IF spec.fill # " " \/ Later(sign, k, spec)
  THEN Put(NumberSigned(m, done, sign, k, spec), NumberStart(m, done, sign), Rep(spec.fill, k))
  ELSE NumberSigned(m, done, sign, k, spec)

NumberWhole(m, done, sign, k, spec) ==
  IF Later(sign, k, spec)
  THEN Put(NumberFilled(m, done, sign, k, spec), Plus(NumberStart(m, done, sign), k - 1), sign)
  ELSE NumberFilled(m, done, sign, k, spec)

\* The number of blanks that write_double() counts.
BlanksOf(printed) == Cardinality({i \in 1..Len(printed) : \A j \in 1..i : printed[j] = " "})

\* What write_double() does, with its parts folded.
LEMMA WriteNumberParts ==
  ASSUME NEW m, NEW sign, NEW text, NEW spec
  PROVE  LET printed == NumPrinted(sign, text, spec)
             n == Len(printed) + Len(sign)
             done == NumberDone(m, sign, printed, spec)
             k == BlanksOf(printed)
         IN  WriteNumber(m, sign, text, spec) =
               IF spec.align = "center" /\ spec.width > n
               THEN Centred(NumberSigned(m, done, sign, k, spec), n, spec)
               ELSE GrowBuffer(NumberWhole(m, done, sign, k, spec), n)
  BY Zenon DEF WriteNumber, NumPrinted, NumberDone, NumberSigned, NumberFilled, NumberWhole,
       NumberStart, SignCell, Glues, Later, BlanksOf

\* The sign in front of what is printed, or the fill that the sign goes behind.
LEMMA NumberSignedDrafted ==
  ASSUME NEW m, Fits(m), NEW sign, IsSign(sign), NEW printed \in Seq(Char), NEW done,
         SignedDraft(m, done, sign, printed), NEW k, NEW spec, spec.fill \in Char
  PROVE  /\ SignCell(sign, k, spec) \in Seq(Char) /\ SameLength(SignCell(sign, k, spec), sign)
         /\ Redrafted(m, done, NumberSigned(m, done, sign, k, spec), SignCell(sign, k, spec) \o printed)
<1> DEFINE c == SignCell(sign, k, spec)
<1>1. sign \in Seq(Char) /\ (sign # <<>> => Len(sign) = 1)
  BY Zenon DEF IsSign
<1>2. <<spec.fill>> \in Seq(Char) /\ Len(<<spec.fill>>) = 1
  BY CharText, Zenon
<1>3. c \in Seq(Char) /\ SameLength(c, sign)
  <2>1. CASE sign = <<>> \/ Glues(k, spec)
    BY <1>1, <2>1, Zenon DEF SignCell, SameLength
  <2>2. CASE ~(sign = <<>> \/ Glues(k, spec))
    <3>1. c = <<spec.fill>> /\ Len(sign) = 1
      BY <1>1, <2>2, Zenon DEF SignCell
    <3> QED
      BY <1>2, <3>1, Zenon DEF SameLength
  <2> QED
    BY <2>1, <2>2, Zenon
<1> HIDE DEF c
<1> DEFINE w == Put(done, Plus(Pointer(done, m.size + Len(sign)), -1), c)
<1>4. Redrafted(m, done, w, c \o printed)
  BY <1>3, SignStored, Zenon
<1>5. w = NumberSigned(m, done, sign, k, spec)
  BY Zenon DEF NumberSigned, NumberStart, c
<1> HIDE DEF w
<1> QED
  BY <1>3, <1>4, <1>5, Zenon DEF c

\* The number with its fill, and with its sign behind it if need be.
LEMMA NumberWholeDrafted ==
  ASSUME NEW m, Fits(m), NEW sign, IsSign(sign), NEW k \in Nat, NEW t \in Seq(Char), NEW done,
         SignedDraft(m, done, sign, Blanks(k) \o t), NEW spec, spec.fill \in Char
  PROVE  LET r == NumberWhole(m, done, sign, k, spec)
         IN  /\ Later(sign, k, spec) => Drafted(m, r, (Rep(spec.fill, k) \o sign) \o t)
             /\ ~Later(sign, k, spec) => Drafted(m, r, (sign \o Rep(spec.fill, k)) \o t)
<1> DEFINE printed == Blanks(k) \o t
           fill == spec.fill
           f == Rep(fill, k)
           c == SignCell(sign, k, spec)
           signed == NumberSigned(m, done, sign, k, spec)
           start == NumberStart(m, done, sign)
           filled == NumberFilled(m, done, sign, k, spec)
           whole == NumberWhole(m, done, sign, k, spec)
           later == Later(sign, k, spec)
<1>1. m.size \in Nat
  BY Zenon DEF Fits
<1>2. f \in Seq(Char) /\ Len(f) = k
  BY RepSeq, Zenon
<1>3. printed \in Seq(Char)
  BY BlanksSeq, Joined, Zenon
<1>4. sign \in Seq(Char) /\ (sign # <<>> => Len(sign) = 1)
  BY Zenon DEF IsSign
<1>5. c \in Seq(Char) /\ SameLength(c, sign) /\ Redrafted(m, done, signed, c \o printed)
  <2> HIDE DEF printed
  <2>1. SignedDraft(m, done, sign, printed)
    BY Zenon DEF printed
  <2> QED
    BY <1>3, <2>1, NumberSignedDrafted, Zenon
<1>6. IsPointer(start) /\ start.off = m.size + Len(sign) /\ start.gen = done.gen
  BY PointerFields, Zenon DEF NumberStart
<1> DEFINE w == Put(signed, start, f)
<1>7. /\ Redrafted(m, signed, w, (c \o f) \o t)
      /\ fill = " " => Drafted(m, signed, (c \o f) \o t)
  <2> HIDE DEF signed, start, c
  <2>1. PointsBehind(start, m, signed, c)
    BY <1>5, <1>6, Zenon DEF PointsBehind, SameLength, Redrafted
  <2>2. Drafted(m, signed, c \o (Blanks(k) \o t))
    BY <1>5, Zenon DEF Redrafted
  <2> QED
    BY <1>5, <2>1, <2>2, BlanksFilled, Zenon
<1>8. CASE ~later
  <2>1. c = sign
    BY <1>8, Zenon DEF SignCell, Later
  <2>2. filled = IF fill # " " THEN w ELSE signed
    BY <1>8, Zenon DEF NumberFilled
  <2>3. whole = filled
    BY <1>8, Zenon DEF NumberWhole
  <2> HIDE DEF signed, start, filled, whole, c, w, f
  <2>4. Drafted(m, filled, (c \o f) \o t)
    BY <1>7, <2>2, Zenon DEF Redrafted
  <2>5. Drafted(m, whole, (sign \o f) \o t)
    BY <2>1, <2>3, <2>4, Zenon
  <2> QED
    BY <1>8, <2>5, Zenon DEF whole, f
<1>9. CASE later
  <2>1. c = <<fill>> /\ sign # <<>>
    BY <1>9, Zenon DEF SignCell, Later
  <2>2. filled = w
    BY <1>9, Zenon DEF NumberFilled
  <2> DEFINE q == Plus(start, k - 1)
  <2>3. whole = Put(filled, q, sign)
    BY <1>9, Zenon DEF NumberWhole
  <2>4. q.off = start.off + (k - 1) /\ q.gen = start.gen
    <3> DEFINE e == k - 1
    <3>1. q = Plus(start, e)
      OBVIOUS
    <3> HIDE DEF e, start, q
    <3>2. Plus(start, e).off = start.off + e /\ Plus(start, e).gen = start.gen
      BY <1>6, PlusFields, Zenon
    <3> QED
      BY <3>1, <3>2, Zenon DEF e
  <2>5. <<fill>> \o f = f \o <<fill>>
    BY RunTurned, Zenon
  <2> DEFINE u == <<fill>>
  <2>6. u \in Seq(Char) /\ Len(u) = 1
    BY CharText, Zenon
  <2> HIDE DEF signed, start, filled, whole, c, w, f, q, u, fill
  <2>7. Drafted(m, filled, (f \o u) \o t)
    BY <1>7, <2>1, <2>2, <2>5, Zenon DEF u, Redrafted
  <2>8. Len(sign) = 1
    BY <1>4, <2>1, Zenon
  <2>9. SameLength(u, sign)
    BY <2>6, <2>8, Zenon DEF SameLength
  <2>10. PointsBehind(q, m, filled, f)
    <3>1. q.off = (m.size + 1) + (k - 1)
      BY <1>6, <2>4, <2>8, Zenon
    <3> DEFINE o == q.off
               n == m.size
    <3>2. o = (n + 1) + (k - 1) /\ n \in Nat
      BY <1>1, <3>1, Zenon
    <3> HIDE DEF o, n
    <3>3. o = n + k
      BY <3>2
    <3>4. q.off = m.size + Len(f)
      BY <1>2, <3>3, Zenon DEF o, n
    <3>5. q.gen = filled.gen
      BY <1>5, <1>6, <1>7, <2>2, <2>4, Zenon DEF Redrafted
    <3> QED
      BY <3>4, <3>5, Zenon DEF PointsBehind
  <2>11. Redrafted(m, filled, Put(filled, q, sign), (f \o sign) \o t)
    BY <1>2, <1>4, <2>6, <2>7, <2>9, <2>10, ReplacedText, Zenon
  <2>12. Drafted(m, whole, (f \o sign) \o t)
    BY <2>3, <2>11, Zenon DEF Redrafted
  <2> QED
    BY <1>9, <2>12, Zenon DEF whole, f, fill
<1> QED
  BY <1>8, <1>9, Zenon

-----------------------------------------------------------------------------
(* write_double(): the number is the one that is wanted                    *)

\* The text that is wanted of a number.
NumberText(sign, text, spec) ==
  Laid(spec.align, IF spec.align = "left" THEN " " ELSE spec.fill, spec.width, sign, text)

\* The alignments of a specification.
Aligns == {"default", "left", "right", "center", "numeric"}

\* That text, alignment by alignment.
IsNumberText(sign, text, spec, s) == NumberText(sign, text, spec) = s

\* Texts that are laid out as the alignment says are the ones that are wanted of a number.
LEMMA NumberShapes ==
  ASSUME NEW sign, NEW text, NEW spec, NEW gap, gap = Gap(spec.width, sign, text)
  PROVE  LET fill == spec.fill
         IN  /\ spec.align = "numeric" => IsNumberText(sign, text, spec, (sign \o Rep(fill, gap)) \o text)
             /\ spec.align = "left" => IsNumberText(sign, text, spec, (sign \o text) \o Blanks(gap))
             /\ spec.align = "center" =>
                  IsNumberText(sign, text, spec,
                    ((Rep(fill, gap \div 2) \o sign) \o text) \o Rep(fill, gap - gap \div 2))
             /\ spec.align \in {"default", "right"} =>
                  IsNumberText(sign, text, spec, (Rep(fill, gap) \o sign) \o text)
<1> DEFINE w == NumberText(sign, text, spec)
           fill == spec.fill
           align == spec.align
           f == IF spec.align = "left" THEN " " ELSE spec.fill
<1>1. w = Laid(align, f, spec.width, sign, text)
  BY Zenon DEF NumberText
<1>2. (align = "left" => f = " ") /\ (align # "left" => f = fill)
  OBVIOUS
<1>3. "numeric" # "left" /\ "center" # "left" /\ "default" # "left" /\ "right" # "left"
      /\ "default" # "numeric" /\ "right" # "numeric" /\ "default" # "center" /\ "right" # "center"
  OBVIOUS
<1> HIDE DEF w, fill, f, align
<1>4. ASSUME align = "numeric"
      PROVE  w = (sign \o Rep(fill, gap)) \o text
  <2>1. IsLaid(align, f, spec.width, sign, text, (sign \o Rep(f, gap)) \o text)
    BY <1>4, LaidNumeric, Zenon
  <2> QED
    BY <1>1, <1>2, <1>3, <1>4, <2>1, Zenon DEF IsLaid
<1>5. ASSUME align = "left"
      PROVE  w = (sign \o text) \o Blanks(gap)
  <2>1. IsLaid(align, f, spec.width, sign, text, (sign \o text) \o Rep(f, gap))
    BY <1>5, LaidLeft, Zenon
  <2> QED
    BY <1>1, <1>2, <1>5, <2>1, Zenon DEF IsLaid, Blanks
<1>6. ASSUME align = "center"
      PROVE  w = ((Rep(fill, gap \div 2) \o sign) \o text) \o Rep(fill, gap - gap \div 2)
  <2>1. IsLaid(align, f, spec.width, sign, text,
               ((Rep(f, gap \div 2) \o sign) \o text) \o Rep(f, gap - gap \div 2))
    BY <1>6, LaidCenter, Zenon
  <2> QED
    BY <1>1, <1>2, <1>3, <1>6, <2>1, Zenon DEF IsLaid
<1>7. ASSUME align \in {"default", "right"}
      PROVE  w = (Rep(fill, gap) \o sign) \o text
  <2>1. align # "numeric" /\ align # "left" /\ align # "center"
    BY <1>3, <1>7, Zenon
  <2>2. IsLaid(align, f, spec.width, sign, text, (Rep(f, gap) \o sign) \o text)
    BY <2>1, LaidOther, Zenon
  <2> QED
    BY <1>1, <1>2, <2>1, <2>2, Zenon DEF IsLaid
<1> QED
  BY <1>4, <1>5, <1>6, <1>7, Zenon DEF w, fill, align, IsNumberText

\* A run of no characters.
LEMMA RunOfNone ==
  ASSUME NEW c \in Char
  PROVE  Rep(c, 0) = <<>>
<1>1. 0 \in Nat
  OBVIOUS
<1> QED
  BY <1>1, RepSeq, Zenon

\* What write_double() puts together is that text, unless it has to be centred still.
LaysWhole(sign, text, spec, k, t) ==
  LET f == Rep(spec.fill, k)
  IN  /\ Later(sign, k, spec) => (f \o sign) \o t = NumberText(sign, text, spec)
      /\ ~Later(sign, k, spec) => (sign \o f) \o t = NumberText(sign, text, spec)

\* Centring is left to the end when there is something to centre.
CentredNow(gap, spec) == spec.align = "center" => gap = 0

\* A number that is not centred: the blanks in front become the fill.
LEMMA WholeLaid ==
  ASSUME NEW sign \in Seq(Char), NEW text \in Seq(Char), NEW spec, spec.fill \in Char,
         spec.align \in Aligns, NEW gap \in Nat, gap = Gap(spec.width, sign, text),
         CentredNow(gap, spec)
  PROVE  LaysWhole(sign, text, spec, NumLead(gap, spec), NumRest(text, gap, spec))
<1> DEFINE k == NumLead(gap, spec)
           t == NumRest(text, gap, spec)
           fill == spec.fill
           f == Rep(fill, k)
           w == NumberText(sign, text, spec)
           none == <<>>
           all == Rep(fill, gap)
<1>1. "numeric" # "left" /\ "center" # "left" /\ "default" # "left" /\ "right" # "left"
      /\ "default" # "center" /\ "right" # "center" /\ "numeric" # "center"
      /\ "numeric" \notin {"right", "default"} /\ "left" \notin {"right", "default"}
      /\ "center" \notin {"right", "default"}
  OBVIOUS
<1>2. Rep(fill, 0) = none
  BY RunOfNone, Zenon
<1>3. /\ none \o sign = sign /\ sign \o none = sign /\ all \in Seq(Char)
      /\ all \o none = all /\ none \o all = all
  BY JoinsNothing, RepSeq, Zenon
<1>4. CASE spec.align = "numeric"
  <2>1. ~Later(sign, k, spec)
    BY <1>1, <1>4, Zenon DEF Later, Glues
  <2>2. k = gap /\ t = text
    BY <1>1, <1>4, Zenon DEF NumLead, NumRest
  <2>3. w = (sign \o all) \o text
    <3>1. IsNumberText(sign, text, spec, (sign \o all) \o text)
      BY <1>4, NumberShapes, Zenon
    <3> QED
      BY <3>1, Zenon DEF IsNumberText
  <2> QED
    BY <2>1, <2>2, <2>3, Zenon DEF LaysWhole
<1>5. CASE spec.align = "left"
  <2>1. ~Later(sign, k, spec)
    BY <1>1, <1>5, Zenon DEF Later, Glues
  <2>2. k = 0 /\ t = text \o Blanks(gap)
    BY <1>5, Zenon DEF NumLead, NumRest, Blanks
  <2>3. w = (sign \o text) \o Blanks(gap)
    <3>1. IsNumberText(sign, text, spec, (sign \o text) \o Blanks(gap))
      BY <1>5, NumberShapes, Zenon
    <3> QED
      BY <3>1, Zenon DEF IsNumberText
  <2>4. Blanks(gap) \in Seq(Char)
    BY BlanksSeq, Zenon
  <2>5. (sign \o text) \o Blanks(gap) = sign \o (text \o Blanks(gap))
    BY <2>4, Regrouped, Zenon
  <2>6. (sign \o f) \o t = sign \o (text \o Blanks(gap))
    BY <1>2, <1>3, <2>2, Zenon
  <2> QED
    BY <2>1, <2>3, <2>5, <2>6, Zenon DEF LaysWhole
<1>6. CASE spec.align = "center"
  <2>1. ~Later(sign, k, spec)
    BY <1>1, <1>6, Zenon DEF Later, Glues
  <2>2. k = 0 /\ t = text /\ gap = 0
    BY <1>1, <1>6, Zenon DEF NumLead, NumRest, CentredNow
  <2>3. w = ((Rep(fill, gap \div 2) \o sign) \o text) \o Rep(fill, gap - gap \div 2)
    <3>1. IsNumberText(sign, text, spec, ((Rep(fill, gap \div 2) \o sign) \o text) \o Rep(fill, gap - gap \div 2))
      BY <1>6, NumberShapes, Zenon
    <3> QED
      BY <3>1, Zenon DEF IsNumberText
  <2>4. gap \div 2 = 0 /\ gap - gap \div 2 = 0
    <3> HIDE DEF k, t, f, w
    <3> QED
      BY <2>2
  <2>5. sign \o text \in Seq(Char)
    BY Joined, Zenon
  <2>6. (sign \o text) \o none = sign \o text
    BY <2>5, JoinsNothing, Zenon
  <2>7. w = sign \o text
    BY <1>2, <1>3, <2>3, <2>4, <2>6, Zenon
  <2>8. (sign \o f) \o t = sign \o text
    BY <1>2, <1>3, <2>2, Zenon
  <2> QED
    BY <2>1, <2>7, <2>8, Zenon DEF LaysWhole
<1>7. CASE spec.align \in {"default", "right"}
  <2>1. k = gap /\ t = text
    BY <1>1, <1>7, Zenon DEF NumLead, NumRest
  <2>2. w = (all \o sign) \o text
    <3>1. IsNumberText(sign, text, spec, (all \o sign) \o text)
      BY <1>7, NumberShapes, Zenon
    <3> QED
      BY <3>1, Zenon DEF IsNumberText
  <2>3. (f \o sign) \o t = w
    BY <2>1, <2>2, Zenon
  <2>4. ASSUME ~Later(sign, k, spec)
        PROVE  sign = none \/ k = 0
    BY <1>7, <2>4, Zenon DEF Later, Glues
  <2>5. ASSUME ~Later(sign, k, spec)
        PROVE  (sign \o f) \o t = w
    <3>1. CASE sign = none
      <4>1. sign \o all = all /\ all \o sign = all
        BY <1>3, <3>1, Zenon
      <4> QED
        BY <2>1, <2>2, <4>1, Zenon
    <3>2. CASE k = 0
      <4>1. sign \o f = sign /\ all \o sign = sign
        BY <1>2, <1>3, <2>1, <3>2, Zenon
      <4> QED
        BY <2>1, <2>2, <4>1, Zenon
    <3> QED
      BY <2>4, <2>5, <3>1, <3>2, Zenon
  <2> QED
    BY <2>3, <2>5, Zenon DEF LaysWhole
<1>8. spec.align \in {"default", "right"} \/ spec.align = "numeric" \/ spec.align = "left" \/ spec.align = "center"
  BY Zenon DEF Aligns
<1> QED
  BY <1>4, <1>5, <1>6, <1>7, <1>8, Zenon

\* So is the number that is centred at the end.
LEMMA CentredLaid ==
  ASSUME NEW sign \in Seq(Char), NEW text \in Seq(Char), NEW spec, spec.fill \in Char,
         spec.align = "center", NEW gap \in Nat, gap = Gap(spec.width, sign, text)
  PROVE  IsNumberText(sign, text, spec,
                      (Rep(spec.fill, gap \div 2) \o (sign \o text)) \o Rep(spec.fill, gap - gap \div 2))
<1> DEFINE h == gap \div 2
           a == Rep(spec.fill, h)
<1>1. NumberText(sign, text, spec) = ((a \o sign) \o text) \o Rep(spec.fill, gap - h)
  <2>1. IsNumberText(sign, text, spec, ((a \o sign) \o text) \o Rep(spec.fill, gap - h))
    BY NumberShapes, Zenon
  <2> QED
    BY <2>1, Zenon DEF IsNumberText
<1>2. h \in Nat
  OBVIOUS
<1> HIDE DEF h
<1>3. a \in Seq(Char)
  BY <1>2, RepSeq, Zenon
<1> HIDE DEF a
<1>4. (a \o sign) \o text = a \o (sign \o text)
  BY <1>3, Regrouped, Zenon
<1> QED
  BY <1>1, <1>4, Zenon DEF a, h, IsNumberText

\* A centred number is left behind if it has no sign and the field moves the storage.
LosesCentred(m, sign, text, spec) ==
  /\ spec.align = "center" /\ sign = <<>> /\ spec.width > Len(text)
  /\ m.size + spec.width > IF FitsIn(m.size, Len(text), m) THEN m.capacity
                           ELSE Room(m, m.size + Len(text) + 1)

\* What write_double() leaves of a number: the text, or the field without it.
NumberWritten(m, text, want, loses, w) ==
  /\ From(m, w) /\ w.faults = m.faults
  /\ Runs(w) => w.size = m.size + Len(want)
  /\ ~loses => Appended(m, want, w)
  /\ Runs(w) /\ loses => \E i \in 1..Len(want) : want[i] = text[1] /\ w.cells[m.size + i - 1] = JUNK

\* What is printed has the number's length and its blanks, and stands behind the sign.
NumberStands(m, sign, text, spec, gap) ==
  LET k == NumLead(gap, spec)
      t == NumRest(text, gap, spec)
      printed == NumPrinted(sign, text, spec)
      done == NumberDone(m, sign, printed, spec)
  IN  /\ printed = Blanks(k) \o t /\ printed \in Seq(Char)
      /\ Len(printed) = k + Len(t) /\ BlanksOf(printed) = k
      /\ SignedDraft(m, done, sign, printed)
      /\ NumberRoom(m, sign, printed, spec, done)

\* The rounds of write_double() end with the number in the buffer, or with an exception.
LEMMA NumberReady ==
  ASSUME NEW m, Fits(m), NEW sign, IsSign(sign), NEW text \in Seq(Char), Solid(text),
         NEW spec, spec.width \in Nat
  PROVE  NumberStands(m, sign, text, spec, Gap(spec.width, sign, text))
<1> DEFINE gap == Gap(spec.width, sign, text)
           k == NumLead(gap, spec)
           t == NumRest(text, gap, spec)
           printed == NumPrinted(sign, text, spec)
           done == NumberDone(m, sign, printed, spec)
<1>1. k \in Nat /\ t \in Seq(Char) /\ Solid(t) /\ printed = Blanks(k) \o t
  BY PrintedParts, Zenon
<1> HIDE DEF k, t, printed
<1>2. Blanks(k) \in Seq(Char) /\ Len(Blanks(k)) = k
  BY <1>1, BlanksSeq, Zenon
<1>3. printed \in Seq(Char) /\ Len(printed) = k + Len(t)
  BY <1>1, <1>2, Joined, Zenon
<1>4. BlanksOf(printed) = k
  <2> DEFINE s == Rep(" ", k) \o t
  <2>1. Cardinality({i \in 1..Len(s) : \A j \in 1..i : s[j] = " "}) = k
    BY <1>1, BlanksCounted, Zenon
  <2>2. printed = s
    BY <1>1, Zenon DEF Blanks
  <2> HIDE DEF s
  <2> QED
    BY <2>1, <2>2, Zenon DEF BlanksOf
<1>6. NumberRoom(m, sign, printed, spec, done)
  BY <1>3, NumberPrinted, Zenon
<1> HIDE DEF done
<1>7. SignedDraft(m, done, sign, printed)
  BY <1>6, Zenon DEF SignedDraft, SameLength, NumberRoom
<1> QED
  BY <1>1, <1>3, <1>4, <1>6, <1>7, Zenon DEF k, t, printed, done, NumberStands

\* A number that is not centred at the end.
LEMMA NumberPlain ==
  ASSUME NEW m, Fits(m), NEW sign, IsSign(sign), NEW text \in Seq(Char), NEW spec, spec.width \in Nat,
         spec.fill \in Char, spec.align \in Aligns, NEW gap \in Nat, gap = Gap(spec.width, sign, text),
         CentredNow(gap, spec),
         NumLead(gap, spec) \in Nat, NumRest(text, gap, spec) \in Seq(Char),
         NEW printed, printed = Blanks(NumLead(gap, spec)) \o NumRest(text, gap, spec),
         Len(printed) = NumLead(gap, spec) + Len(NumRest(text, gap, spec)),
         NEW done, SignedDraft(m, done, sign, printed)
  PROVE  /\ NumberText(sign, text, spec) \in Seq(Char)
         /\ Appended(m, NumberText(sign, text, spec),
              GrowBuffer(NumberWhole(m, done, sign, NumLead(gap, spec), spec), Len(printed) + Len(sign)))
<1> DEFINE k == NumLead(gap, spec)
           t == NumRest(text, gap, spec)
           f == Rep(spec.fill, k)
           whole == NumberWhole(m, done, sign, k, spec)
           want == NumberText(sign, text, spec)
           later == Later(sign, k, spec)
<1>1. sign \in Seq(Char) /\ Len(sign) \in Nat
  BY LenProperties, Zenon DEF IsSign
<1>2. k \in Nat /\ t \in Seq(Char) /\ Len(t) \in Nat
  BY LenProperties, Zenon
<1>3. f \in Seq(Char) /\ Len(f) = k
  BY RepSeq, Zenon
<1>4. /\ later => (f \o sign) \o t = want
      /\ ~later => (sign \o f) \o t = want
  <2>1. LaysWhole(sign, text, spec, k, t)
    BY <1>1, WholeLaid, Zenon
  <2> QED
    BY <2>1, Zenon DEF LaysWhole
<1>5. /\ later => Drafted(m, whole, (f \o sign) \o t)
      /\ ~later => Drafted(m, whole, (sign \o f) \o t)
  <2>1. SignedDraft(m, done, sign, Blanks(k) \o t)
    BY Zenon
  <2> QED
    BY <1>2, <2>1, NumberWholeDrafted, Zenon
<1> DEFINE n == Len(printed) + Len(sign)
<1>6. n = k + Len(t) + Len(sign)
  BY Zenon
<1> HIDE DEF k, t, f, whole, want, later, n
<1>7. (f \o sign) \o t \in Seq(Char) /\ Len((f \o sign) \o t) = (k + Len(sign)) + Len(t)
  <2>1. f \o sign \in Seq(Char) /\ Len(f \o sign) = k + Len(sign)
    BY <1>1, <1>3, Joined, Zenon
  <2> QED
    BY <1>2, <2>1, Joined, Zenon
<1>8. (sign \o f) \o t \in Seq(Char) /\ Len((sign \o f) \o t) = (Len(sign) + k) + Len(t)
  <2>1. sign \o f \in Seq(Char) /\ Len(sign \o f) = Len(sign) + k
    BY <1>1, <1>3, Joined, Zenon
  <2> QED
    BY <1>2, <2>1, Joined, Zenon
<1>9. (k + Len(sign)) + Len(t) = n /\ (Len(sign) + k) + Len(t) = n
  BY <1>1, <1>2, <1>6
<1>10. want \in Seq(Char) /\ Len(want) = n /\ Drafted(m, whole, want)
  BY <1>4, <1>5, <1>7, <1>8, <1>9, Zenon
<1>11. Appended(m, want, GrowBuffer(whole, Len(want)))
  BY <1>10, DraftCounted, Zenon
<1>12. Appended(m, want, GrowBuffer(whole, n))
  BY <1>10, <1>11, Zenon
<1> QED
  BY <1>10, <1>12, Zenon DEF want, whole, n, k

\* A number that is centred at the end.
CentredNumber(m, sign, text, spec, done, w) ==
  LET want == NumberText(sign, text, spec)
  IN  /\ want \in Seq(Char) /\ Len(want) = spec.width
      /\ From(m, w) /\ w.faults = m.faults
      /\ Runs(w) => Runs(done) /\ w.size = m.size + spec.width
      /\ m.size + spec.width <= done.capacity => Appended(m, want, w)
      /\ Runs(w) /\ ~(m.size + spec.width <= done.capacity) /\ sign = <<>> =>
           \E i \in 1..Len(want) : want[i] = text[1] /\ w.cells[m.size + i - 1] = JUNK

\* A number with its sign is moved to the middle of its field.
LEMMA NumberCentred ==
  ASSUME NEW m, Fits(m), NEW sign, IsSign(sign), NEW text \in Seq(Char), text # <<>>, NEW spec, spec.width \in Nat,
         spec.fill \in Char, spec.align = "center", NEW n \in Nat, n = Len(text) + Len(sign), n < spec.width,
         NEW done, SignedDraft(m, done, sign, text), NEW k
  PROVE  CentredNumber(m, sign, text, spec, done, Centred(NumberSigned(m, done, sign, k, spec), n, spec))
<1> DEFINE signed == NumberSigned(m, done, sign, k, spec)
           s == sign \o text
           want == NumberText(sign, text, spec)
           w == Centred(signed, n, spec)
           width == spec.width
           left == (width - n) \div 2
           gap == Gap(width, sign, text)
           fill == spec.fill
<1>1. sign \in Seq(Char)
  BY Zenon DEF IsSign
<1>2. Len(sign) \in Nat /\ Len(text) \in Nat /\ 0 < Len(text)
  BY <1>1, EmptySeq, LenProperties
<1>3. SignCell(sign, k, spec) = sign
  <2>1. "center" \notin {"right", "default"}
    OBVIOUS
  <2> QED
    BY <2>1, Zenon DEF SignCell, Glues
<1>4. Redrafted(m, done, signed, s)
  <2>1. Redrafted(m, done, signed, SignCell(sign, k, spec) \o text)
    BY NumberSignedDrafted, Zenon
  <2> QED
    BY <1>3, <2>1, Zenon
<1>5. Drafted(m, signed, s) /\ signed.capacity = done.capacity
  BY <1>4, Zenon DEF Redrafted
<1>6. s \in Seq(Char) /\ Len(s) = n
  <2>1. s \in Seq(Char) /\ Len(s) = Len(sign) + Len(text)
    BY <1>1, Joined, Zenon
  <2> HIDE DEF s
  <2> QED
    BY <1>2, <2>1
<1>7. gap = width - n /\ gap \in Nat
  <2>1. gap = Max2(0, width - Len(sign) - Len(text))
    BY Zenon DEF Gap
  <2> HIDE DEF gap
  <2> QED
    BY <1>2, <2>1 DEF Max2
<1> DEFINE rest == width - n - left
           field == (Rep(fill, left) \o s) \o Rep(fill, rest)
<1>8. want = field
  <2>1. want = (Rep(fill, gap \div 2) \o s) \o Rep(fill, gap - gap \div 2)
    <3>1. IsNumberText(sign, text, spec, (Rep(fill, gap \div 2) \o s) \o Rep(fill, gap - gap \div 2))
      BY <1>1, <1>7, CentredLaid, Zenon
    <3> QED
      BY <3>1, Zenon DEF IsNumberText
  <2>2. gap \div 2 = left /\ gap - gap \div 2 = rest
    BY <1>7, Zenon
  <2> HIDE DEF want, s, gap, left, rest
  <2> QED
    BY <2>1, <2>2, Zenon
<1>9. /\ From(m, w) /\ w.faults = m.faults
      /\ field \in Seq(Char) /\ Len(field) = width
      /\ Runs(w) => w.size = m.size + width
      /\ m.size + width <= signed.capacity => Appended(m, field, w)
      /\ Runs(w) /\ ~(m.size + width <= signed.capacity) /\ 0 < n =>
           w.cells[m.size + left] = JUNK
  <2> HIDE DEF signed, s
  <2>1. CentredIn(m, s, signed, n, spec, w)
    BY <1>5, <1>6, CentredDrafted, Zenon
  <2>2. field = CentredText(s, n, spec)
    BY Zenon DEF CentredText
  <2> HIDE DEF field, w
  <2> QED
    BY <2>1, <2>2, Zenon DEF CentredIn
<1>10. ASSUME ~Runs(done)
       PROVE  ~Runs(w)
  <2>1. signed = done
    BY <1>10, PutIdle, Zenon DEF NumberSigned
  <2>2. Fits(done)
    <3>1. Fits(signed)
      BY <1>5, FromFits, Zenon DEF Drafted
    <3> QED
      BY <2>1, <3>1, Zenon
  <2> DEFINE g == GrowBuffer(done, width)
  <2>3. ~Runs(g)
    BY <1>10, <2>2, GrowArea, Zenon
  <2>4. w = Put(g, AreaOf(done, g),
                (Rep(fill, left) \o [i \in 1..n |-> g.cells[AreaOf(done, g).off + i - 1]])
                  \o Rep(fill, rest))
    BY <2>1, Zenon DEF Centred
  <2> HIDE DEF g, w, left, rest, fill
  <2>5. w = g
    BY <2>3, <2>4, PutIdle, Zenon
  <2> QED
    BY <2>3, <2>5, Zenon
<1>11. left \in Nat /\ left + n <= width
  <2> DEFINE d == width - n
  <2>1. d \in Nat /\ d + n = width
    OBVIOUS
  <2> HIDE DEF d
  <2>2. d \div 2 \in Nat /\ d \div 2 <= d
    BY <2>1
  <2>3. left = d \div 2
    BY DEF d
  <2> HIDE DEF left, width
  <2>4. width \in Nat
    BY DEF width
  <2> QED
    BY <2>1, <2>2, <2>3, <2>4
<1>12. m.size \in Nat
  BY Zenon DEF Fits
<1> HIDE DEF w, signed, s, want, left, rest, field, width, fill
<1>13. ASSUME sign = <<>>
       PROVE  left + 1 \in 1..width /\ want[left + 1] = text[1]
  <2>1. s = text
    <3>1. <<>> \o text = text
      BY JoinsNothing, Zenon
    <3> QED
      BY <1>13, <3>1, Zenon DEF s
  <2>2. rest \in Nat /\ left + n + rest = width /\ 0 < n
    <3>1. width \in Nat
      BY DEF width
    <3>2. rest = width - n - left
      BY DEF rest
    <3> QED
      BY <1>2, <1>11, <3>1, <3>2
  <2>3. fill \in Char
    BY DEF fill
  <2> DEFINE a == Rep(fill, left)
             c == Rep(fill, rest)
             as == a \o s
  <2>4. a \in Seq(Char) /\ Len(a) = left /\ c \in Seq(Char) /\ Len(c) = rest
    BY <1>11, <2>2, <2>3, RepSeq, Zenon
  <2>5. /\ as \in Seq(Char) /\ Len(as) = left + n
        /\ \A i \in 1..(left + n) : as[i] = IF i <= left THEN a[i] ELSE s[i - left]
    <3> HIDE DEF a
    <3>1. /\ as \in Seq(Char) /\ Len(as) = Len(a) + Len(s)
          /\ \A i \in 1..(Len(a) + Len(s)) : as[i] = IF i <= Len(a) THEN a[i] ELSE s[i - Len(a)]
      BY <1>6, <2>4, Joined, Zenon
    <3> QED
      BY <1>6, <2>4, <3>1, Zenon
  <2>6. \A i \in 1..((left + n) + rest) : want[i] = IF i <= left + n THEN as[i] ELSE c[i - (left + n)]
    <3>1. want = as \o c
      BY <1>8, Zenon DEF field
    <3> HIDE DEF as, c
    <3>2. \A i \in 1..(Len(as) + Len(c)) : (as \o c)[i] = IF i <= Len(as) THEN as[i] ELSE c[i - Len(as)]
      BY <2>4, <2>5, Joined, Zenon
    <3> QED
      BY <2>4, <2>5, <3>1, <3>2, Zenon
  <2> HIDE DEF a, c, as
  <2> DEFINE i == left + 1
  <2>7. i \in 1..width /\ i \in 1..((left + n) + rest) /\ i <= left + n /\ i \in 1..(left + n)
        /\ ~(i <= left) /\ i - left = 1
    <3>1. width \in Nat
      BY DEF width
    <3> QED
      BY <1>11, <2>2, <3>1
  <2> HIDE DEF i
  <2>8. want[i] = s[i - left]
    BY <2>5, <2>6, <2>7, Zenon
  <2> QED
    BY <2>1, <2>7, <2>8, Zenon DEF i
<1>14. ASSUME Runs(w), ~(m.size + width <= done.capacity), sign = <<>>
       PROVE  \E i \in 1..Len(want) : want[i] = text[1] /\ w.cells[m.size + i - 1] = JUNK
  <2>1. 0 < n
    BY <1>2
  <2>2. w.cells[m.size + left] = JUNK
    BY <1>5, <1>9, <1>14, <2>1, Zenon
  <2>3. m.size + (left + 1) - 1 = m.size + left
    BY <1>11, <1>12
  <2>4. Len(want) = width
    BY <1>8, <1>9, Zenon
  <2> QED
    BY <1>13, <1>14, <2>2, <2>3, <2>4, Zenon
<1> QED
  BY <1>5, <1>8, <1>9, <1>10, <1>14, Zenon DEF w, signed, want, width, CentredNumber

\* With an exception, nothing is said of what was appended.
LEMMA AppendedThrown ==
  ASSUME NEW m, NEW s, NEW w, From(m, w), w.faults = m.faults, ~Runs(w)
  PROVE  Appended(m, s, w)
BY Zenon DEF Appended

\* What is printed without padding is the number.
LEMMA PrintedCentre ==
  ASSUME NEW sign, NEW text \in Seq(Char), NEW spec, spec.align = "center", NEW gap,
         NEW printed, printed = Blanks(NumLead(gap, spec)) \o NumRest(text, gap, spec)
  PROVE  printed = text
<1>1. "center" # "left"
  OBVIOUS
<1>2. NumLead(gap, spec) = 0 /\ NumRest(text, gap, spec) = text
  BY <1>1, Zenon DEF NumLead, NumRest
<1>3. Blanks(0) = <<>>
  <2>1. " " \in Char
    BY MarksAreChars, Zenon
  <2> QED
    BY <2>1, RunOfNone, Zenon DEF Blanks
<1>4. <<>> \o text = text
  BY JoinsNothing, Zenon
<1> QED
  BY <1>2, <1>3, <1>4, Zenon

\* write_double() of a number.
LEMMA WriteNumberWritten ==
  ASSUME NEW m, Fits(m), NEW sign, IsSign(sign), NEW text \in Seq(Char), Solid(text),
         NEW spec, spec.width \in Nat, spec.fill \in Char, spec.align \in Aligns
  PROVE  /\ NumberText(sign, text, spec) \in Seq(Char)
         /\ NumberWritten(m, text, NumberText(sign, text, spec), LosesCentred(m, sign, text, spec),
                          WriteNumber(m, sign, text, spec))
<1> DEFINE gap == Gap(spec.width, sign, text)
           k == NumLead(gap, spec)
           t == NumRest(text, gap, spec)
           printed == NumPrinted(sign, text, spec)
           done == NumberDone(m, sign, printed, spec)
           n == Len(printed) + Len(sign)
           width == spec.width
           want == NumberText(sign, text, spec)
           w == WriteNumber(m, sign, text, spec)
           loses == LosesCentred(m, sign, text, spec)
           wide == spec.align = "center" /\ width > n
<1>1. /\ gap \in Nat /\ k \in Nat /\ t \in Seq(Char)
      /\ gap = IF width <= Len(sign) + Len(text) THEN 0 ELSE width - (Len(sign) + Len(text))
  BY PrintedParts, Zenon
<1>2. /\ printed = Blanks(k) \o t /\ printed \in Seq(Char)
      /\ Len(printed) = k + Len(t) /\ BlanksOf(printed) = k
      /\ SignedDraft(m, done, sign, printed)
      /\ NumberRoom(m, sign, printed, spec, done)
  <2>1. NumberStands(m, sign, text, spec, gap)
    BY NumberReady, Zenon
  <2> QED
    BY <2>1, Zenon DEF NumberStands
<1>3. w = IF wide THEN Centred(NumberSigned(m, done, sign, k, spec), n, spec)
          ELSE GrowBuffer(NumberWhole(m, done, sign, k, spec), n)
  <2>1. w = IF spec.align = "center" /\ spec.width > n
            THEN Centred(NumberSigned(m, done, sign, BlanksOf(printed), spec), n, spec)
            ELSE GrowBuffer(NumberWhole(m, done, sign, BlanksOf(printed), spec), n)
    BY WriteNumberParts, Zenon
  <2> QED
    BY <1>2, <2>1, Zenon
<1>4. Len(sign) \in Nat /\ Len(text) \in Nat /\ Len(printed) \in Nat /\ n \in Nat /\ text # <<>>
  <2>1. sign \in Seq(Char) /\ text # <<>>
    BY Zenon DEF IsSign, Solid
  <2>2. Len(sign) \in Nat /\ Len(text) \in Nat /\ Len(printed) \in Nat
    BY <1>2, <2>1, LenProperties, Zenon
  <2> HIDE DEF printed
  <2>3. n \in Nat
    BY <2>2
  <2> QED
    BY <2>1, <2>2, <2>3, Zenon
<1>5. spec.align = "center" => printed = text
  BY <1>2, PrintedCentre, Zenon
<1> HIDE DEF printed, done, w, want, k, t, gap
<1>6. CASE ~wide
  <2>1. CentredNow(gap, spec)
    <3>1. ASSUME spec.align = "center"
          PROVE  gap = 0
      <4>1. n = Len(text) + Len(sign) /\ ~(width > n)
        BY <1>5, <1>6, <3>1, Zenon
      <4> HIDE DEF n, width
      <4>2. width \in Nat
        BY DEF width
      <4> QED
        BY <1>1, <1>4, <4>1, <4>2
    <3> QED
      BY <3>1, Zenon DEF CentredNow
  <2>2. want \in Seq(Char) /\ Appended(m, want, w)
    <3>1. k = NumLead(gap, spec) /\ t = NumRest(text, gap, spec) /\ gap = Gap(spec.width, sign, text)
      BY Zenon DEF k, t, gap
    <3> USE DEF k, t
    <3> HIDE DEF n
    <3>2. /\ NumberText(sign, text, spec) \in Seq(Char)
          /\ Appended(m, NumberText(sign, text, spec),
               GrowBuffer(NumberWhole(m, done, sign, NumLead(gap, spec), spec), Len(printed) + Len(sign)))
      BY <1>1, <1>2, <2>1, <3>1, NumberPlain, Zenon
    <3> QED
      BY <1>3, <1>6, <3>2, Zenon DEF want, n
  <2>3. ~loses
    <3>1. ASSUME loses
          PROVE  FALSE
      <4>1. spec.align = "center" /\ sign = <<>> /\ width > Len(text)
        BY <3>1, Zenon DEF LosesCentred
      <4>2. n = Len(text) + 0
        BY <1>5, <4>1, EmptyText, Zenon
      <4>3. n = Len(text)
        <5> HIDE DEF n
        <5> QED
          BY <1>4, <4>2
      <4> QED
        BY <1>6, <4>1, <4>3, Zenon
    <3> QED
      BY <3>1
  <2>4. NumberWritten(m, text, want, loses, w)
    <3> HIDE DEF loses
    <3> QED
      BY <2>2, <2>3, Zenon DEF NumberWritten, Appended
  <2> QED
    BY <2>2, <2>4, Zenon DEF want, w
<1>7. CASE wide
  <2>1. printed = text /\ spec.align = "center" /\ width > n
    BY <1>5, <1>7, Zenon
  <2>2. n = Len(text) + Len(sign) /\ SignedDraft(m, done, sign, text)
    BY <1>2, <2>1, Zenon
  <2>3. w = Centred(NumberSigned(m, done, sign, k, spec), n, spec)
    BY <1>3, <1>7, Zenon
  <2>4. NumberRoom(m, sign, text, spec, done)
    BY <1>2, <2>1, Zenon
  <2> DEFINE c == done.capacity
             o == m.size
             e == IF FitsIn(m.size, Len(text), m) THEN m.capacity ELSE Room(m, m.size + Len(text) + 1)
  <2>5. CentredNumber(m, sign, text, spec, done, w)
    <3> HIDE DEF n
    <3>1. n < spec.width
      <4>1. width > n
        BY <2>1, Zenon
      <4> QED
        BY <4>1
    <3>2. CentredNumber(m, sign, text, spec, done, Centred(NumberSigned(m, done, sign, k, spec), n, spec))
      BY <1>4, <2>1, <2>2, <3>1, NumberCentred, Zenon
    <3> QED
      BY <2>3, <3>2, Zenon
  <2>6. /\ want \in Seq(Char) /\ Len(want) = width
        /\ From(m, w) /\ w.faults = m.faults
        /\ Runs(w) => Runs(done) /\ w.size = o + width
        /\ o + width <= c => Appended(m, want, w)
        /\ Runs(w) /\ ~(o + width <= c) /\ sign = <<>> =>
             \E i \in 1..Len(want) : want[i] = text[1] /\ w.cells[m.size + i - 1] = JUNK
    BY <2>5, Zenon DEF CentredNumber, want
  <2>7. /\ Runs(done) /\ sign # <<>> => o + Max2(width, 1) <= c
        /\ Runs(done) /\ sign = <<>> => c = e
    BY <2>4, Zenon DEF NumberRoom
  <2>8. loses <=> (sign = <<>> /\ width > Len(text) /\ o + width > e)
    BY <2>1, Zenon DEF LosesCentred
  <2>9. o \in Nat
    BY Zenon DEF Fits
  <2> HIDE DEF c, o, e, n, loses
  <2>10. ~Runs(w) => Appended(m, want, w)
    BY <2>6, AppendedThrown, Zenon
  <2>11. ASSUME Runs(w), sign # <<>>
         PROVE  o + width <= c
    <3>1. o + Max2(width, 1) <= c
      BY <2>6, <2>7, <2>11, Zenon
    <3>2. width \in Nat /\ c \in Int
      <4>1. c \in Nat
        <5>1. Fits(done)
          BY <2>2, FromFits, Zenon DEF SignedDraft, Drafted
        <5> QED
          BY <5>1, Zenon DEF Fits, c
      <4> QED
        BY <4>1
    <3> HIDE DEF width
    <3> QED
      BY <2>9, <3>1, <3>2 DEF Max2
  <2>12. ASSUME Runs(w), sign = <<>>
         PROVE  loses <=> ~(o + width <= c)
    <3>1. c = e
      BY <2>6, <2>7, <2>12, Zenon
    <3>2. width > Len(text)
      <4>1. n = Len(text) + 0
        BY <2>2, <2>12, EmptyText, Zenon
      <4>2. n = Len(text)
        BY <1>4, <4>1
      <4> QED
        BY <2>1, <4>2, Zenon
    <3>3. c \in Nat /\ width \in Nat
      <4>1. Fits(done)
        BY <2>2, FromFits, Zenon DEF SignedDraft, Drafted
      <4>2. c \in Nat
        BY <4>1, Zenon DEF Fits, c
      <4> QED
        BY <4>2
    <3>4. loses <=> o + width > c
      BY <2>8, <2>12, <3>1, <3>2, Zenon
    <3> HIDE DEF width
    <3>5. o + width > c <=> ~(o + width <= c)
      BY <2>9, <3>3
    <3> QED
      BY <3>4, <3>5, Zenon
  <2>13. loses => sign = <<>>
    BY <2>8, Zenon
  <2>14. ~loses => Appended(m, want, w)
    BY <2>6, <2>10, <2>11, <2>12, Zenon
  <2>15. Runs(w) /\ loses => \E i \in 1..Len(want) : want[i] = text[1] /\ w.cells[m.size + i - 1] = JUNK
    BY <2>6, <2>12, <2>13, Zenon
  <2>16. NumberWritten(m, text, want, loses, w)
    BY <2>6, <2>14, <2>15, Zenon DEF NumberWritten, o
  <2> QED
    BY <2>6, <2>16, Zenon DEF want, w, loses
<1> QED
  BY <1>6, <1>7, Zenon

-----------------------------------------------------------------------------
(* write_double(): infinity and NaN, and what all of it writes             *)

\* Characters of a text that was appended are replaced.
LEMMA AppendedOver ==
  ASSUME NEW m, Fits(m), NEW a \in Seq(Char), NEW b \in Seq(Char), NEW c \in Seq(Char),
         NEW t \in Seq(Char), SameLength(b, t), NEW r, Appended(m, (a \o b) \o c, r),
         NEW p, PointsBehind(p, m, r, a)
  PROVE  Appended(m, (a \o t) \o c, Put(r, p, t))
<1> DEFINE old == (a \o b) \o c
           new == (a \o t) \o c
           z == m.size + Len(old)
           w == Put(r, p, t)
<1>1. Len(new) = Len(old)
  <2>1. Len(a) \in Nat /\ Len(b) = Len(t)
    BY LenProperties, Zenon DEF SameLength
  <2>2. a \o b \in Seq(Char) /\ Len(a \o b) = Len(a) + Len(b)
    BY Joined, Zenon
  <2>3. a \o t \in Seq(Char) /\ Len(a \o t) = Len(a) + Len(b)
    <3>1. a \o t \in Seq(Char) /\ Len(a \o t) = Len(a) + Len(t)
      BY Joined, Zenon
    <3> QED
      BY <2>1, <3>1, Zenon
  <2>4. Len(old) = (Len(a) + Len(b)) + Len(c)
    <3>1. Len(old) = Len(a \o b) + Len(c)
      BY <2>2, Joined, Zenon
    <3> QED
      BY <2>2, <3>1, Zenon
  <2>5. Len(new) = (Len(a) + Len(b)) + Len(c)
    <3>1. Len(new) = Len(a \o t) + Len(c)
      BY <2>3, Joined, Zenon
    <3> QED
      BY <2>3, <3>1, Zenon
  <2> QED
    BY <2>4, <2>5, Zenon
<1>2. From(m, r) /\ r.faults = m.faults
  BY Zenon DEF Appended
<1>3. r.size <= r.capacity
  <2>1. Fits(r)
    BY <1>2, FromFits, Zenon
  <2> QED
    BY <2>1, Zenon DEF Fits
<1>4. Stands(m, r, old, z)
  <2> HIDE DEF old
  <2>1. Runs(r) => r.size = z /\ Holds(r, m.size, old)
    BY Zenon DEF Appended, Holds, old
  <2> QED
    BY <1>2, <1>3, <2>1, Zenon DEF Stands
<1>5. Rewritten(m, r, w, new, z)
  <2> HIDE DEF z
  <2> QED
    BY <1>4, Overwritten, Zenon
<1> HIDE DEF w, new, old
<1>6. Runs(w) => w.size = m.size + Len(new) /\ Holds(w, m.size, new)
  BY <1>1, <1>5, Zenon DEF Rewritten, Stands
<1>7. From(m, w) /\ w.faults = m.faults
  BY <1>5, Zenon DEF Rewritten, Stands
<1> QED
  BY <1>6, <1>7, Zenon DEF Appended, Holds, new, w

\* Infinity and NaN: text with a sign.
LEMMA NotFiniteAppended ==
  ASSUME NEW m, Fits(m), NEW sign, IsSign(sign), NEW text \in Seq(Char),
         NEW spec, spec.width \in Nat, spec.fill \in Char
  PROVE  LET held == WriteStrAt(m, Blanks(Len(sign)) \o text, spec)
         IN  /\ sign \o text \in Seq(Char)
             /\ Appended(m, Laid(TextAlign(spec.align), spec.fill, spec.width, <<>>, sign \o text),
                         Put(held.m, held.p, sign))
<1> DEFINE k == Len(sign)
           b == Blanks(k)
           s == b \o text
           st == sign \o text
           held == WriteStrAt(m, s, spec)
           width == spec.width
           fill == spec.fill
           padding == Max2(0, width - Len(s))
           left == LeftPadding(spec.align, padding)
           right == padding - left
           a == Rep(fill, left)
           c == Rep(fill, right)
<1>1. sign \in Seq(Char) /\ k \in Nat /\ Len(text) \in Nat
  BY LenProperties, Zenon DEF IsSign
<1>2. b \in Seq(Char) /\ Len(b) = k
  BY <1>1, BlanksSeq, Zenon
<1> HIDE DEF b, k
<1>3. s \in Seq(Char) /\ Len(s) = k + Len(text)
  BY <1>2, Joined, Zenon
<1>4. st \in Seq(Char) /\ Len(st) = k + Len(text)
  BY <1>1, Joined, Zenon DEF k
<1>5. Len(s) \in Nat
  BY <1>3, LenProperties, Zenon
<1>6. Appended(m, Framed(fill, left, s, right), held.m) /\ held.p.off = m.size + left /\ held.p.gen = held.m.gen
  <2> HIDE DEF s
  <2> QED
    BY <1>3, WriteStrAtAppended, Zenon
<1>7. left \in Nat /\ right \in Nat
  <2> DEFINE n == Len(s)
  <2> HIDE DEF n
  <2>1. LET pp == Max2(0, width - n) ll == LeftPadding(spec.align, pp) IN ll \in Nat /\ pp - ll \in Nat
    BY <1>5, PaddingBounds, Zenon DEF n
  <2> QED
    BY <2>1, Zenon DEF n
<1>8. Framed(fill, left, st, right) = Laid(TextAlign(spec.align), fill, width, <<>>, st)
  <2>1. padding = Max2(0, width - Len(st))
    BY <1>3, <1>4, Zenon
  <2> HIDE DEF st, s
  <2>2. LET pp == Max2(0, width - Len(st))
            ll == LeftPadding(spec.align, pp)
        IN  Framed(fill, ll, st, pp - ll) = Laid(TextAlign(spec.align), fill, width, <<>>, st)
    BY <1>4, FramedLaid, Zenon
  <2> QED
    BY <2>1, <2>2, Zenon
<1> HIDE DEF left, right, padding
<1>9. a \in Seq(Char) /\ Len(a) = left /\ c \in Seq(Char)
  BY <1>7, RepSeq, Zenon
<1> DEFINE u == text \o c
<1> HIDE DEF a, c
<1>10. u \in Seq(Char)
  BY <1>9, Joined, Zenon
<1>11. Framed(fill, left, s, right) = (a \o b) \o u
  <2>1. (a \o (b \o text)) \o c = a \o ((b \o text) \o c)
    <3> HIDE DEF s
    <3>1. (a \o s) \o c = a \o (s \o c)
      BY <1>3, <1>9, Regrouped, Zenon
    <3> QED
      BY <3>1, Zenon DEF s
  <2>2. (b \o text) \o c = b \o u
    BY <1>2, <1>9, Regrouped, Zenon
  <2>3. (a \o b) \o u = a \o (b \o u)
    <3> HIDE DEF u
    <3> QED
      BY <1>2, <1>9, <1>10, Regrouped, Zenon
  <2> QED
    BY <2>1, <2>2, <2>3, Zenon DEF Framed, a, c
<1>12. Framed(fill, left, st, right) = (a \o sign) \o u
  <2>1. (a \o (sign \o text)) \o c = a \o ((sign \o text) \o c)
    <3> HIDE DEF st
    <3>1. (a \o st) \o c = a \o (st \o c)
      BY <1>4, <1>9, Regrouped, Zenon
    <3> QED
      BY <3>1, Zenon DEF st
  <2>2. (sign \o text) \o c = sign \o u
    BY <1>1, <1>9, Regrouped, Zenon
  <2>3. (a \o sign) \o u = a \o (sign \o u)
    <3> HIDE DEF u
    <3> QED
      BY <1>1, <1>9, <1>10, Regrouped, Zenon
  <2> QED
    BY <2>1, <2>2, <2>3, Zenon DEF Framed, a, c
<1> HIDE DEF s, st, held, u, fill, width
<1>13. SameLength(b, sign)
  BY <1>2, Zenon DEF SameLength, k
<1>14. PointsBehind(held.p, m, held.m, a)
  BY <1>6, <1>9, Zenon DEF PointsBehind
<1>15. Appended(m, (a \o b) \o u, held.m)
  BY <1>6, <1>11, Zenon
<1>16. Appended(m, (a \o sign) \o u, Put(held.m, held.p, sign))
  BY <1>1, <1>2, <1>9, <1>10, <1>13, <1>14, <1>15, AppendedOver, Zenon
<1> QED
  BY <1>4, <1>8, <1>12, <1>16, Zenon DEF st, held, s, b, k, fill, width

-----------------------------------------------------------------------------
(* A statement                                                             *)

\* What the proofs need of a statement.
IsStatement(st) ==
  /\ st.op \in {"text", "one", "str", "char", "int", "double"}
  /\ st.num \in Values /\ st.str \in Seq(Char)
  /\ st.op \in {"one", "char"} => Len(st.str) = 1
  /\ st.op = "double" => Solid(st.str) /\ st.str[1] # JUNK
  /\ IsSpec(st.spec) /\ st.spec.align \in Aligns

\* What a statement does to a buffer: it appends what is wanted, but for the two kinds
\* that are known to go wrong, which take the room of it and do not put it there.
Written(m, want, freed, loses, r) ==
  /\ want \in Seq(Char) /\ From(m, r)
  /\ ~Runs(r) => r.faults = m.faults
  /\ Runs(r) => r.size = m.size + Len(want)
  /\ Runs(r) /\ ~freed => r.faults = m.faults
  /\ Runs(r) /\ freed => r.faults # {}
  /\ Runs(r) /\ ~freed /\ ~loses => Holds(r, m.size, want)
  /\ Runs(r) /\ Blank(m) /\ (freed \/ loses) => ~Holds(r, m.size, want)

\* Appending what is wanted is right when nothing is known to go wrong.
LEMMA AppendedWritten ==
  ASSUME NEW m, NEW want \in Seq(Char), NEW r, Appended(m, want, r), NEW freed, NEW loses,
         Runs(r) => ~freed /\ ~loses
  PROVE  Written(m, want, freed, loses, r)
BY Zenon DEF Written, Appended, Holds

\* An exception is right whatever was wanted.
Says(what) == what # ""

\* A statement that throws is done as is wanted, whatever that is.
LEMMA ThrownWritten ==
  ASSUME NEW m, Fits(m), NEW want \in Seq(Char), NEW what, Says(what), NEW freed, NEW loses
  PROVE  Written(m, want, freed, loses, Throw(m, what))
<1> DEFINE t == Throw(m, what)
<1>1. /\ Fits(t) /\ Idle(m, t) /\ ~Runs(t)
      /\ t.size = m.size /\ t.capacity = m.capacity /\ t.gen = m.gen /\ t.cells = m.cells
      /\ t.faults = m.faults
  BY ThrowFits, Zenon DEF Says
<1> HIDE DEF t
<1>2. m.size \in Nat /\ m.capacity \in Nat /\ m.gen \in Nat
  BY DEF Fits
<1>3. m.size <= t.size /\ m.capacity <= t.capacity /\ m.gen <= t.gen
  BY <1>1, <1>2
<1>4. From(m, t)
  BY <1>1, <1>3, Zenon DEF From
<1> QED
  BY <1>1, <1>4, Zenon DEF Written, t

\* A text of one character.
LEMMA OneCharText ==
  ASSUME NEW s \in Seq(Char), Len(s) = 1
  PROVE  s = <<s[1]>> /\ s[1] \in Char
<1> DEFINE c == s[1]
           t == <<c>>
<1>1. c \in Char
  OBVIOUS
<1> HIDE DEF c
<1>2. t \in Seq(Char) /\ Len(t) = 1 /\ t[1] = c
  BY <1>1
<1> HIDE DEF t
<1>3. \A i \in 1..Len(s) : s[i] = t[i]
  <2>1. ASSUME NEW i \in 1..Len(s)
        PROVE  i = 1
    OBVIOUS
  <2> QED
    BY <1>2, <2>1, Zenon DEF c
<1>4. s = t
  BY <1>2, <1>3, SeqEqual
<1> QED
  BY <1>1, <1>4, Zenon DEF t, c

\* Characters and strings.
LEMMA StrWritten ==
  ASSUME NEW m, Fits(m), NEW st, IsStatement(st), st.op \in {"text", "one", "str", "char"}
  PROVE  Wanted(st) \in Seq(Char) /\ (Runs(Write(m, st)) => Appended(m, Wanted(st), Write(m, st)))
         /\ (~Runs(Write(m, st)) => Written(m, Wanted(st), FALSE, FALSE, Write(m, st)))
<1> DEFINE s == st.str
           spec == st.spec
           c == s[1]
           r == Write(m, st)
           want == Wanted(st)
           laid == Laid(TextAlign(spec.align), spec.fill, spec.width, <<>>, s)
<1>1. s \in Seq(Char) /\ spec.width \in Nat /\ spec.fill \in Char /\ (st.op \in {"one", "char"} => Len(s) = 1)
  BY Zenon DEF IsStatement, IsSpec
<1>2. "one" # "text" /\ "str" # "text" /\ "str" # "one" /\ "char" # "text" /\ "char" # "one" /\ "char" # "str"
  OBVIOUS
<1>3. ASSUME NEW w, Appended(m, want, w), want \in Seq(Char), r = w
      PROVE  want \in Seq(Char) /\ Appended(m, want, r) /\ Written(m, want, FALSE, FALSE, r)
  <2> HIDE DEF r, want
  <2>1. Written(m, want, FALSE, FALSE, w)
    BY <1>3, AppendedWritten, Zenon
  <2> QED
    BY <1>3, <2>1, Zenon
<1>4. ASSUME st.op \in {"one", "char"}
      PROVE  s = <<c>> /\ c \in Char
  <2>1. Len(s) = 1
    BY <1>1, <1>4, Zenon
  <2> HIDE DEF s
  <2> QED
    BY <1>1, <2>1, OneCharText, Zenon
<1>5. CASE st.op = "text"
  <2>1. r = AppendChars(m, s) /\ want = s
    BY <1>2, <1>5, Zenon DEF Write, Wanted
  <2> HIDE DEF r, want
  <2>2. Appended(m, s, AppendChars(m, s))
    BY <1>1, AppendCharsAppended, Zenon
  <2> QED
    BY <1>1, <1>3, <2>1, <2>2, Zenon DEF r, want
<1>6. CASE st.op = "one"
  <2>1. r = PushBack(m, c) /\ want = s
    BY <1>2, <1>6, Zenon DEF Write, Wanted
  <2>2. s = <<c>> /\ c \in Char
    BY <1>4, <1>6, Zenon
  <2> HIDE DEF r, want, c, s
  <2>3. Appended(m, <<c>>, PushBack(m, c))
    BY <2>2, PushBackAppended, Zenon
  <2>4. Appended(m, want, PushBack(m, c))
    BY <2>1, <2>2, <2>3, Zenon
  <2> QED
    BY <1>1, <1>3, <2>1, <2>4, Zenon DEF r, want, s
<1>7. laid \in Seq(Char) /\ Appended(m, laid, WriteStrAt(m, s, spec).m)
  <2>1. Appended(m, laid, WriteStrAt(m, s, spec).m)
    BY <1>1, StrWanted, Zenon
  <2>2. laid \in Seq(Char)
    <3> DEFINE padding == Max2(0, spec.width - Len(s))
               left == LeftPadding(spec.align, padding)
               right == padding - left
    <3>1. Framed(spec.fill, left, s, right) = laid
      BY <1>1, FramedLaid, Zenon
    <3>2. left \in Nat /\ right \in Nat
      <4>1. Len(s) \in Nat
        BY <1>1, LenProperties, Zenon
      <4> QED
        BY <1>1, <4>1, PaddingBounds, Zenon
    <3> HIDE DEF left, right, laid
    <3>3. Framed(spec.fill, left, s, right) \in Seq(Char)
      BY <1>1, <3>2, FramedSeq, Zenon
    <3> QED
      BY <3>1, <3>3, Zenon DEF laid
  <2> QED
    BY <2>1, <2>2, Zenon
<1>8. CASE st.op = "str"
  <2>1. r = WriteStr(m, s, spec) /\ want = laid
    BY <1>2, <1>8, Zenon DEF Write, Wanted
  <2> HIDE DEF laid
  <2>2. CASE spec.type \in StrTypes
    <3>1. r = WriteStrAt(m, s, spec).m
      BY <2>1, <2>2, Zenon DEF WriteStr
    <3>2. Appended(m, want, WriteStrAt(m, s, spec).m) /\ want \in Seq(Char)
      BY <1>7, <2>1, Zenon
    <3> HIDE DEF want, r
    <3> QED
      BY <1>3, <3>1, <3>2, Zenon DEF want, r
  <2>3. CASE spec.type \notin StrTypes
    <3> DEFINE what == "unknown format code for string"
    <3>1. r = Throw(m, what)
      BY <2>1, <2>3, Zenon DEF WriteStr
    <3>2. want \in Seq(Char) /\ Says(what)
      <4>1. what # ""
        OBVIOUS
      <4> HIDE DEF what
      <4> QED
        BY <1>7, <2>1, <4>1, Zenon DEF Says
    <3> HIDE DEF r, want, what
    <3>3. Written(m, want, FALSE, FALSE, r)
      BY <3>1, <3>2, ThrownWritten, Zenon
    <3>4. ~Runs(r)
      BY <3>1, <3>2, ThrowFits, Zenon DEF Says
    <3> QED
      BY <3>2, <3>3, <3>4, Zenon DEF r, want
  <2> QED
    BY <2>2, <2>3, Zenon
<1>9. CASE st.op = "char"
  <2>1. r = WriteChar(m, c, spec) /\ want = laid
    BY <1>2, <1>9, Zenon DEF Write, Wanted
  <2>2. s = <<c>>
    BY <1>4, <1>9, Zenon
  <2>3. r = WriteStrAt(m, s, spec).m
    <3> HIDE DEF r, c, s
    <3> QED
      BY <2>1, <2>2, Zenon DEF WriteChar
  <2>4. Appended(m, want, WriteStrAt(m, s, spec).m) /\ want \in Seq(Char)
    BY <1>7, <2>1, Zenon
  <2> HIDE DEF want, r
  <2> QED
    BY <1>3, <2>3, <2>4, Zenon DEF want, r
<1> QED
  BY <1>5, <1>6, <1>8, <1>9, Zenon

\* The first digit of a number that is padded on the right, and how long it is.
LEMMA PaddedDigit ==
  ASSUME NEW v \in Values, NEW spec, IsSpec(spec),
         PadsAfter(Len(Magnitude(v, spec)), spec, IntPrefix(v, spec))
  PROVE  LET h == Len(NumberHead(Len(Magnitude(v, spec)), spec, IntPrefix(v, spec)))
             text == PaddedText(v, spec)
         IN  h \in Nat /\ text \in Seq(Char) /\ Len(text) = spec.width
             /\ h + 1 \in 1..Len(text) /\ text[h + 1] # JUNK
<1> DEFINE d == Magnitude(v, spec)
           n == Len(d)
           prefix == IntPrefix(v, spec)
           number == NumberSize(spec, prefix)
           head == NumberHead(n, spec, prefix)
           pad == Rep(spec.fill, spec.width - number)
           body == head \o d
           h == Len(head)
           text == PaddedText(v, spec)
<1>1. d \in Seq(Char) /\ n \in Nat /\ 0 < n /\ d[1] # JUNK
  BY MagnitudeSeq, Zenon
<1>2. prefix \in Seq(Char)
  BY PrefixSeq, Zenon
<1>3. n < spec.precision /\ number < spec.width
  BY Zenon DEF PadsAfter
<1>4. text = body \o pad
  BY Zenon DEF PaddedText
<1>5. spec.width \in Nat /\ spec.fill \in Char
  BY Zenon DEF IsSpec
<1> HIDE DEF d, n, prefix
<1>6. number \in Nat /\ head \in Seq(Char) /\ Len(head) + n = number
  BY <1>1, <1>2, <1>3, NumberParts, Zenon
<1> HIDE DEF number, head
<1>7. h \in Nat
  BY <1>6, LenProperties, Zenon
<1> HIDE DEF h
<1>8. spec.width - number \in Nat
  BY <1>3, <1>5, <1>6
<1>9. pad \in Seq(Char) /\ Len(pad) = spec.width - number
  BY <1>5, <1>8, RepSeq, Zenon
<1> HIDE DEF pad
<1>10. /\ body \in Seq(Char) /\ Len(body) = Len(head) + Len(d)
       /\ \A i \in 1..(Len(head) + Len(d)) : body[i] = IF i <= Len(head) THEN head[i] ELSE d[i - Len(head)]
  BY <1>1, <1>6, Joined, Zenon
<1> HIDE DEF body
<1>11. /\ body \o pad \in Seq(Char) /\ Len(body \o pad) = Len(body) + Len(pad)
       /\ \A i \in 1..(Len(body) + Len(pad)) :
            (body \o pad)[i] = IF i <= Len(body) THEN body[i] ELSE pad[i - Len(body)]
  BY <1>9, <1>10, Joined, Zenon
<1> HIDE DEF text
<1>12. Len(body) = number /\ h + n = number /\ Len(head) = h /\ Len(d) = n
  BY <1>6, <1>10, Zenon DEF h, n
<1>13. Len(text) = spec.width /\ text \in Seq(Char)
  <2>1. number + (spec.width - number) = spec.width
    BY <1>5, <1>6
  <2> QED
    BY <2>1, <1>4, <1>9, <1>11, <1>12, Zenon
<1>14. h + 1 \in 1..spec.width /\ h + 1 \in 1..number /\ h + 1 <= number /\ ~(h + 1 <= h) /\ (h + 1) - h = 1
       /\ h + 1 \in 1..(number + (spec.width - number))
  BY <1>1, <1>3, <1>5, <1>6, <1>7, <1>12
<1>15. text[h + 1] = d[1]
  <2>1. (body \o pad)[h + 1] = body[h + 1]
    BY <1>9, <1>11, <1>12, <1>14, Zenon
  <2>2. body[h + 1] = d[1]
    BY <1>10, <1>12, <1>14, Zenon
  <2> QED
    BY <1>4, <2>1, <2>2, Zenon
<1> QED
  BY <1>1, <1>7, <1>13, <1>14, <1>15, Zenon DEF h, head, n, d, prefix, text

\* The text of an integer, and the two kinds of statement that are known to go wrong.
LEMMA IntWanted ==
  ASSUME NEW m, Fits(m), NEW st, IsStatement(st), st.op = "int"
  PROVE  /\ Write(m, st) = WriteInt(m, st.num, st.spec)
         /\ Wanted(st) = IntText(st.num, st.spec) /\ Wanted(st) \in Seq(Char)
         /\ ~LosesNumber(m, st)
         /\ WritesFreed(m, st) <=>
              /\ PadsAfter(Len(Magnitude(st.num, st.spec)), st.spec, IntPrefix(st.num, st.spec))
              /\ ~PaddingFits(m, st.num, st.spec)
<1> DEFINE laid == Laid(IF ZeroPadded(st.num, st.spec) /\ st.spec.align # "left" THEN "right" ELSE st.spec.align,
                        st.spec.fill, st.spec.width, IntSign(st.num, st.spec), IntBody(st.num, st.spec))
<1>1. "int" # "text" /\ "int" # "one" /\ "int" # "str" /\ "int" # "char" /\ "int" # "double"
  OBVIOUS
<1>2. st.num \in Values /\ IsSpec(st.spec)
  BY Zenon DEF IsStatement
<1>3. Write(m, st) = WriteInt(m, st.num, st.spec)
  BY <1>1, Zenon DEF Write
<1>4. Wanted(st) = laid
  BY <1>1, Zenon DEF Wanted
<1>5. ~LosesNumber(m, st)
  BY <1>1, Zenon DEF LosesNumber
<1> HIDE DEF laid
<1>6. IntText(st.num, st.spec) = laid
  BY <1>2, IntTextWanted, Zenon DEF laid
<1>7. IntText(st.num, st.spec) \in Seq(Char)
  BY <1>2, IntTextSeq, Zenon
<1>8. m.size \in Nat /\ m.capacity \in Nat
  BY Zenon DEF Fits
<1>9. WritesFreed(m, st) <=>
        /\ PadsAfter(Len(Magnitude(st.num, st.spec)), st.spec, IntPrefix(st.num, st.spec))
        /\ ~PaddingFits(m, st.num, st.spec)
  BY <1>2, <1>8, FreedPads, Zenon
<1> QED
  BY <1>3, <1>4, <1>5, <1>6, <1>7, <1>9, Zenon

\* Integers, whether their padding moves the storage or not.
LEMMA IntWritten ==
  ASSUME NEW m, Fits(m), NEW st, IsStatement(st), st.op = "int"
  PROVE  Written(m, Wanted(st), WritesFreed(m, st), LosesNumber(m, st), Write(m, st))
<1> DEFINE v == st.num
           spec == st.spec
           want == Wanted(st)
           freed == WritesFreed(m, st)
           loses == LosesNumber(m, st)
           w == Write(m, st)
           pads == PadsAfter(Len(Magnitude(v, spec)), spec, IntPrefix(v, spec))
           fits == PaddingFits(m, v, spec)
<1>1. /\ w = WriteInt(m, v, spec) /\ want = IntText(v, spec) /\ want \in Seq(Char)
      /\ ~loses /\ (freed <=> pads /\ ~fits)
  BY IntWanted, Zenon
<1>2. v \in Values /\ IsSpec(spec)
  BY Zenon DEF IsStatement
<1> HIDE DEF v, spec, want, freed, loses, w, fits
<1>3. CASE spec.type \notin IntTypes
  <2> DEFINE what == "unknown format code for integer"
  <2>1. w = Throw(m, what)
    BY <1>1, <1>2, <1>3, WriteIntParts, Zenon
  <2>2. Says(what)
    <3>1. what # ""
      OBVIOUS
    <3> HIDE DEF what
    <3> QED
      BY <3>1, Zenon DEF Says
  <2> HIDE DEF what
  <2>3. Written(m, want, freed, loses, Throw(m, what))
    BY <1>1, <2>2, ThrownWritten, Zenon
  <2> QED
    BY <2>1, <2>3, Zenon DEF want, freed, loses, w
<1>4. CASE spec.type \in IntTypes /\ (pads => fits)
  <2>1. Appended(m, want, w)
    <3>1. CASE ~pads
      BY <1>1, <1>2, <1>4, <3>1, WriteIntAppended, Zenon
    <3>2. CASE pads /\ fits
      BY <1>1, <1>2, <1>4, <3>2, WriteIntPadded, Zenon DEF fits
    <3> QED
      BY <1>4, <3>1, <3>2, Zenon
  <2>2. ~freed /\ ~loses
    BY <1>1, <1>4, Zenon
  <2>3. Written(m, want, freed, loses, w)
    BY <1>1, <2>1, <2>2, AppendedWritten, Zenon
  <2> QED
    BY <2>3, Zenon DEF want, freed, loses, w
<1>5. CASE spec.type \in IntTypes /\ pads /\ ~fits
  <2> DEFINE h == Len(NumberHead(Len(Magnitude(v, spec)), spec, IntPrefix(v, spec)))
  <2>1. /\ From(m, w) /\ (Runs(w) => w.size = m.size + spec.width) /\ (~Runs(w) => w.faults = m.faults)
        /\ Runs(w) => w.faults # {} /\ (Blank(m) => w.cells[m.size + h] = JUNK)
    BY <1>1, <1>2, <1>5, WriteIntPadded, Zenon DEF fits
  <2>2. want = PaddedText(v, spec)
    BY <1>1, <1>2, <1>5, PaddedIsIntText, Zenon
  <2>3. h \in Nat /\ Len(want) = spec.width /\ h + 1 \in 1..Len(want) /\ want[h + 1] # JUNK
    BY <1>2, <1>5, <2>2, PaddedDigit, Zenon
  <2> HIDE DEF h
  <2>4. m.size \in Nat
    BY Zenon DEF Fits
  <2>5. m.size + (h + 1) - 1 = m.size + h
    BY <2>3, <2>4
  <2>6. Runs(w) /\ Blank(m) => ~Holds(w, m.size, want)
    BY <2>1, <2>3, <2>5, Zenon DEF Holds
  <2>7. freed
    BY <1>1, <1>5, Zenon
  <2>8. Written(m, want, freed, loses, w)
    BY <1>1, <2>1, <2>3, <2>6, <2>7, Zenon DEF Written
  <2> QED
    BY <2>8, Zenon DEF want, freed, loses, w
<1> QED
  BY <1>3, <1>4, <1>5, Zenon

\* A text in its padding.
LEMMA TextLaidSeq ==
  ASSUME NEW s \in Seq(Char), NEW width \in Nat, NEW fill \in Char, NEW align
  PROVE  Laid(TextAlign(align), fill, width, <<>>, s) \in Seq(Char)
<1> DEFINE padding == Max2(0, width - Len(s))
           left == LeftPadding(align, padding)
           right == padding - left
           laid == Laid(TextAlign(align), fill, width, <<>>, s)
<1>1. Framed(fill, left, s, right) = laid
  BY FramedLaid, Zenon
<1>2. left \in Nat /\ right \in Nat
  <2>1. Len(s) \in Nat
    BY LenProperties, Zenon
  <2> QED
    BY <2>1, PaddingBounds, Zenon
<1> HIDE DEF left, right, laid
<1>3. Framed(fill, left, s, right) \in Seq(Char)
  BY <1>2, FramedSeq, Zenon
<1> QED
  BY <1>1, <1>3, Zenon DEF laid

\* The numbers that are known to be left behind.
LEMMA LosesCentredNumber ==
  ASSUME NEW m, Fits(m), NEW st, st.op = "double", st.str \in Seq(Char), st.spec.width \in Nat
  PROVE  LosesNumber(m, st) <=>
           /\ ~NotFinite(st.str)
           /\ LosesCentred(m, SignOf(st.num < 0, st.spec), st.str, st.spec)
<1> DEFINE n == Len(st.str)
           k == (m.size + n) + 1
           half == m.capacity \div 2
           fits == FitsIn(m.size, n, m)
           grown == Max2(m.size + n + 1, m.capacity + m.capacity \div 2)
           fitted == Max2(m.capacity, IF fits THEN 0 ELSE grown)
           room == IF fits THEN m.capacity ELSE Room(m, m.size + n + 1)
<1>1. m.size \in Nat /\ m.capacity \in Nat
  BY Zenon DEF Fits
<1>2. n \in Nat
  BY LenProperties, Zenon
<1> HIDE DEF n
<1>3. half \in Nat
  BY <1>1
<1>4. fitted = room
  <2> DEFINE c == m.capacity
             a == m.size
  <2>1. c \in Nat /\ a \in Nat
    BY <1>1
  <2>2. CASE fits
    <3>1. fitted = Max2(c, 0) /\ room = c
      BY <2>2, Zenon
    <3> HIDE DEF c, fitted, room
    <3>2. Max2(c, 0) = c
      BY <2>1 DEF Max2
    <3> QED
      BY <3>1, <3>2, Zenon
  <2>3. CASE ~fits
    <3>1. fitted = Max2(c, Max2(a + n + 1, c + half)) /\ room = Room(m, a + n + 1)
      BY <2>3, Zenon
    <3>2. ~(a + n < c)
      BY <2>3, Zenon DEF FitsIn
    <3> HIDE DEF fitted, room, half
    <3>3. Room(m, a + n + 1) = IF a + n + 1 <= c THEN c ELSE Max2(a + n + 1, c + half)
      BY Zenon DEF Room, half
    <3> HIDE DEF a, c
    <3>4. ~(a + n + 1 <= c)
      BY <1>2, <2>1, <3>2
    <3>5. Max2(c, Max2(a + n + 1, c + half)) = Max2(a + n + 1, c + half)
      BY <1>2, <1>3, <2>1 DEF Max2
    <3> QED
      BY <3>1, <3>3, <3>4, <3>5, Zenon
  <2> QED
    BY <2>2, <2>3, Zenon
<1>5. LosesNumber(m, st) <=>
        /\ st.op = "double" /\ ~NotFinite(st.str) /\ st.spec.align = "center"
        /\ SignOf(st.num < 0, st.spec) = <<>>
        /\ st.spec.width > n
        /\ m.size + st.spec.width > fitted
  BY Zenon DEF LosesNumber, n
<1>6. LosesCentred(m, SignOf(st.num < 0, st.spec), st.str, st.spec) <=>
        /\ st.spec.align = "center" /\ SignOf(st.num < 0, st.spec) = <<>> /\ st.spec.width > n
        /\ m.size + st.spec.width > room
  BY Zenon DEF LosesCentred, n
<1> HIDE DEF fitted, room
<1> QED
  BY <1>4, <1>5, <1>6, Zenon

\* What write_double() does and what is wanted of it, kind by kind.
LEMMA WriteDoubleParts ==
  ASSUME NEW m, NEW st, st.op = "double"
  PROVE  LET spec == st.spec
             sign == SignOf(st.num < 0, spec)
             held == WriteStrAt(m, Blanks(Len(sign)) \o st.str, spec)
             w == Write(m, st)
             want == Wanted(st)
         IN  /\ spec.type \notin DoubleTypes => w = Throw(m, "unknown format code for double")
             /\ spec.type \in DoubleTypes /\ NotFinite(st.str) => w = Put(held.m, held.p, sign)
             /\ spec.type \in DoubleTypes /\ ~NotFinite(st.str) => w = WriteNumber(m, sign, st.str, spec)
             /\ NotFinite(st.str) =>
                  want = Laid(TextAlign(spec.align), spec.fill, spec.width, <<>>, sign \o st.str)
             /\ ~NotFinite(st.str) => want = NumberText(sign, st.str, spec)
             /\ ~WritesFreed(m, st)
<1>1. "double" # "text" /\ "double" # "one" /\ "double" # "str" /\ "double" # "char" /\ "double" # "int"
  OBVIOUS
<1>2. Write(m, st) = WriteDouble(m, st.num < 0, st.str, st.spec)
  BY <1>1, Zenon DEF Write
<1>3. ~WritesFreed(m, st)
  BY <1>1, Zenon DEF WritesFreed
<1>4. Wanted(st) =
        IF NotFinite(st.str)
        THEN Laid(TextAlign(st.spec.align), st.spec.fill, st.spec.width, <<>>,
                  SignOf(st.num < 0, st.spec) \o st.str)
        ELSE NumberText(SignOf(st.num < 0, st.spec), st.str, st.spec)
  BY <1>1, Zenon DEF Wanted, NumberText
<1> QED
  BY <1>2, <1>3, <1>4, Zenon DEF WriteDouble, Blanks

\* Floating-point numbers.
LEMMA DoubleWritten ==
  ASSUME NEW m, Fits(m), NEW st, IsStatement(st), st.op = "double"
  PROVE  Written(m, Wanted(st), WritesFreed(m, st), LosesNumber(m, st), Write(m, st))
<1> DEFINE spec == st.spec
           text == st.str
           sign == SignOf(st.num < 0, spec)
           want == Wanted(st)
           freed == WritesFreed(m, st)
           loses == LosesNumber(m, st)
           lost == LosesCentred(m, sign, text, spec)
           w == Write(m, st)
           held == WriteStrAt(m, Blanks(Len(sign)) \o text, spec)
           number == WriteNumber(m, sign, text, spec)
           laid == Laid(TextAlign(spec.align), spec.fill, spec.width, <<>>, sign \o text)
           what == "unknown format code for double"
<1>1. /\ spec.type \notin DoubleTypes => w = Throw(m, what)
      /\ spec.type \in DoubleTypes /\ NotFinite(text) => w = Put(held.m, held.p, sign)
      /\ spec.type \in DoubleTypes /\ ~NotFinite(text) => w = number
      /\ NotFinite(text) => want = laid
      /\ ~NotFinite(text) => want = NumberText(sign, text, spec)
      /\ ~freed
  BY WriteDoubleParts, Zenon
<1>2. Says(what)
  <2>1. what # ""
    OBVIOUS
  <2> HIDE DEF what
  <2> QED
    BY <2>1, Zenon DEF Says
<1>3. text \in Seq(Char) /\ Solid(text) /\ text[1] # JUNK /\ spec.align \in Aligns
      /\ spec.width \in Nat /\ spec.fill \in Char /\ IsSign(sign)
  BY SignIsSign, Zenon DEF IsStatement, IsSpec
<1>4. loses <=> ~NotFinite(text) /\ lost
  BY <1>3, LosesCentredNumber, Zenon
<1> HIDE DEF want, freed, loses, w, sign, text, spec, lost, what, held, number, laid
<1>5. sign \o text \in Seq(Char) /\ Appended(m, laid, Put(held.m, held.p, sign))
  BY <1>3, NotFiniteAppended, Zenon DEF held, laid
<1>6. laid \in Seq(Char)
  BY <1>3, <1>5, TextLaidSeq, Zenon DEF laid
<1>7. /\ NumberText(sign, text, spec) \in Seq(Char)
      /\ NumberWritten(m, text, NumberText(sign, text, spec), lost, number)
  BY <1>3, WriteNumberWritten, Zenon DEF number, lost
<1>8. want \in Seq(Char)
  BY <1>1, <1>6, <1>7, Zenon
<1>9. Written(m, want, freed, loses, w)
  <2>1. CASE spec.type \notin DoubleTypes
    <3>1. Written(m, want, freed, loses, Throw(m, what))
      BY <1>2, <1>8, ThrownWritten, Zenon
    <3> QED
      BY <1>1, <2>1, <3>1, Zenon
  <2>2. CASE spec.type \in DoubleTypes /\ NotFinite(text)
    <3>1. Appended(m, want, w) /\ ~freed /\ ~loses
      BY <1>1, <1>4, <1>5, <2>2, Zenon
    <3> QED
      BY <1>8, <3>1, AppendedWritten, Zenon
  <2>3. CASE spec.type \in DoubleTypes /\ ~NotFinite(text)
    <3>1. NumberWritten(m, text, want, lost, w) /\ ~freed /\ (loses <=> lost)
      BY <1>1, <1>4, <1>7, <2>3, Zenon
    <3>2. CASE ~lost
      <4>1. Appended(m, want, w)
        BY <3>1, <3>2, Zenon DEF NumberWritten
      <4> QED
        BY <1>8, <3>1, <3>2, <4>1, AppendedWritten, Zenon
    <3>3. CASE lost
      <4>1. From(m, w) /\ w.faults = m.faults /\ (Runs(w) => w.size = m.size + Len(want))
        BY <3>1, Zenon DEF NumberWritten
      <4>2. ASSUME Runs(w)
            PROVE  ~Holds(w, m.size, want)
        <5>1. PICK i \in 1..Len(want) : want[i] = text[1] /\ w.cells[m.size + i - 1] = JUNK
          BY <3>1, <3>3, <4>2, Zenon DEF NumberWritten
        <5>2. ~(w.cells[m.size + i - 1] = want[i])
          BY <1>3, <5>1, Zenon
        <5> QED
          BY <5>2, Zenon DEF Holds
      <4> QED
        BY <1>8, <3>1, <3>3, <4>1, <4>2, Zenon DEF Written
    <3> QED
      BY <3>2, <3>3, Zenon
  <2> QED
    BY <2>1, <2>2, <2>3, Zenon
<1> QED
  BY <1>9, Zenon DEF want, freed, loses, w

\* Every statement, on any buffer: it appends the text that FieldLayout asks for and
\* leaves alone the text before it, or it is of a kind that is known to go wrong.
THEOREM StatementWritten ==
  ASSUME NEW m, Fits(m), NEW st, IsStatement(st)
  PROVE  Written(m, Wanted(st), WritesFreed(m, st), LosesNumber(m, st), Write(m, st))
<1>1. CASE st.op = "int"
  BY <1>1, IntWritten, Zenon
<1>2. CASE st.op = "double"
  BY <1>2, DoubleWritten, Zenon
<1>3. CASE st.op \in {"text", "one", "str", "char"}
  <2> DEFINE want == Wanted(st)
             freed == WritesFreed(m, st)
             loses == LosesNumber(m, st)
             w == Write(m, st)
  <2>1. st.op # "int" /\ st.op # "double"
    <3>1. /\ "text" # "int" /\ "one" # "int" /\ "str" # "int" /\ "char" # "int"
          /\ "text" # "double" /\ "one" # "double" /\ "str" # "double" /\ "char" # "double"
      OBVIOUS
    <3> QED
      BY <1>3, <3>1, Zenon
  <2>2. ~freed /\ ~loses
    BY <2>1, Zenon DEF WritesFreed, LosesNumber
  <2>3. /\ want \in Seq(Char) /\ (Runs(w) => Appended(m, want, w))
        /\ ~Runs(w) => Written(m, want, FALSE, FALSE, w)
    BY <1>3, StrWritten, Zenon
  <2> HIDE DEF want, freed, loses, w
  <2>6. Written(m, want, freed, loses, w)
    <3>1. CASE Runs(w)
      BY <2>2, <2>3, <3>1, AppendedWritten, Zenon
    <3>2. CASE ~Runs(w)
      <4>1. Written(m, want, FALSE, FALSE, w)
        BY <2>3, <3>2, Zenon
      <4> QED
        BY <2>2, <3>2, <4>1, Zenon DEF Written
    <3> QED
      BY <3>1, <3>2, Zenon
  <2> QED
    BY <2>6, Zenon DEF want, freed, loses, w
<1> QED
  <2>1. st.op \in {"text", "one", "str", "char", "int", "double"}
    BY Zenon DEF IsStatement
  <2> QED
    BY <1>1, <1>2, <1>3, <2>1, Zenon

-----------------------------------------------------------------------------
(* The buffer of a writer between two calls                                *)

\* Behind the content of a buffer nothing is relied on.
IsBuffer(b) ==
  /\ b.size \in Nat /\ b.capacity \in Nat /\ b.size <= b.capacity
  /\ INLINE_BUFFER_SIZE <= b.capacity /\ b.cells \in [0..(b.capacity - 1) -> Char]
  /\ b.ptr = data_ => b.capacity = INLINE_BUFFER_SIZE
  /\ Blank(b)

\* The content is a text: the cells before the size.
LEMMA ContentCells ==
  ASSUME NEW b, NEW size \in Nat, NEW capacity \in Nat, b.size = size, size <= capacity,
         b.cells \in [0..(capacity - 1) -> Char]
  PROVE  /\ Content(b) \in Seq(Char) /\ Len(Content(b)) = size
         /\ \A i \in 1..size : Content(b)[i] = b.cells[i - 1]
<1> DEFINE cells == b.cells
           c == [i \in 1..size |-> cells[i - 1]]
<1>1. ASSUME NEW i \in 1..size
      PROVE  i - 1 \in 0..(capacity - 1) /\ cells[i - 1] \in Char /\ Cell(b, i - 1) = cells[i - 1]
  <2>1. i - 1 \in 0..(capacity - 1)
    OBVIOUS
  <2>2. DOMAIN cells = 0..(capacity - 1) /\ cells[i - 1] \in Char
    BY <2>1
  <2>3. Cell(b, i - 1) = cells[i - 1]
    BY <2>1, <2>2, Zenon DEF Cell
  <2> QED
    BY <2>1, <2>2, <2>3, Zenon
<1>2. Content(b) = c
  <2>1. Content(b) = [i \in 1..size |-> Cell(b, i - 1)]
    BY Zenon DEF Content
  <2> HIDE DEF cells
  <2> QED
    BY <1>1, <2>1, Zenon
<1> HIDE DEF cells
<1>3. c \in Seq(Char) /\ Len(c) = size /\ \A i \in 1..size : c[i] = cells[i - 1]
  BY <1>1
<1> HIDE DEF c
<1> QED
  BY <1>2, <1>3, Zenon DEF cells

\* The content of a buffer is the cells before its size.
LEMMA BufferContent ==
  ASSUME NEW b, IsBuffer(b)
  PROVE  /\ Content(b) \in Seq(Char) /\ Len(Content(b)) = b.size
         /\ \A i \in 1..b.size : Content(b)[i] = b.cells[i - 1]
<1> DEFINE size == b.size
           capacity == b.capacity
<1>1. size \in Nat /\ capacity \in Nat /\ size <= capacity /\ b.cells \in [0..(capacity - 1) -> Char]
  BY Zenon DEF IsBuffer
<1> HIDE DEF size, capacity
<1>2. b.size = size
  BY DEF size
<1>3. /\ Content(b) \in Seq(Char) /\ Len(Content(b)) = size
      /\ \A i \in 1..size : Content(b)[i] = b.cells[i - 1]
  BY <1>1, <1>2, ContentCells, Zenon
<1> QED
  BY <1>3, Zenon DEF size

\* A new buffer is empty.
LEMMA NewIsBuffer ==
  /\ IsBuffer(NewBuffer) /\ NewBuffer.size = 0 /\ NewBuffer.capacity = INLINE_BUFFER_SIZE
  /\ Content(NewBuffer) = <<>>
<1> DEFINE b == NewBuffer
           n == INLINE_BUFFER_SIZE
           cells == [i \in 0..(n - 1) |-> JUNK]
<1>1. n \in Nat
  BY SizeAssumption
<1>2. b.size = 0 /\ b.capacity = n /\ b.cells = cells /\ b.ptr = data_
  BY Zenon DEF NewBuffer, Storage
<1> HIDE DEF b
<1>3. cells \in [0..(n - 1) -> Char] /\ \A i \in 0..(n - 1) : cells[i] = JUNK
  BY JunkIsChar
<1> HIDE DEF cells
<1>4. Blank(b)
  BY <1>2, <1>3, Zenon DEF Blank
<1>5. 0 <= n /\ n <= n
  BY <1>1
<1>6. IsBuffer(b)
  <2> HIDE DEF n
  <2>1. b.size \in Nat
    BY <1>2
  <2> QED
    BY <1>1, <1>2, <1>3, <1>4, <1>5, <2>1, Zenon DEF IsBuffer, n
<1>7. Len(Content(b)) = 0 /\ Content(b) \in Seq(Char)
  BY <1>2, <1>6, BufferContent, Zenon
<1>8. Content(b) = <<>>
  BY <1>7
<1> QED
  BY <1>2, <1>6, <1>8, Zenon DEF b, n

\* What a call begins with.
Entered(b, h, e) ==
  /\ Fits(e) /\ Runs(e) /\ Blank(e)
  /\ e.size = b.size /\ e.capacity = b.capacity /\ e.cells = b.cells
  /\ e.faults = {} /\ e.gen = 0 /\ e.ptr = b.ptr /\ e.heap = h /\ e.avail = Blocks

\* A call begins with what the last one has left.
LEMMA EnterFits ==
  ASSUME NEW b, IsBuffer(b), NEW h
  PROVE  Entered(b, h, Enter(b, h))
<1> DEFINE e == Enter(b, h)
<1>1. DOMAIN e = Fields
  BY DEF Enter, Fields
<1>2. /\ e.size = b.size /\ e.capacity = b.capacity /\ e.cells = b.cells
      /\ e.faults = {} /\ e.gen = 0 /\ e.ptr = b.ptr /\ e.heap = h /\ e.avail = Blocks
  BY Zenon DEF Enter
<1>4. Runs(e)
  BY Zenon DEF Enter, Runs
<1> HIDE DEF e
<1>3. e.gen \in Nat /\ e.avail \subseteq Blocks
  BY <1>2
<1>5. Blank(e)
  BY <1>2, Zenon DEF Blank, IsBuffer
<1>6. Fits(e)
  BY <1>1, <1>2, <1>3, Zenon DEF Fits, IsBuffer
<1> QED
  BY <1>2, <1>4, <1>5, <1>6, Zenon DEF e, Entered

\* What a call leaves is a buffer with the call's content.
LEMMA LeaveIsBuffer ==
  ASSUME NEW m, Fits(m)
  PROVE  LET b == Leave(m)
         IN  /\ IsBuffer(b) /\ b.size = m.size /\ b.capacity = m.capacity
             /\ Content(b) \in Seq(Char) /\ Len(Content(b)) = m.size
             /\ \A i \in 1..m.size : Content(b)[i] = m.cells[i - 1]
<1> DEFINE b == Leave(m)
           size == m.size
           capacity == m.capacity
           cells == m.cells
           left == [i \in DOMAIN m.cells |-> IF i < m.size THEN Cell(m, i) ELSE JUNK]
<1>1. size \in Nat /\ capacity \in Nat /\ size <= capacity /\ INLINE_BUFFER_SIZE <= capacity
      /\ cells \in [0..(capacity - 1) -> Char] /\ (m.ptr = data_ => capacity = INLINE_BUFFER_SIZE)
  BY Zenon DEF Fits
<1>2. b.size = size /\ b.capacity = capacity /\ b.ptr = m.ptr /\ b.cells = left
  BY Zenon DEF Leave
<1>3. \A i \in 0..(capacity - 1) : Cell(m, i) = cells[i] /\ cells[i] \in Char
  <2> HIDE DEF capacity
  <2>1. DOMAIN cells = 0..(capacity - 1)
    BY <1>1
  <2>2. \A i \in 0..(capacity - 1) : cells[i] \in Char
    BY <1>1
  <2> QED
    BY <2>1, <2>2, Zenon DEF Cell
<1>4. left = [i \in 0..(capacity - 1) |-> IF i < size THEN Cell(m, i) ELSE JUNK]
  <2> HIDE DEF capacity
  <2>1. DOMAIN cells = 0..(capacity - 1)
    BY <1>1
  <2> QED
    BY <2>1, Zenon
<1> HIDE DEF b, size, capacity, cells, left
<1>5. /\ left \in [0..(capacity - 1) -> Char]
      /\ \A i \in 0..(capacity - 1) : left[i] = IF i < size THEN cells[i] ELSE JUNK
  <2>1. \A i \in 0..(capacity - 1) : (IF i < size THEN Cell(m, i) ELSE JUNK) \in Char
    BY <1>3, JunkIsChar, Zenon
  <2> QED
    BY <1>3, <1>4, <2>1
<1>6. Blank(b)
  <2>1. \A i \in size..(capacity - 1) : left[i] = JUNK
    BY <1>1, <1>5
  <2> QED
    BY <1>2, <2>1, Zenon DEF Blank
<1>7. IsBuffer(b)
  BY <1>1, <1>2, <1>5, <1>6, Zenon DEF IsBuffer
<1>8. /\ Content(b) \in Seq(Char) /\ Len(Content(b)) = size
      /\ \A i \in 1..size : Content(b)[i] = left[i - 1]
  BY <1>2, <1>7, BufferContent, Zenon
<1>9. \A i \in 1..size : left[i - 1] = cells[i - 1]
  <2>1. ASSUME NEW i \in 1..size
        PROVE  i - 1 \in 0..(capacity - 1) /\ i - 1 < size
    BY <1>1
  <2> QED
    BY <1>5, <2>1, Zenon
<1> QED
  BY <1>2, <1>7, <1>8, <1>9, Zenon DEF b, size, capacity, cells

\* A buffer, the text it should hold, and whether it is known not to hold it.
Good(b, t, lost) ==
  /\ IsBuffer(b) /\ t \in Seq(Char) /\ Len(t) = b.size
  /\ (Content(b) = t) <=> ~lost

\* The text d is the text c and n characters more.
Longer(size, n, c, d) ==
  Len(c) = size /\ Len(d) = size + n /\ \A i \in 1..size : d[i] = c[i]

\* It is t and w if c is t and what follows is w.
LongerIs(size, n, c, d, t, w) ==
  /\ t \o w \in Seq(Char) /\ Len(t \o w) = size + n
  /\ d = t \o w <=> c = t /\ \A i \in 1..n : d[size + i] = w[i]

\* A longer text is the one that is wanted if its beginning is and what follows it is.
LEMMA LongerText ==
  ASSUME NEW size \in Nat, NEW n \in Nat, NEW c \in Seq(Char), NEW t \in Seq(Char), NEW w \in Seq(Char),
         NEW d \in Seq(Char), SameLength(c, t), Len(w) = n, Longer(size, n, c, d)
  PROVE  LongerIs(size, n, c, d, t, w)
<1> DEFINE u == t \o w
<1>0. Len(c) = size /\ Len(t) = size /\ Len(d) = size + n /\ \A i \in 1..size : d[i] = c[i]
  BY Zenon DEF Longer, SameLength
<1>1. /\ u \in Seq(Char) /\ Len(u) = size + n
      /\ \A i \in 1..(size + n) : u[i] = IF i <= size THEN t[i] ELSE w[i - size]
  <2>1. /\ u \in Seq(Char) /\ Len(u) = Len(t) + Len(w)
        /\ \A i \in 1..(Len(t) + Len(w)) : u[i] = IF i <= Len(t) THEN t[i] ELSE w[i - Len(t)]
    BY Joined, Zenon
  <2> HIDE DEF u
  <2> QED
    BY <1>0, <2>1, Zenon
<1> HIDE DEF u
<1>2. \A i \in 1..size : u[i] = t[i]
  <2>1. \A i \in 1..size : i \in 1..(size + n) /\ i <= size
    OBVIOUS
  <2> QED
    BY <1>1, <2>1, Zenon
<1>3. \A i \in 1..n : u[size + i] = w[i]
  <2>1. \A i \in 1..n : size + i \in 1..(size + n) /\ ~(size + i <= size) /\ (size + i) - size = i
    OBVIOUS
  <2> QED
    BY <1>1, <2>1, Zenon
<1>4. ASSUME d = u
      PROVE  c = t /\ \A i \in 1..n : d[size + i] = w[i]
  <2>1. \A i \in 1..Len(c) : c[i] = t[i]
    BY <1>0, <1>2, <1>4, Zenon
  <2>2. c = t
    BY <1>0, <2>1, SeqEqual, Zenon
  <2> QED
    BY <1>3, <1>4, <2>2, Zenon
<1>5. ASSUME c = t, \A i \in 1..n : d[size + i] = w[i]
      PROVE  d = u
  <2>1. ASSUME NEW i \in 1..(size + n)
        PROVE  d[i] = u[i]
    <3>1. CASE i <= size
      <4>1. i \in 1..size
        BY <3>1
      <4> QED
        BY <1>0, <1>2, <1>5, <4>1, Zenon
    <3>2. CASE ~(i <= size)
      <4>1. i - size \in 1..n /\ size + (i - size) = i
        BY <3>2
      <4> QED
        BY <1>3, <1>5, <4>1, Zenon
    <3> QED
      BY <3>1, <3>2, Zenon
  <2>2. \A i \in 1..Len(d) : d[i] = u[i]
    BY <1>0, <2>1, Zenon
  <2>3. Len(d) = Len(u)
    BY <1>0, <1>1, Zenon
  <2> QED
    BY <1>1, <2>2, <2>3, SeqEqual, Zenon
<1> QED
  BY <1>1, <1>4, <1>5, Zenon DEF u, LongerIs

\* A call leaves the content that was there before it.
LEMMA FromContent ==
  ASSUME NEW b, IsBuffer(b), NEW h, NEW r, From(Enter(b, h), r)
  PROVE  /\ Fits(r) /\ b.size \in Nat /\ r.size \in Nat /\ b.size <= r.size
         /\ \A i \in 1..b.size : Content(Leave(r))[i] = Content(b)[i]
<1> DEFINE e == Enter(b, h)
           size == b.size
<1>1. e.size = size /\ e.cells = b.cells
  <2>1. Entered(b, h, e)
    BY EnterFits, Zenon
  <2> HIDE DEF e
  <2> QED
    BY <2>1, Zenon DEF Entered
<1>2. Fits(r) /\ e.size <= r.size /\ \A i \in 0..(e.size - 1) : r.cells[i] = e.cells[i]
  BY Zenon DEF From
<1> HIDE DEF e
<1>3. size \in Nat
  BY Zenon DEF IsBuffer
<1>4. r.size \in Nat
  BY <1>2, Zenon DEF Fits
<1>5. size <= r.size /\ \A i \in 0..(size - 1) : r.cells[i] = b.cells[i]
  BY <1>1, <1>2, Zenon
<1>6. \A i \in 1..r.size : Content(Leave(r))[i] = r.cells[i - 1]
  BY <1>2, LeaveIsBuffer, Zenon
<1>7. \A i \in 1..size : Content(b)[i] = b.cells[i - 1]
  BY BufferContent, Zenon
<1> HIDE DEF size
<1>8. ASSUME NEW i \in 1..size
      PROVE  i \in 1..r.size /\ i - 1 \in 0..(size - 1)
  BY <1>3, <1>4, <1>5
<1>9. \A i \in 1..size : Content(Leave(r))[i] = Content(b)[i]
  BY <1>5, <1>6, <1>7, <1>8, Zenon
<1> QED
  BY <1>2, <1>3, <1>4, <1>5, <1>9, Zenon DEF size

\* So its beginning is that content.
LEMMA FromPrefix ==
  ASSUME NEW b, IsBuffer(b), NEW h, NEW r, From(Enter(b, h), r)
  PROVE  /\ b.size <= Leave(r).size
         /\ SubSeq(Content(Leave(r)), 1, b.size) = Content(b)
<1> DEFINE c == Content(b)
           d == Content(Leave(r))
           size == b.size
           sub == SubSeq(d, 1, size)
<1>1. /\ Fits(r) /\ size \in Nat /\ r.size \in Nat /\ size <= r.size
      /\ \A i \in 1..size : d[i] = c[i]
  BY FromContent, Zenon
<1>2. d \in Seq(Char) /\ Len(d) = r.size /\ Leave(r).size = r.size
  BY <1>1, LeaveIsBuffer, Zenon
<1>3. c \in Seq(Char) /\ Len(c) = size
  BY BufferContent, Zenon
<1> HIDE DEF c, d, size
<1>4. sub \in Seq(Char) /\ Len(sub) = size /\ \A i \in 1..size : sub[i] = d[i]
  <2> DEFINE n == r.size
  <2>1. n \in Nat /\ size \in Nat /\ size <= n /\ Len(d) = n
    BY <1>1, <1>2
  <2> HIDE DEF n
  <2> QED
    BY <1>2, <2>1
<1> HIDE DEF sub
<1>5. \A i \in 1..Len(sub) : sub[i] = c[i]
  BY <1>1, <1>4, Zenon
<1>6. Len(sub) = Len(c)
  BY <1>3, <1>4, Zenon
<1>7. sub = c
  BY <1>3, <1>4, <1>5, <1>6, SeqEqual, Zenon
<1> QED
  BY <1>1, <1>2, <1>7, Zenon DEF c, d, size, sub

\* A statement makes the text longer by what is wanted of it, or it is known to go wrong.
LEMMA WrittenGood ==
  ASSUME NEW b, NEW t, NEW lost, Good(b, t, lost), NEW h, NEW want, NEW freed, NEW loses, NEW r,
         Written(Enter(b, h), want, freed, loses, r), Runs(r), NEW gone, gone <=> lost \/ loses \/ freed
  PROVE  Good(Leave(r), t \o want, gone)
<1> DEFINE e == Enter(b, h)
           c == Content(b)
           d == Content(Leave(r))
           size == b.size
           n == Len(want)
<1>1. IsBuffer(b) /\ t \in Seq(Char) /\ Len(t) = size /\ (c = t <=> ~lost)
  BY Zenon DEF Good
<1>2. e.size = size /\ Blank(e)
  <2>1. Entered(b, h, e)
    BY <1>1, EnterFits, Zenon
  <2> HIDE DEF e
  <2> QED
    BY <2>1, Zenon DEF Entered
<1>3. /\ want \in Seq(Char) /\ From(e, r) /\ r.size = size + n
      /\ ~freed /\ ~loses => Holds(r, size, want)
      /\ freed \/ loses => ~Holds(r, size, want)
  BY <1>2, Zenon DEF Written
<1>4. /\ Fits(r) /\ size \in Nat /\ \A i \in 1..size : d[i] = c[i]
  BY <1>1, <1>3, FromContent, Zenon
<1>5. c \in Seq(Char) /\ Len(c) = size
  BY <1>1, BufferContent, Zenon
<1>6. /\ IsBuffer(Leave(r)) /\ Leave(r).size = size + n /\ d \in Seq(Char) /\ Len(d) = size + n
      /\ \A i \in 1..(size + n) : d[i] = r.cells[i - 1]
  BY <1>3, <1>4, LeaveIsBuffer, Zenon
<1>7. n \in Nat
  BY <1>3, LenProperties, Zenon
<1> HIDE DEF e, c, d, size, n
<1>8. /\ t \o want \in Seq(Char) /\ Len(t \o want) = size + n
      /\ d = t \o want <=> c = t /\ \A i \in 1..n : d[size + i] = want[i]
  <2>1. SameLength(c, t) /\ Longer(size, n, c, d) /\ Len(want) = n
    BY <1>1, <1>4, <1>5, <1>6, Zenon DEF SameLength, Longer, n
  <2>2. LongerIs(size, n, c, d, t, want)
    BY <1>1, <1>3, <1>4, <1>5, <1>6, <1>7, <2>1, LongerText, Zenon
  <2> QED
    BY <2>2, Zenon DEF LongerIs
<1>9. Holds(r, size, want) <=> \A i \in 1..n : d[size + i] = want[i]
  <2>1. ASSUME NEW i \in 1..n
        PROVE  size + i \in 1..(size + n) /\ size + i - 1 = (size + i) - 1
    BY <1>4, <1>7
  <2>2. \A i \in 1..n : d[size + i] = r.cells[size + i - 1]
    BY <1>6, <2>1, Zenon
  <2> QED
    BY <2>2, Zenon DEF Holds, n
<1>10. (d = t \o want) <=> ~gone
  BY <1>1, <1>3, <1>8, <1>9, Zenon
<1> QED
  BY <1>6, <1>8, <1>10, Zenon DEF Good, d

\* After an exception the text is taken to be what the buffer holds.
LEMMA ThrownGood ==
  ASSUME NEW r, Fits(r)
  PROVE  Good(Leave(r), Content(Leave(r)), FALSE)
<1>1. /\ IsBuffer(Leave(r)) /\ Leave(r).size = r.size
      /\ Content(Leave(r)) \in Seq(Char) /\ Len(Content(Leave(r))) = r.size
  BY LeaveIsBuffer, Zenon
<1> QED
  BY <1>1, Zenon DEF Good

\* A call that appends nothing keeps the text.
LEMMA SameGood ==
  ASSUME NEW b, NEW t, NEW lost, Good(b, t, lost), NEW h, NEW r, From(Enter(b, h), r), r.size = b.size
  PROVE  Good(Leave(r), t, lost)
<1> DEFINE c == Content(b)
           d == Content(Leave(r))
<1>1. IsBuffer(b) /\ t \in Seq(Char) /\ Len(t) = b.size /\ (c = t <=> ~lost)
  BY Zenon DEF Good
<1>2. /\ Fits(r) /\ \A i \in 1..b.size : d[i] = c[i]
  BY <1>1, FromContent, Zenon
<1>3. c \in Seq(Char) /\ Len(c) = b.size
  BY <1>1, BufferContent, Zenon
<1>4. IsBuffer(Leave(r)) /\ Leave(r).size = b.size /\ d \in Seq(Char) /\ Len(d) = b.size
  BY <1>2, LeaveIsBuffer, Zenon
<1> HIDE DEF c, d
<1>5. d = c
  <2>1. \A i \in 1..Len(d) : d[i] = c[i]
    BY <1>2, <1>4, Zenon
  <2>2. Len(d) = Len(c)
    BY <1>3, <1>4, Zenon
  <2> QED
    BY <1>3, <1>4, <2>1, <2>2, SeqEqual, Zenon
<1> QED
  BY <1>1, <1>4, <1>5, Zenon DEF Good, d

-----------------------------------------------------------------------------
(* Calls that have the room they need                                      *)

\* Storing characters throws nothing.
LEMMA PutRuns ==
  ASSUME NEW m, Fits(m), NEW p, NEW s
  PROVE  Runs(Put(m, p, s)) <=> Runs(m)
<1> DEFINE w == Put(m, p, s)
<1>1. ASSUME NEW c, NEW f
      PROVE  [m EXCEPT !.cells = c, !.faults = f].error = m.error
  BY DEF Fits, Fields
<1>2. w = m \/ \E c, f : w = [m EXCEPT !.cells = c, !.faults = f]
  BY Zenon DEF Put
<1> HIDE DEF w
<1>3. w.error = m.error
  BY <1>1, <1>2, Zenon
<1> QED
  BY <1>3, Zenon DEF Runs, w

\* The sum of two lengths.
LEMMA SizeIsNat ==
  ASSUME NEW m, Fits(m)
  PROVE  m.size \in Nat /\ m.capacity \in Nat
BY Zenon DEF Fits

\* Characters that fit behind the content.
LEMMA AppendRuns ==
  ASSUME NEW m, Fits(m), Runs(m), NEW s \in Seq(Char), m.size + Len(s) <= m.capacity
  PROVE  Runs(AppendChars(m, s))
<1> DEFINE k == m.size + Len(s)
           r == Reserve(m, k)
           w == Put(r, Pointer(r, r.size), s)
           a == [w EXCEPT !.size = w.size + Len(s)]
<1>1. AppendChars(m, s) = IF w.error = "" THEN a ELSE w
  BY AppendCharsSize, Zenon
<1>2. k \in Nat
  <2>1. Len(s) \in Nat /\ m.size \in Nat
    BY LenProperties, SizeIsNat, Zenon
  <2> QED
    BY <2>1
<1> HIDE DEF k
<1>3. r = m
  BY <1>2, ReserveCells, Zenon DEF k
<1>4. Runs(w)
  <2>1. Runs(Put(m, Pointer(m, m.size), s))
    BY PutRuns, Zenon
  <2> QED
    BY <1>3, <2>1, Zenon
<1>5. DOMAIN w = Fields
  <2>1. Fits(Put(m, Pointer(m, m.size), s))
    <3> DEFINE p == Pointer(m, m.size)
    <3>1. p.off = m.size
      BY PointerFields, Zenon
    <3> HIDE DEF p
    <3>2. p.off \in Int
      <4>1. m.size \in Nat
        BY SizeIsNat, Zenon
      <4> QED
        BY <3>1, <4>1
    <3>3. Fits(Put(m, p, s))
      BY <3>2, PutCells, Zenon
    <3> QED
      BY <3>3, Zenon DEF p
  <2> QED
    BY <1>3, <2>1, Zenon DEF Fits
<1> HIDE DEF w, r
<1>6. a.error = w.error
  BY <1>5 DEF Fields
<1> HIDE DEF a
<1> QED
  BY <1>1, <1>4, <1>6, Zenon DEF Runs

\* An area that fits behind the content.
LEMMA GrowRuns ==
  ASSUME NEW m, Fits(m), Runs(m), NEW n \in Nat, m.size + n <= m.capacity
  PROVE  Runs(GrowBuffer(m, n))
<1> DEFINE k == m.size + n
           r == Reserve(m, k)
           a == [r EXCEPT !.size = k]
<1>1. GrowBuffer(m, n) = IF r.error = "" THEN a ELSE r
  BY Zenon DEF GrowBuffer, Resize
<1>2. k \in Nat
  BY SizeIsNat
<1> HIDE DEF k
<1>3. r = m
  BY <1>2, ReserveCells, Zenon DEF k
<1> HIDE DEF r
<1>4. a.error = r.error
  BY <1>3 DEF Fits, Fields
<1> HIDE DEF a
<1> QED
  BY <1>1, <1>3, <1>4, Zenon DEF Runs

-----------------------------------------------------------------------------
(* An integer as it is written without a specification                     *)

\* The specification of an integer that is appended with none.
LEMMA NoSpecFields ==
  /\ IsSpec(NoSpec) /\ NoSpec.width = 0 /\ NoSpec.fill = " " /\ NoSpec.fill \in Char
  /\ NoSpec.precision = -1 /\ NoSpec.align = "default" /\ NoSpec.align \in Aligns
  /\ NoSpec.flags = {} /\ NoSpec.type \in IntTypes /\ BaseOf(NoSpec.type) = 10
<1>1. DOMAIN NoSpec = {"align", "width", "fill", "flags", "precision", "type"}
  BY DEF NoSpec
<1>2. NoSpec.width = 0 /\ NoSpec.width \in Nat /\ NoSpec.precision = -1 /\ NoSpec.precision \in Int
  BY DEF NoSpec
<1>3. NoSpec.fill = " " /\ NoSpec.align = "default" /\ NoSpec.flags = {} /\ NoSpec.type = ""
  BY Zenon DEF NoSpec
<1>4. NoSpec.fill \in Char
  BY <1>3, MarksAreChars, Zenon
<1>5. NoSpec.type \in IntTypes
  BY <1>3, Zenon DEF IntTypes
<1>6. BaseOf(NoSpec.type) = 10
  <2>1. "" # "x" /\ "" # "X" /\ "" # "b" /\ "" # "B" /\ "" # "o"
    OBVIOUS
  <2> QED
    BY <1>3, <2>1, Zenon DEF BaseOf
<1>7. NoSpec.align \in Aligns
  BY <1>3, Zenon DEF Aligns
<1> QED
  BY <1>1, <1>2, <1>3, <1>4, <1>5, <1>6, <1>7, Zenon DEF IsSpec

\* Its prefix is the minus sign or nothing.
LEMMA PlainPrefix ==
  ASSUME NEW v
  PROVE  LET prefix == IntPrefix(v, NoSpec)
         IN  prefix \in Seq(Char) /\ Len(prefix) = IF v < 0 THEN 1 ELSE 0
<1> DEFINE sign == SignOf(v < 0, NoSpec)
           prefix == IntPrefix(v, NoSpec)
           mark == BaseMark(NoSpec)
<1>1. NoSpec.flags = {} /\ IsSpec(NoSpec)
  BY NoSpecFields, Zenon
<1>2. mark = <<>>
  <2>1. "HASH" \notin NoSpec.flags
    BY <1>1, Zenon
  <2> QED
    BY <2>1, Zenon DEF BaseMark
<1>3. prefix = sign \o mark
  BY Zenon DEF IntPrefix
<1>4. sign \in Seq(Char)
  BY SignLength, Zenon
<1>5. sign = IF v < 0 THEN <<"-">> ELSE <<>>
  <2>1. "SIGN" \notin NoSpec.flags /\ ~({"SIGN", "PLUS"} \subseteq NoSpec.flags)
    BY <1>1, Zenon
  <2>2. CASE v < 0
    BY <2>1, <2>2, Zenon DEF SignOf
  <2>3. CASE ~(v < 0)
    BY <2>1, <2>3, Zenon DEF SignOf
  <2> QED
    BY <2>2, <2>3, Zenon
<1> HIDE DEF sign, mark, prefix
<1>6. sign \o mark = sign
  BY <1>2, <1>4, JoinsNothing, Zenon
<1>7. Len(sign) = IF v < 0 THEN 1 ELSE 0
  <2> DEFINE c == "-"
  <2>1. c \in Char
    BY MarksAreChars, Zenon
  <2> HIDE DEF c
  <2>2. Len(<<c>>) = 1
    OBVIOUS
  <2>3. CASE v < 0
    <3>1. sign = <<c>>
      BY <1>5, <2>3, Zenon DEF c
    <3>2. Len(sign) = 1
      BY <2>2, <3>1, Zenon
    <3> QED
      BY <2>3, <3>2, Zenon
  <2>4. CASE ~(v < 0)
    <3>1. sign = <<>>
      BY <1>5, <2>4, Zenon
    <3>2. Len(sign) = 0
      BY <3>1, EmptyText, Zenon
    <3> QED
      BY <2>4, <3>2, Zenon
  <2> QED
    BY <2>3, <2>4, Zenon
<1> QED
  BY <1>3, <1>4, <1>6, <1>7, Zenon DEF prefix

\* Its length is that of the sign and of the digits, and it takes no more room.
PlainLength(v) == (IF v < 0 THEN 1 ELSE 0) + SizeOf(AbsOf(v), 10)

\* The text of such an integer: its digits and its sign, and how many they are.
LEMMA PlainText ==
  ASSUME NEW v \in Values
  PROVE  LET n == Len(Magnitude(v, NoSpec))
             prefix == IntPrefix(v, NoSpec)
         IN  /\ IntText(v, NoSpec) \in Seq(Char) /\ Len(IntText(v, NoSpec)) = PlainLength(v)
             /\ n \in Nat /\ (Len(prefix) + n) + FieldPadding(n, NoSpec, prefix) = PlainLength(v)
             /\ PlainLength(v) \in Nat /\ SizeOf(AbsOf(v), 10) \in 1..5
<1> DEFINE d == Magnitude(v, NoSpec)
           n == Len(d)
           prefix == IntPrefix(v, NoSpec)
           size == SizeOf(AbsOf(v), 10)
           signs == IF v < 0 THEN 1 ELSE 0
           head == IntHead(n, NoSpec, prefix)
           tail == IntTail(n, NoSpec, prefix)
           padding == FieldPadding(n, NoSpec, prefix)
           text == IntText(v, NoSpec)
<1>1. /\ IsSpec(NoSpec) /\ NoSpec.width = 0 /\ NoSpec.fill = " " /\ NoSpec.fill \in Char
      /\ NoSpec.precision = -1 /\ NoSpec.align = "default" /\ BaseOf(NoSpec.type) = 10
  BY NoSpecFields, Zenon
<1>2. prefix \in Seq(Char) /\ Len(prefix) = signs
  BY PlainPrefix, Zenon
<1>3. d \in Seq(Char) /\ n = size /\ size \in 1..5
  <2>1. d = Numeral(AbsOf(v), 10)
    BY <1>1, Zenon DEF Magnitude, AbsOf
  <2>2. AbsOf(v) \in Numbers
    BY AbsIsNumber, Zenon
  <2>3. IsBase(10, 5)
    BY Bases, Zenon
  <2> HIDE DEF d
  <2>4. Numeral(AbsOf(v), 10) \in Seq(Char) /\ Len(Numeral(AbsOf(v), 10)) = size /\ size \in 1..5
    BY <2>2, <2>3, NumeralSeq, Zenon
  <2> QED
    BY <2>1, <2>4, Zenon
<1>4. text \in Seq(Char)
  BY <1>1, IntTextSeq, Zenon
<1>5. text = (head \o d) \o tail
  BY Zenon DEF IntText
<1>6. signs \in Nat
  OBVIOUS
<1> HIDE DEF d, prefix, signs, text, size
<1>7. n \in Nat /\ size \in Nat
  BY <1>3
<1>8. padding = 0
  <2>1. padding = Max2(0, 0 - (Len(prefix) + n))
    BY <1>1, Zenon DEF FieldPadding
  <2>2. Max2(0, 0 - (signs + size)) = 0
    BY <1>6, <1>7 DEF Max2
  <2> HIDE DEF padding
  <2> QED
    BY <1>2, <1>3, <2>1, <2>2, Zenon
<1>9. NoSpec.precision <= n
  <2>1. -1 <= n
    BY <1>7, SMT
  <2> QED
    BY <1>1, <2>1, Zenon
<1>10. "default" # "left" /\ "default" # "center" /\ "default" # "numeric"
  OBVIOUS
<1>11. head = Rep(" ", 0) \o prefix
  <2>1. head = FieldHead(n, NoSpec, prefix)
    BY <1>9, Zenon DEF IntHead
  <2>2. FieldLeft(n, NoSpec, prefix) = padding
    BY <1>1, <1>10, Zenon DEF FieldLeft
  <2> HIDE DEF head, padding
  <2> QED
    BY <1>1, <1>8, <1>10, <2>1, <2>2, Zenon DEF FieldHead
<1>12. tail = Rep(" ", 0 - 0)
  <2>1. tail = FieldTail(n, NoSpec, prefix)
    BY <1>9, Zenon DEF IntTail
  <2>2. FieldLeft(n, NoSpec, prefix) = padding
    BY <1>1, <1>10, Zenon DEF FieldLeft
  <2> HIDE DEF tail
  <2>3. FieldTail(n, NoSpec, prefix) = Rep(NoSpec.fill, padding - FieldLeft(n, NoSpec, prefix))
    BY Zenon DEF FieldTail
  <2> HIDE DEF padding
  <2> QED
    BY <1>1, <1>8, <2>1, <2>2, <2>3, Zenon
<1> HIDE DEF head, tail, padding
<1>13. Rep(" ", 0) = <<>>
  BY <1>1, RunOfNone, Zenon
<1>14. head = prefix
  BY <1>2, <1>11, <1>13, JoinsNothing, Zenon
<1>15. tail = <<>>
  <2>1. 0 - 0 = 0
    OBVIOUS
  <2> QED
    BY <1>12, <1>13, <2>1, Zenon
<1>16. prefix \o d \in Seq(Char) /\ Len(prefix \o d) = Len(prefix) + Len(d)
  BY <1>2, <1>3, Joined, Zenon
<1>17. text = prefix \o d
  <2>1. (prefix \o d) \o <<>> = prefix \o d
    BY <1>16, JoinsNothing, Zenon
  <2> QED
    BY <1>5, <1>14, <1>15, <2>1, Zenon
<1>18. PlainLength(v) = signs + size
  BY Zenon DEF PlainLength, signs, size
<1>19. signs + size \in Nat /\ (signs + size) + 0 = signs + size
  BY <1>6, <1>7
<1>20. Len(text) = signs + size
  BY <1>2, <1>3, <1>16, <1>17, Zenon
<1>21. (Len(prefix) + n) + padding = signs + size
  BY <1>2, <1>3, <1>8, <1>19, Zenon
<1> QED
  BY <1>3, <1>4, <1>7, <1>18, <1>19, <1>20, <1>21, Zenon DEF text, d, prefix, padding, size

\* An integer without a specification is appended, with no exception if there is room.
LEMMA PlainAppended ==
  ASSUME NEW m, Fits(m), NEW v \in Values
  PROVE  /\ Appended(m, IntText(v, NoSpec), WriteInt(m, v, NoSpec))
         /\ Runs(m) /\ m.size + PlainLength(v) <= m.capacity => Runs(WriteInt(m, v, NoSpec))
<1> DEFINE d == Magnitude(v, NoSpec)
           n == Len(d)
           prefix == IntPrefix(v, NoSpec)
           padding == FieldPadding(n, NoSpec, prefix)
           length == PlainLength(v)
           area == PrepareIntBuffer(m, n, NoSpec, prefix)
           field == PrepareField(m, n, NoSpec, prefix)
           head == FieldHead(n, NoSpec, prefix)
           tail == FieldTail(n, NoSpec, prefix)
           g == GrowBuffer(m, length)
           w == WriteInt(m, v, NoSpec)
<1>1. /\ IsSpec(NoSpec) /\ NoSpec.type \in IntTypes /\ NoSpec.precision = -1
      /\ NoSpec.width \in Nat /\ NoSpec.fill \in Char
  BY NoSpecFields, Zenon DEF IsSpec
<1>2. n \in Nat /\ (Len(prefix) + n) + padding = length /\ length \in Nat
  BY PlainText, Zenon
<1>3. prefix \in Seq(Char)
  BY PlainPrefix, Zenon
<1>4. NoSpec.precision <= n /\ ~(n < NoSpec.precision)
  <2> HIDE DEF n
  <2>1. -1 <= n /\ ~(n < -1)
    BY <1>2, SMT
  <2> QED
    BY <1>1, <2>1, Zenon
<1>5. Appended(m, IntText(v, NoSpec), w)
  <2>1. ~PadsAfter(n, NoSpec, prefix)
    BY <1>4, Zenon DEF PadsAfter
  <2> QED
    BY <1>1, <2>1, WriteIntAppended, Zenon
<1>6. w = Put(area.m, Plus(area.p, 1 - n), d)
  BY <1>1, WriteIntParts, Zenon
<1> HIDE DEF d, prefix, length, w
<1>7. area = field
  BY <1>1, <1>2, <1>3, <1>4, PrepareIntPlain, Zenon
<1>8. FieldReady(m, field.m, field.p, head, n, tail)
      /\ AreaKept(GrowBuffer(m, (Len(prefix) + n) + padding), field.m, m.size + Len(head), n)
  BY <1>1, <1>2, <1>3, PrepareFieldReady, Zenon
<1> HIDE DEF n, padding, area, field, head, tail
<1>9. Fits(field.m) /\ (Runs(field.m) <=> Runs(g))
  BY <1>2, <1>8, Zenon DEF FieldReady, From, AreaKept
<1>10. Runs(w) <=> Runs(field.m)
  BY <1>6, <1>7, <1>9, PutRuns, Zenon
<1>11. Runs(m) /\ m.size + length <= m.capacity => Runs(g)
  BY <1>2, GrowRuns, Zenon
<1> QED
  BY <1>5, <1>9, <1>10, <1>11, Zenon DEF w, length

\* A larger number has no fewer digits.
LEMMA SizeGrows ==
  ASSUME NEW b, NEW top, IsBase(b, top), NEW x \in Numbers, NEW y \in Numbers, x <= y
  PROVE  SizeOf(x, b) <= SizeOf(y, b)
<1> DEFINE p == SizeOf(x, b)
           q == SizeOf(y, b)
<1>1. p \in 1..top /\ \A j \in 1..(p - 1) : Pow(b, j) <= x
  BY SizeLeast, Zenon
<1>2. q \in 1..top /\ y < Pow(b, q)
  BY SizeLeast, Zenon
<1> HIDE DEF p, q
<1>3. top \in Int /\ (\A k \in 0..top : Pow(b, k) \in Nat) /\ x \in Int /\ y \in Int
  <2>1. top \in 1..15 /\ \A k \in 0..top : Pow(b, k) \in Nat
    BY Zenon DEF IsBase
  <2> HIDE DEF MaxNumber
  <2>2. x \in Int /\ y \in Int
    BY DEF Numbers
  <2> QED
    BY <2>1, <2>2
<1>4. ASSUME q < p
      PROVE  FALSE
  <2>1. q \in 1..(p - 1) /\ q \in 0..top
    BY <1>1, <1>2, <1>3, <1>4
  <2>2. Pow(b, q) <= x /\ Pow(b, q) \in Nat
    BY <1>1, <1>3, <2>1, Zenon
  <2> DEFINE z == Pow(b, q)
  <2>3. z <= x /\ z \in Nat /\ y < z
    BY <1>2, <2>2, Zenon
  <2> HIDE DEF z
  <2> QED
    BY <1>3, <2>3
<1>5. p <= q
  BY <1>1, <1>2, <1>3, <1>4
<1> QED
  BY <1>5, Zenon DEF p, q

-----------------------------------------------------------------------------
(* Texts one behind the other                                              *)

\* append() to a text that was appended.
LEMMA AppendsText ==
  ASSUME NEW m, Fits(m), NEW s \in Seq(Char), NEW r, Appended(m, s, r), NEW t \in Seq(Char)
  PROVE  /\ Appended(m, s \o t, AppendChars(r, t))
         /\ Runs(r) /\ m.size + (Len(s) + Len(t)) <= m.capacity => Runs(AppendChars(r, t))
<1>1. From(m, r) /\ (Runs(r) => r.size = m.size + Len(s))
  BY Zenon DEF Appended
<1>2. Fits(r) /\ m.capacity <= r.capacity
  BY <1>1, Zenon DEF From
<1>3. Appended(r, t, AppendChars(r, t))
  BY <1>2, AppendCharsAppended, Zenon
<1>4. Appended(m, s \o t, AppendChars(r, t))
  BY <1>3, AppendedChain, Zenon
<1>5. ASSUME Runs(r), m.size + (Len(s) + Len(t)) <= m.capacity
      PROVE  Runs(AppendChars(r, t))
  <2>1. r.size + Len(t) <= r.capacity
    <3>1. r.size = m.size + Len(s)
      BY <1>1, <1>5, Zenon
    <3>2. m.size \in Nat /\ m.capacity \in Nat /\ r.capacity \in Nat
      BY <1>2, SizeIsNat, Zenon
    <3>3. Len(s) \in Nat /\ Len(t) \in Nat
      BY LenProperties, Zenon
    <3> QED
      BY <1>2, <1>5, <3>1, <3>2, <3>3, SMT
  <2> QED
    BY <1>2, <1>5, <2>1, AppendRuns, Zenon
<1> QED
  BY <1>4, <1>5, Zenon

\* An integer behind a text that was appended.
LEMMA AppendsPlain ==
  ASSUME NEW m, Fits(m), NEW s \in Seq(Char), NEW r, Appended(m, s, r), NEW v \in Values
  PROVE  /\ Appended(m, s \o IntText(v, NoSpec), WriteInt(r, v, NoSpec))
         /\ Runs(r) /\ m.size + (Len(s) + PlainLength(v)) <= m.capacity => Runs(WriteInt(r, v, NoSpec))
<1> DEFINE t == IntText(v, NoSpec)
           w == WriteInt(r, v, NoSpec)
           n == PlainLength(v)
<1>1. From(m, r) /\ (Runs(r) => r.size = m.size + Len(s))
  BY Zenon DEF Appended
<1>2. Fits(r) /\ m.capacity <= r.capacity
  BY <1>1, Zenon DEF From
<1>3. t \in Seq(Char) /\ n \in Nat
  BY PlainText, Zenon
<1>4. Appended(r, t, w) /\ (Runs(r) /\ r.size + n <= r.capacity => Runs(w))
  BY <1>2, PlainAppended, Zenon
<1> HIDE DEF t, w, n
<1>5. Appended(m, s \o t, w)
  BY <1>3, <1>4, AppendedChain, Zenon
<1>6. ASSUME Runs(r), m.size + (Len(s) + n) <= m.capacity
      PROVE  Runs(w)
  <2>1. r.size + n <= r.capacity
    <3>1. r.size = m.size + Len(s)
      BY <1>1, <1>6, Zenon
    <3>2. m.size \in Nat /\ m.capacity \in Nat /\ r.capacity \in Nat
      BY <1>2, SizeIsNat, Zenon
    <3>3. Len(s) \in Nat
      BY LenProperties, Zenon
    <3> QED
      BY <1>2, <1>3, <1>6, <3>1, <3>2, <3>3, SMT
  <2> QED
    BY <1>4, <1>6, <2>1, Zenon
<1> QED
  BY <1>5, <1>6, Zenon DEF t, w, n

\* Before anything is appended.
LEMMA AppendsNothing ==
  ASSUME NEW m, Fits(m)
  PROVE  Appended(m, <<>>, m)
<1>1. From(m, m)
  BY FromSelf, Zenon
<1>2. Len(<<>>) = 0
  BY EmptyText, Zenon
<1>3. m.size + 0 = m.size
  BY SizeIsNat
<1>4. \A i \in 1..0 : m.cells[m.size + i - 1] = <<>>[i]
  OBVIOUS
<1> QED
  BY <1>1, <1>2, <1>3, <1>4, Zenon DEF Appended

\* The text that an empty buffer got is its content.
LEMMA AppendedContent ==
  ASSUME NEW m, m.size = 0, NEW s \in Seq(Char), NEW r, Appended(m, s, r), Runs(r)
  PROVE  Fits(r) /\ Content(Leave(r)) = s
<1> DEFINE c == Content(Leave(r))
<1>1. From(m, r) /\ r.size = m.size + Len(s) /\ \A i \in 1..Len(s) : r.cells[m.size + i - 1] = s[i]
  BY Zenon DEF Appended
<1>2. Fits(r)
  BY <1>1, Zenon DEF From
<1>3. Len(s) \in Nat
  BY LenProperties, Zenon
<1> DEFINE n == Len(s)
<1> HIDE DEF n
<1>4. n \in Nat
  BY <1>3 DEF n
<1>5. 0 + n = n /\ \A i \in 1..n : 0 + i - 1 = i - 1
  BY <1>4
<1>6. r.size = n /\ \A i \in 1..n : r.cells[i - 1] = s[i]
  BY <1>1, <1>5, Zenon DEF n
<1>7. c \in Seq(Char) /\ Len(c) = r.size /\ \A i \in 1..r.size : c[i] = r.cells[i - 1]
  BY <1>2, LeaveIsBuffer, Zenon
<1> HIDE DEF c
<1>8. \A i \in 1..Len(c) : c[i] = s[i]
  BY <1>6, <1>7, Zenon
<1>9. Len(c) = Len(s)
  BY <1>6, <1>7, Zenon DEF n
<1>10. c = s
  BY <1>7, <1>8, <1>9, SeqEqual, Zenon
<1> QED
  BY <1>2, <1>10, Zenon DEF c
=============================================================================
