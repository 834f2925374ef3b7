-------------------------- MODULE MemoryWriterProofs --------------------------
(***************************************************************************)
(* Theorems about MemoryWriter, for every size of the object, every set of *)
(* blocks, every number of writers, all statements and every bound.        *)
(***************************************************************************)
EXTENDS MemoryWriter, BasicWriterProofs

-----------------------------------------------------------------------------
(* What a call may do to the blocks                                        *)

\* The storage of the call is in the object or in an allocated block.
Sound(m) ==
  /\ DOMAIN m = Fields
  /\ m.avail \subseteq Blocks /\ m.heap \subseteq Blocks
  /\ m.ptr \in m.heap \cup {data_}

\* Whatever the call allocates and frees on the way, the blocks of everybody else
\* are the same, and it has at most one of its own.
Keeps(m, r) == Sound(r) /\ r.avail = m.avail /\ r.heap \ {r.ptr} = m.heap \ {m.ptr}

\* A step of a call that leaves the blocks alone.
Same(m, r) == DOMAIN r = Fields /\ r.ptr = m.ptr /\ r.heap = m.heap /\ r.avail = m.avail

\* Such a step keeps everybody's blocks.
LEMMA SameKeeps ==
  ASSUME NEW m, NEW r, Sound(m), Same(m, r)
  PROVE  Keeps(m, r)
BY DEF Same, Keeps, Sound

\* Steps of a call in a row.
LEMMA KeepsChain ==
  ASSUME NEW m, NEW r, NEW s, Keeps(m, r), Keeps(r, s)
  PROVE  Keeps(m, s)
BY DEF Keeps

\* So does no step at all.
LEMMA KeepsSelf ==
  ASSUME NEW m, Sound(m)
  PROVE  Keeps(m, m)
BY DEF Keeps

-----------------------------------------------------------------------------
(* The operations of a buffer                                              *)

\* An exception leaves the storage where it is.
LEMMA ThrowKeeps ==
  ASSUME NEW m, Sound(m), NEW what
  PROVE  Keeps(m, Throw(m, what))
<1>1. Same(m, Throw(m, what))
  BY DEF Same, Throw, Sound, Fields
<1> QED
  BY <1>1, SameKeeps

\* Characters are stored in the storage that is there.
LEMMA PutKeeps ==
  ASSUME NEW m, Sound(m), NEW p, NEW s
  PROVE  Keeps(m, Put(m, p, s))
<1>1. ASSUME NEW c, NEW f
      PROVE  Same(m, [m EXCEPT !.cells = c, !.faults = f])
  BY DEF Same, Sound, Fields
<1>2. Same(m, m)
  BY DEF Same, Sound
<1>3. Same(m, Put(m, p, s))
  BY <1>1, <1>2 DEF Put
<1> QED
  BY <1>3, SameKeeps

\* clear() keeps the storage for what comes next.
LEMMA ClearedKeeps ==
  ASSUME NEW m, Sound(m)
  PROVE  Keeps(m, Cleared(m))
<1>1. Same(m, Cleared(m))
  BY DEF Same, Cleared, Sound, Fields
<1> QED
  BY <1>1, SameKeeps

\* Only the size changes.
LEMMA SizeKeeps ==
  ASSUME NEW m, Sound(m), NEW n
  PROVE  Keeps(m, [m EXCEPT !.size = n])
<1>1. Same(m, [m EXCEPT !.size = n])
  BY DEF Same, Sound, Fields
<1> QED
  BY <1>1, SameKeeps

\* A growth takes a block nobody has and gives the old one back.
LEMMA GrowKeeps ==
  ASSUME NEW m, Sound(m), NEW n
  PROVE  Keeps(m, Grow(m, n))
<1>1. CASE m.avail \subseteq m.heap
  BY <1>1, ThrowKeeps DEF Grow
<1>2. CASE ~(m.avail \subseteq m.heap)
  <2> DEFINE new == CHOOSE b \in m.avail : b \notin m.heap
             room == Max2(n, m.capacity + m.capacity \div 2)
             g == Grow(m, n)
  <2>1. new \in m.avail /\ new \notin m.heap
    BY <1>2
  <2>2. new # data_ /\ data_ \notin m.heap
    BY <2>1, BlockAssumption DEF Sound, data_
  <2>3. ASSUME NEW c, NEW d, NEW h, NEW e
        PROVE  LET r == [m EXCEPT !.ptr = new, !.capacity = c, !.cells = d, !.heap = h, !.gen = e]
               IN  DOMAIN r = Fields /\ r.ptr = new /\ r.heap = h /\ r.avail = m.avail
    BY DEF Sound, Fields
  <2>4. DOMAIN g = Fields /\ g.ptr = new /\ g.avail = m.avail
        /\ g.heap = (m.heap \cup {new}) \ {m.ptr}
    BY <1>2, <2>3 DEF Grow
  <2> HIDE DEF new, g
  <2> QED
    BY <2>1, <2>2, <2>4 DEF g, Keeps, Sound
<1> QED
  BY <1>1, <1>2

\* reserve() may get another block and frees its own for it.
LEMMA ReserveKeeps ==
  ASSUME NEW m, Sound(m), NEW n
  PROVE  Keeps(m, Reserve(m, n))
BY GrowKeeps, KeepsSelf DEF Reserve

\* resize() is a reserve() and a new size.
LEMMA ResizeKeeps ==
  ASSUME NEW m, Sound(m), NEW n
  PROVE  Keeps(m, Resize(m, n))
<1> DEFINE r == Reserve(m, n)
<1>1. Keeps(m, r) /\ Sound(r)
  BY ReserveKeeps DEF Keeps
<1>2. Keeps(r, [r EXCEPT !.size = n])
  BY <1>1, SizeKeeps
<1>3. Resize(m, n) \in {r, [r EXCEPT !.size = n]}
  BY DEF Resize
<1> HIDE DEF r
<1> QED
  BY <1>1, <1>2, <1>3, KeepsChain

\* Both ways to append write behind the size after a reservation.
LEMMA AppendKeeps ==
  ASSUME NEW m, NEW r, Keeps(m, r), NEW s, NEW p, NEW n
  PROVE  LET w == Put(r, p, s)
         IN  Keeps(m, IF w.error = "" THEN [w EXCEPT !.size = n] ELSE w)
<1> DEFINE w == Put(r, p, s)
<1>1. Keeps(r, w) /\ Sound(w)
  BY PutKeeps DEF Keeps
<1> HIDE DEF w
<1>2. Keeps(m, w) /\ Keeps(w, [w EXCEPT !.size = n])
  BY <1>1, SizeKeeps, KeepsChain
<1>3. Keeps(m, [w EXCEPT !.size = n])
  BY <1>2, KeepsChain
<1> QED
  BY <1>2, <1>3 DEF w

\* push_back() may grow the buffer for the one character.
LEMMA PushBackKeeps ==
  ASSUME NEW m, Sound(m), NEW c
  PROVE  Keeps(m, PushBack(m, c))
<1> DEFINE r == IF m.error = "" /\ m.size = m.capacity THEN Grow(m, m.size + 1) ELSE m
           w == Put(r, Pointer(r, r.size), <<c>>)
<1>1. Keeps(m, r)
  BY GrowKeeps, KeepsSelf
<1>2. PushBack(m, c) = IF w.error = "" THEN [w EXCEPT !.size = @ + 1] ELSE w
  BY DEF PushBack
<1>3. [w EXCEPT !.size = @ + 1] = [w EXCEPT !.size = w.size + 1]
  OBVIOUS
<1> HIDE DEF r
<1>4. Keeps(m, IF w.error = "" THEN [w EXCEPT !.size = w.size + 1] ELSE w)
  BY <1>1, AppendKeeps
<1> QED
  BY <1>2, <1>3, <1>4

\* append() may grow the buffer for all characters.
LEMMA AppendCharsKeeps ==
  ASSUME NEW m, Sound(m), NEW s
  PROVE  Keeps(m, AppendChars(m, s))
<1>1. Keeps(m, Reserve(m, m.size + Len(s)))
  BY ReserveKeeps
<1>2. ASSUME NEW r, Keeps(m, r)
      PROVE  LET w == Put(r, Pointer(r, r.size), s)
             IN  Keeps(m, IF w.error = "" THEN [w EXCEPT !.size = w.size + Len(s)] ELSE w)
  BY <1>2, AppendKeeps
<1> QED
  BY AppendCharsSize, <1>1, <1>2

-----------------------------------------------------------------------------
(* What is written for one value                                           *)

\* The same of characters stored later in a call.
LEMMA PutAfter ==
  ASSUME NEW m, NEW r, Keeps(m, r), NEW p, NEW s
  PROVE  Keeps(m, Put(r, p, s))
BY PutKeeps, KeepsChain DEF Keeps

\* The same of a resize() later in a call.
LEMMA ResizeAfter ==
  ASSUME NEW m, NEW r, Keeps(m, r), NEW n
  PROVE  Keeps(m, Resize(r, n))
BY ResizeKeeps, KeepsChain DEF Keeps

\* The same of a reserve() later in a call.
LEMMA ReserveAfter ==
  ASSUME NEW m, NEW r, Keeps(m, r), NEW n
  PROVE  Keeps(m, Reserve(r, n))
BY ReserveKeeps, KeepsChain DEF Keeps

\* write_str() makes room for the field and fills it.
LEMMA WriteStrAtKeeps ==
  ASSUME NEW m, Sound(m), NEW s, NEW spec
  PROVE  Keeps(m, WriteStrAt(m, s, spec).m)
BY KeepsSelf, ResizeAfter, PutAfter DEF WriteStrAt, GrowBuffer

\* prepare_int_buffer() makes room for sign, base and zeros.
LEMMA PrepareFieldAfter ==
  ASSUME NEW m, NEW r, Keeps(m, r), NEW n, NEW spec, NEW prefix
  PROVE  Keeps(m, PrepareField(r, n, spec, prefix).m)
BY ResizeAfter, PutAfter DEF PrepareField, GrowBuffer

\* Padding is more room and the fill character in it.
LEMMA PaddedAfter ==
  ASSUME NEW m, NEW r, Keeps(m, r), NEW n, NEW fill
  PROVE  Keeps(m, Padded(r, n, fill))
BY ResizeAfter, PutAfter DEF Padded, GrowBuffer

\* prepare_int_buffer() with a precision or an alignment of its own.
LEMMA PrepareIntBufferKeeps ==
  ASSUME NEW m, Sound(m), NEW n, NEW spec, NEW prefix
  PROVE  Keeps(m, PrepareIntBuffer(m, n, spec, prefix).m)
BY KeepsSelf, ReserveAfter, PrepareFieldAfter, PaddedAfter DEF PrepareIntBuffer

\* write_int() stores the digits in what was prepared.
LEMMA WriteIntKeeps ==
  ASSUME NEW m, Sound(m), NEW v, NEW spec
  PROVE  Keeps(m, WriteInt(m, v, spec))
BY PrepareIntBufferKeeps, PutAfter, ThrowKeeps DEF WriteInt

\* snprintf stores no more than there is room for.
LEMMA SnprintfAfter ==
  ASSUME NEW m, NEW r, Keeps(m, r), NEW offset, NEW s
  PROVE  Keeps(m, Snprintf(r, offset, s))
BY PutAfter DEF Snprintf

\* A number in the middle is moved within its field.
LEMMA CentredAfter ==
  ASSUME NEW m, NEW r, Keeps(m, r), NEW n, NEW spec
  PROVE  Keeps(m, Centred(r, n, spec))
BY ResizeAfter, PutAfter DEF Centred, GrowBuffer

\* The rounds of write_double() grow the buffer until the number fits.
LEMMA WriteNumberKeeps ==
  ASSUME NEW m, Sound(m), NEW sign, NEW text, NEW spec
  PROVE  Keeps(m, WriteNumber(m, sign, text, spec))
<1> DEFINE
  width   == IF sign # <<>> /\ spec.width > 0 THEN spec.width - 1 ELSE spec.width
  offset  == m.size + Len(sign)
  printed == SPrintf(text, IF spec.align = "center" THEN 0 ELSE width, spec.align = "left")
  n       == Len(printed)
  ready   == SignRoom(m, sign, spec)
  first   == Snprintf(ready, offset, printed)
  done    == IF FitsIn(offset, n, ready) THEN first
             ELSE Snprintf(Reserve(first, offset + n + 1), offset, printed)
  start   == Pointer(done, offset)
  blanks  == Cardinality({i \in 1..n : \A j \in 1..i : printed[j] = " "})
  glued   == spec.align \notin {"right", "default"} \/ blanks = 0
  signed  == Put(done, Plus(start, -1), IF sign = <<>> \/ glued THEN sign ELSE <<spec.fill>>)
  later   == sign # <<>> /\ ~glued
  filled  == IF spec.fill # " " \/ later THEN Put(signed, start, Rep(spec.fill, blanks)) ELSE signed
  whole   == IF later THEN Put(filled, Plus(start, blanks - 1), sign) ELSE filled
  last_   == IF spec.align = "center" /\ spec.width > n + Len(sign)
             THEN Centred(signed, n + Len(sign), spec) ELSE GrowBuffer(whole, n + Len(sign))
<1>1. WriteNumber(m, sign, text, spec) = last_
  BY DEF WriteNumber
<1> HIDE DEF width, printed, n, offset
<1>2. Keeps(m, ready)
  BY KeepsSelf, ReserveAfter DEF SignRoom
<1> HIDE DEF ready
<1>3. Keeps(m, done)
  BY <1>2, SnprintfAfter, ReserveAfter
<1> HIDE DEF done, start, blanks, glued
<1>4. Keeps(m, signed)
  BY <1>3, PutAfter
<1> HIDE DEF signed
<1>5. Keeps(m, filled)
  BY <1>4, PutAfter
<1> HIDE DEF filled, later
<1>6. Keeps(m, whole)
  BY <1>5, PutAfter
<1> HIDE DEF whole
<1>7. Keeps(m, last_)
  BY <1>4, <1>6, CentredAfter, ResizeAfter DEF GrowBuffer
<1> QED
  BY <1>1, <1>7

\* write_double() writes a number, or nan and inf as text.
LEMMA WriteDoubleKeeps ==
  ASSUME NEW m, Sound(m), NEW negative, NEW text, NEW spec
  PROVE  Keeps(m, WriteDouble(m, negative, text, spec))
BY WriteStrAtKeeps, PutAfter, ThrowKeeps, WriteNumberKeeps DEF WriteDouble

\* The statements of the program are what the proofs need of a statement.
LEMMA ProgramStatement ==
  ASSUME NEW st \in Statements
  PROVE  IsStatement(st)
<1> DEFINE op == st.op
           num == st.num
           str == st.str
           spec == st.spec
<1>1. /\ op \in {"text", "one", "str", "char", "int", "double"}
      /\ num \in -MaxNumber..MaxNumber /\ spec \in Specs
      /\ str \in Seq(STRING) /\ \A i \in 1..Len(str) : str[i] # JUNK
      /\ op \in {"one", "char"} => Len(str) = 1
      /\ op = "double" => str # <<>> /\ str[1] # " "
  BY StatementAssumption, Zenon
<1> HIDE DEF op, num, str, spec
<1>2. num \in Values
  <2>1. num \in -MaxNumber..MaxNumber
    BY <1>1, Zenon
  <2> QED
    BY <2>1, Zenon DEF Values
<1>3. str \in Seq(Char)
  <2>1. str \in Seq(STRING)
    BY <1>1, Zenon
  <2> QED
    BY <2>1 DEF Char
<1>4. op = "double" => Solid(str) /\ str[1] # JUNK
  <2>1. ASSUME str # <<>>
        PROVE  1 \in 1..Len(str)
    BY <1>3, <2>1
  <2> QED
    BY <1>1, <2>1, Zenon DEF Solid
<1>5. IsSpec(spec) /\ spec.align \in Aligns
  <2>1. spec \in Specs
    BY <1>1, Zenon
  <2>2. /\ DOMAIN spec = {"align", "width", "fill", "flags", "precision", "type"}
        /\ spec.width \in Nat /\ spec.precision \in Int /\ spec.fill \in STRING
        /\ spec.align \in {"default", "left", "right", "center", "numeric"}
    BY <2>1 DEF Specs
  <2>3. spec.fill \in Char
    BY <2>2, Zenon DEF Char
  <2> QED
    BY <2>2, <2>3, Zenon DEF IsSpec, Aligns
<1> QED
  BY <1>1, <1>2, <1>3, <1>4, <1>5, Zenon DEF IsStatement, op, num, str, spec

\* Every statement a format string can lead to.
LEMMA WriteKeeps ==
  ASSUME NEW m, Sound(m), NEW st \in Statements
  PROVE  Keeps(m, Write(m, st))
<1>1. st.op \in {"text", "one", "str", "char", "int", "double"}
  BY ProgramStatement, Zenon DEF IsStatement
<1> QED
  BY <1>1, AppendCharsKeeps, PushBackKeeps, WriteStrAtKeeps, WriteIntKeeps,
     WriteDoubleKeeps, ThrowKeeps DEF Write, WriteStr, WriteChar

-----------------------------------------------------------------------------
(* Describing a system error                                               *)

\* The buffers of the rounds exist: there are as many of them as one likes.
LEMMA RoundsExist ==
  ASSUME NEW text, NEW first, NEW n \in Nat
  PROVE  \E f : f = [k \in 0..n |-> IF k = 0 THEN first ELSE Doubled(f[k - 1], text)]
<1> DEFINE Is(f, j) == f = [k \in 0..j |-> IF k = 0 THEN first ELSE Doubled(f[k - 1], text)]
           T == {j \in Nat : ~\E f : Is(f, j)}
<1>1. ASSUME T # {} PROVE FALSE
  <2>1. PICK x \in T : \A y \in T : ~(y < x)
    BY <1>1, LeastNatural
  <2>2. CASE x = 0
    <3>1. Is([k \in 0..0 |-> first], 0)
      OBVIOUS
    <3> QED
      BY <2>2, <3>1
  <2>3. CASE x # 0
    <3>1. x - 1 \in Nat /\ x - 1 < x /\ x \in Nat
      BY <2>3
    <3>2. PICK f : Is(f, x - 1)
      BY <2>1, <3>1
    <3> DEFINE g == [k \in 0..x |-> IF k = x THEN Doubled(f[x - 1], text) ELSE f[k]]
    <3>3. ASSUME NEW k \in 0..x
          PROVE  g[k] = IF k = 0 THEN first ELSE Doubled(g[k - 1], text)
      <4>1. CASE k = 0
        <5>1. g[0] = f[0] /\ f[0] = first
          BY <2>3, <3>1, <3>2
        <5> QED
          BY <4>1, <5>1
      <4>2. CASE k # 0 /\ k # x
        <5>1. k \in 0..(x - 1) /\ k - 1 \in 0..(x - 1) /\ k - 1 # x /\ k - 1 \in 0..x
          BY <3>1, <4>2
        <5>2. g[k] = f[k] /\ g[k - 1] = f[k - 1]
          BY <4>2, <5>1
        <5>3. f[k] = Doubled(f[k - 1], text)
          BY <3>2, <4>2, <5>1
        <5> QED
          BY <4>2, <5>2, <5>3
      <4>3. CASE k = x
        <5>1. x - 1 \in 0..x /\ x - 1 # x
          BY <3>1
        <5>2. g[x] = Doubled(f[x - 1], text) /\ g[x - 1] = f[x - 1]
          BY <4>3, <5>1
        <5> QED
          BY <2>3, <4>3, <5>2
      <4> QED
        BY <4>1, <4>2, <4>3
    <3>4. g = [k \in 0..x |-> g[k]]
      OBVIOUS
    <3> HIDE DEF g
    <3>5. g = [k \in 0..x |-> IF k = 0 THEN first ELSE Doubled(g[k - 1], text)]
      BY <3>3, <3>4
    <3> QED
      BY <3>5
  <2> QED
    BY <2>2, <2>3
<1> QED
  BY <1>1

\* A round of safe_strerror keeps everybody else's blocks.
LEMMA DoubledKeeps ==
  ASSUME NEW m, NEW r, Keeps(m, r), NEW text
  PROVE  Keeps(m, Doubled(r, text))
BY ResizeAfter DEF Doubled

\* The buffer of the description is one buffer after all rounds.
LEMMA RoomForKeeps ==
  ASSUME NEW m, NEW first, Keeps(m, first), NEW text, Len(text) \in Nat
  PROVE  Keeps(m, RoomFor(text, first))
<1> DEFINE n == Len(text)
           own == CHOOSE f : f = [k \in 0..n |-> IF k = 0 THEN first ELSE Doubled(f[k - 1], text)]
           T == {k \in 0..n : ~Keeps(m, own[k])}
<1>1. own = [k \in 0..n |-> IF k = 0 THEN first ELSE Doubled(own[k - 1], text)]
  BY RoundsExist
<1>2. RoomFor(text, first) = own[n]
  BY DEF RoomFor
<1> HIDE DEF own
<1>3. own[0] = first /\ \A k \in 0..n : k # 0 => own[k] = Doubled(own[k - 1], text)
  BY <1>1
<1>4. ASSUME T # {} PROVE FALSE
  <2>0. T \in SUBSET Nat
    OBVIOUS
  <2> HIDE DEF T
  <2>1. PICK x \in T : \A y \in T : ~(y < x)
    BY <1>4, <2>0, LeastNatural
  <2> USE DEF T
  <2>2. x # 0
    BY <1>3
  <2>3. x - 1 \in 0..n /\ x - 1 < x
    BY <2>2
  <2>4. Keeps(m, own[x - 1])
    BY <2>1, <2>3
  <2> QED
    BY <1>3, <2>2, <2>4, DoubledKeeps
<1> QED
  BY <1>2, <1>4

\* The same of an append() later in a call.
LEMMA AppendAfter ==
  ASSUME NEW m, NEW r, Keeps(m, r), NEW s
  PROVE  Keeps(m, AppendChars(r, s))
BY AppendCharsKeeps, KeepsChain DEF Keeps

\* The message and the separator are two of them.
LEMMA NamedAfter ==
  ASSUME NEW m, NEW r, Keeps(m, r), NEW message
  PROVE  Keeps(m, Named(r, message))
BY AppendAfter DEF Named

\* The code is written where the text was meant to be.
LEMMA FormatErrorCodeKeeps ==
  ASSUME NEW m, Sound(m), NEW code, NEW message
  PROVE  Keeps(m, FormatErrorCode(m, code, message))
<1> DEFINE e == [m EXCEPT !.error = ""]
           out == Cleared(e)
<1>1. Same(m, e)
  BY DEF Same, Sound, Fields
<1> HIDE DEF e
<1>2. Keeps(m, e) /\ Sound(e)
  BY <1>1, SameKeeps DEF Keeps
<1>3. Keeps(m, out)
  BY <1>2, ClearedKeeps, KeepsChain
<1> HIDE DEF out
<1>4. ASSUME NEW r, Keeps(m, r), NEW n
      PROVE  Keeps(m, WriteInt(r, n, NoSpec))
  BY <1>4, WriteIntKeeps, KeepsChain DEF Keeps
<1>5. Keeps(m, AppendChars(Named(out, message), ERROR)) /\ Keeps(m, AppendChars(out, ERROR))
  BY <1>3, NamedAfter, AppendAfter
<1> QED
  BY <1>4, <1>5 DEF FormatErrorCode, out, e

\* The buffer of the description is freed, whether it was of any use or not.
LEMMA FormatSystemErrorKeeps ==
  ASSUME NEW m, Sound(m), m.ptr = data_, NEW code, NEW message, NEW text, Len(text) \in Nat
  PROVE  Keeps(m, FormatSystemError(m, code, message, text))
<1> DEFINE begun == [Enter(NewBuffer, m.heap) EXCEPT !.avail = m.avail]
           first == Resize(begun, INLINE_BUFFER_SIZE)
           room == RoomFor(text, first)
           m2 == [m EXCEPT !.heap = room.heap, !.error = room.error]
           said == AppendChars(Named(m2, message), text)
           done == [said EXCEPT !.heap = Freed(room, said.heap)]
<1>1. DOMAIN begun = Fields /\ begun.ptr = data_ /\ begun.heap = m.heap /\ begun.avail = m.avail
  BY DEF Enter, NewBuffer, Fields
<1> HIDE DEF begun
<1>2. Sound(begun)
  BY <1>1 DEF Sound
<1>3. Keeps(begun, room)
  BY <1>2, ResizeKeeps, RoomForKeeps
<1> HIDE DEF room
<1>4. /\ room.heap \ {room.ptr} = m.heap \ {data_} /\ room.heap \subseteq Blocks
      /\ room.ptr \in room.heap \cup {data_} /\ data_ \notin Blocks
  BY <1>1, <1>3, BlockAssumption DEF Keeps, Sound, data_
<1>5. DOMAIN m2 = Fields /\ m2.ptr = data_ /\ m2.heap = room.heap /\ m2.avail = m.avail
  BY DEF Sound, Fields
<1> HIDE DEF m2
<1>6. Sound(m2)
  BY <1>4, <1>5 DEF Sound
<1>7. Keeps(m2, said)
  BY <1>6, KeepsSelf, NamedAfter, AppendAfter
<1> HIDE DEF said
<1>8. DOMAIN done = Fields /\ done.ptr = said.ptr /\ done.heap = Freed(room, said.heap)
      /\ done.avail = said.avail
  BY <1>7 DEF Keeps, Sound, Fields
<1> HIDE DEF done
<1>9. Keeps(m, done)
  <2>1. /\ said.heap \ {said.ptr} = room.heap \ {data_} /\ said.heap \subseteq Blocks
        /\ said.ptr \in said.heap \cup {data_} /\ said.avail = m.avail
    BY <1>5, <1>7 DEF Keeps, Sound
  <2>2. room.ptr # data_ => room.ptr \in said.heap /\ room.ptr # said.ptr
    BY <1>4, <2>1
  <2>3. done.heap = said.heap \ {room.ptr}
    BY <1>4, <1>8, <2>1 DEF Freed
  <2>4. Sound(done)
    BY <1>8, <2>1, <2>2, <2>3 DEF Sound
  <2>5. done.heap \ {done.ptr} = m.heap \ {m.ptr}
    BY <1>4, <1>8, <2>1, <2>3
  <2> QED
    BY <1>8, <2>1, <2>4, <2>5 DEF Keeps
<1>10. Keeps(m, FormatErrorCode(done, code, message))
  BY <1>9, FormatErrorCodeKeeps, KeepsChain DEF Keeps
<1>11. FormatSystemError(m, code, message, text) \in {done, FormatErrorCode(done, code, message)}
  BY DEF FormatSystemError, done, said, m2, room, begun
<1> QED
  BY <1>9, <1>10, <1>11

-----------------------------------------------------------------------------
(* The writers                                                             *)

BufferFields == {"ptr", "size", "capacity", "cells"}

\* A writer that is not there has no block.
Owned ==
  /\ buf = [w \in Writers |-> buf[w]] /\ \A w \in Writers : DOMAIN buf[w] = BufferFields
  /\ status \in [Writers -> {"none", "live", "moved"}]
  /\ \A w \in Writers : status[w] = "none" => buf[w].ptr = data_
  /\ heap \subseteq Blocks

IInv == Owned /\ OneOwner

\* No block is the object itself.
LEMMA NoBlockZero == data_ \notin Blocks
BY BlockAssumption DEF data_

\* A call begins with the storage of its buffer.
LEMMA EnterSound ==
  ASSUME IInv, NEW w \in Writers
  PROVE  LET e == Enter(buf[w], heap) IN Sound(e) /\ e.ptr = buf[w].ptr /\ e.heap = heap
<1> DEFINE e == Enter(buf[w], heap)
<1>1. DOMAIN e = Fields /\ e.ptr = buf[w].ptr /\ e.heap = heap /\ e.avail = Blocks
  BY DEF Enter, Fields
<1>2. buf[w].ptr \in heap \cup {data_} /\ heap \subseteq Blocks
  BY DEF IInv, Owned, OneOwner
<1> HIDE DEF e
<1> QED
  BY <1>1, <1>2 DEF e, Sound

\* What a call leaves behind.
LEMMA LeaveFields ==
  ASSUME NEW m
  PROVE  DOMAIN Leave(m) = BufferFields /\ Leave(m).ptr = m.ptr
BY DEF Leave, BufferFields

\* A call on one writer moves no block of another one.
LEMMA CallKeepsOwners ==
  ASSUME IInv, NEW w \in Writers, NEW h, NEW p, h \subseteq Blocks, p \in h \cup {data_},
         h \ {p} = heap \ {buf[w].ptr}, NEW b, DOMAIN b = BufferFields, b.ptr = p,
         buf' = [buf EXCEPT ![w] = b], heap' = h,
         \/ status' = status /\ status[w] # "none"
         \/ status' = [status EXCEPT ![w] = "live"]
         \/ status' = [status EXCEPT ![w] = "none"] /\ p = data_
  PROVE  IInv'
<1>1. /\ \A u \in Writers : buf'[u] = IF u = w THEN b ELSE buf[u]
      /\ buf' = [u \in Writers |-> buf'[u]]
  BY DEF IInv, Owned
<1>2. status' \in [Writers -> {"none", "live", "moved"}]
  BY DEF IInv, Owned
<1>3. ASSUME NEW u \in Writers, status'[u] = "none"
      PROVE  buf'[u].ptr = data_
  BY <1>1, <1>3 DEF IInv, Owned
<1>4. Owned'
  BY <1>1, <1>2, <1>3 DEF IInv, Owned
<1>5. \A u \in Writers : buf'[u].ptr = IF u = w THEN p ELSE buf[u].ptr
  BY <1>1
<1>6. ASSUME NEW u \in Writers, u # w, buf[u].ptr # data_
      PROVE  buf[u].ptr \in h /\ buf[u].ptr # p
  <2>1. buf[u].ptr \in heap /\ buf[u].ptr # buf[w].ptr
    BY <1>6 DEF IInv, OneOwner
  <2> QED
    BY <2>1
<1>7. heap' = {buf'[u].ptr : u \in Writers} \ {data_}
  <2>1. ASSUME NEW x \in h
        PROVE  \E u \in Writers : buf'[u].ptr = x
    <3>1. CASE x = p
      BY <1>5, <3>1
    <3>2. CASE x # p
      <4>1. x \in heap /\ x # buf[w].ptr
        BY <3>2
      <4>2. PICK u \in Writers : buf[u].ptr = x
        BY <4>1 DEF IInv, OneOwner
      <4> QED
        BY <1>5, <4>1, <4>2
    <3> QED
      BY <3>1, <3>2
  <2>2. ASSUME NEW u \in Writers, buf'[u].ptr # data_
        PROVE  buf'[u].ptr \in h
    BY <1>5, <1>6, <2>2
  <2> QED
    BY <2>1, <2>2, NoBlockZero
<1>8. ASSUME NEW u \in Writers, NEW v \in Writers, buf'[u].ptr = buf'[v].ptr
      PROVE  u = v \/ buf'[u].ptr = data_
  <2>1. CASE u # w /\ v # w
    BY <1>5, <1>8, <2>1 DEF IInv, OneOwner
  <2>2. CASE u = w \/ v = w
    BY <1>5, <1>6, <1>8, <2>2
  <2> QED
    BY <2>1, <2>2
<1> QED
  BY <1>4, <1>7, <1>8 DEF IInv, OneOwner

\* The block of the writer moved from goes over, that of the other one is freed.
LEMMA MoveKeepsOwners ==
  ASSUME IInv, NEW w \in Writers, NEW v \in Writers, Move(w, v)
  PROVE  IInv'
<1>1. /\ w # v /\ status[v] = "live"
      /\ buf' = [buf EXCEPT ![w] = MovedTo(buf[v]), ![v] = MovedFrom(buf[v])]
      /\ status' = [status EXCEPT ![w] = "live", ![v] = "moved"]
      /\ heap' = IF status[w] = "none" THEN heap ELSE Freed(buf[w], heap)
  BY DEF Move
<1>2. DOMAIN MovedTo(buf[v]) = BufferFields /\ MovedTo(buf[v]).ptr = buf[v].ptr
  BY DEF MovedTo, IInv, Owned, BufferFields
<1>3. DOMAIN MovedFrom(buf[v]) = BufferFields /\ MovedFrom(buf[v]).ptr = data_
  BY DEF MovedFrom, IInv, Owned, BufferFields
<1>4. /\ buf' = [u \in Writers |-> buf'[u]]
      /\ \A u \in Writers : DOMAIN buf'[u] = BufferFields
      /\ \A u \in Writers : buf'[u].ptr = IF u = w THEN buf[v].ptr
                                          ELSE IF u = v THEN data_ ELSE buf[u].ptr
  <2>1. /\ buf' = [u \in Writers |-> buf'[u]]
        /\ \A u \in Writers : buf'[u] = IF u = v THEN MovedFrom(buf[v])
                                        ELSE IF u = w THEN MovedTo(buf[v]) ELSE buf[u]
    BY <1>1 DEF IInv, Owned
  <2> QED
    BY <1>1, <1>2, <1>3, <2>1 DEF IInv, Owned
<1>5. heap' = heap \ {buf[w].ptr} /\ heap' \subseteq Blocks
  BY <1>1, NoBlockZero DEF IInv, Owned, Freed
<1>6. Owned'
  <2>1. status' \in [Writers -> {"none", "live", "moved"}]
    BY <1>1 DEF IInv, Owned
  <2>2. \A u \in Writers : status'[u] = "none" => u # w /\ u # v /\ status[u] = "none"
    BY <1>1 DEF IInv, Owned
  <2> QED
    BY <1>4, <1>5, <2>1, <2>2 DEF IInv, Owned
<1>7. /\ heap = {buf[u].ptr : u \in Writers} \ {data_}
      /\ \A u, x \in Writers : buf[u].ptr = buf[x].ptr => u = x \/ buf[u].ptr = data_
  BY DEF IInv, OneOwner
<1>8. ASSUME NEW x \in heap'
      PROVE  x # data_ /\ \E u \in Writers : buf'[u].ptr = x
  <2>1. x \in heap /\ x # buf[w].ptr /\ x # data_
    BY <1>5, <1>8, NoBlockZero DEF IInv, Owned
  <2>2. PICK u \in Writers : buf[u].ptr = x
    BY <1>7, <2>1
  <2>3. CASE u = v
    BY <1>4, <2>1, <2>2, <2>3
  <2>4. CASE u # v
    BY <1>4, <2>1, <2>2, <2>4
  <2> QED
    BY <2>3, <2>4
<1>9. ASSUME NEW u \in Writers, buf'[u].ptr # data_
      PROVE  buf'[u].ptr \in heap'
  <2>1. CASE u = w
    BY <1>1, <1>4, <1>5, <1>7, <1>9, <2>1
  <2>2. CASE u # w
    BY <1>4, <1>5, <1>7, <1>9, <2>2
  <2> QED
    BY <2>1, <2>2
<1>10. ASSUME NEW u \in Writers, NEW x \in Writers, buf'[u].ptr = buf'[x].ptr
       PROVE  u = x \/ buf'[u].ptr = data_
  BY <1>1, <1>4, <1>7, <1>10
<1> QED
  BY <1>6, <1>8, <1>9, <1>10 DEF IInv, OneOwner

\* A call that keeps the blocks of everybody else leaves its buffer to the writer.
LEMMA LeaveKeepsOwners ==
  ASSUME IInv, NEW w \in Writers, NEW e, e.ptr = buf[w].ptr, e.heap = heap, NEW m, Keeps(e, m),
         buf' = [buf EXCEPT ![w] = Leave(m)], heap' = m.heap,
         \/ status' = status /\ status[w] # "none"
         \/ status' = [status EXCEPT ![w] = "live"]
  PROVE  IInv'
<1>1. m.heap \subseteq Blocks /\ m.ptr \in m.heap \cup {data_} /\ m.heap \ {m.ptr} = heap \ {buf[w].ptr}
  BY DEF Keeps, Sound
<1> DEFINE h == m.heap
           p == m.ptr
           b == Leave(m)
<1>2. DOMAIN b = BufferFields /\ b.ptr = p
  BY LeaveFields
<1>3. buf' = [buf EXCEPT ![w] = b] /\ heap' = h
  OBVIOUS
<1> HIDE DEF h, p, b
<1> QED
  BY <1>1, <1>2, <1>3, CallKeepsOwners DEF h, p

\* Before the first call every writer uses the storage in its object.
LEMMA InitOwned ==
  ASSUME Init
  PROVE  IInv
<1>1. /\ buf = [w \in Writers |-> NewBuffer] /\ heap = {} /\ status = [w \in Writers |-> "none"]
  BY DEF Init
<1>2. DOMAIN NewBuffer = BufferFields /\ NewBuffer.ptr = data_
  BY DEF NewBuffer, BufferFields
<1>3. \A w \in Writers : buf[w] = NewBuffer
  BY <1>1
<1> HIDE DEF NewBuffer
<1>4. Owned
  BY <1>1, <1>2, <1>3 DEF Owned
<1>5. OneOwner
  BY <1>1, <1>2, <1>3 DEF OneOwner
<1> QED
  BY <1>4, <1>5 DEF IInv

\* Every call, whatever it writes and whether it throws or not, keeps it so.
LEMMA StepOwned ==
  ASSUME IInv, [Next]_vars
  PROVE  IInv'
<1>0. DOMAIN NewBuffer = BufferFields /\ NewBuffer.ptr = data_
  BY DEF NewBuffer, BufferFields
<1>1. ASSUME NEW w \in Writers, Construct(w)
      PROVE  IInv'
  <2>1. /\ buf' = [buf EXCEPT ![w] = NewBuffer] /\ heap' = heap
        /\ status' = [status EXCEPT ![w] = "live"] /\ buf[w].ptr = data_ /\ heap \subseteq Blocks
    BY <1>1 DEF Construct, IInv, Owned
  <2> QED
    BY <1>0, <2>1, CallKeepsOwners
<1>2. ASSUME NEW w \in Writers, NEW st \in Statements, Insert(w, st)
      PROVE  IInv'
  <2> DEFINE e == Enter(buf[w], heap)
             m == Write(e, st)
  <2>1. Keeps(e, m) /\ e.ptr = buf[w].ptr /\ e.heap = heap
    BY EnterSound, WriteKeeps
  <2>2. buf' = [buf EXCEPT ![w] = Leave(m)] /\ heap' = m.heap /\ status' = status /\ status[w] # "none"
    BY <1>2 DEF Insert
  <2> HIDE DEF e, m
  <2> QED
    BY <2>1, <2>2, LeaveKeepsOwners
<1>3. ASSUME NEW w \in Writers, CStr(w)
      PROVE  IInv'
  <2> DEFINE e == Enter(buf[w], heap)
             r == Reserve(e, buf[w].size + 1)
             m == Put(r, Pointer(r, r.size), <<NUL>>)
  <2>1. Keeps(e, m) /\ e.ptr = buf[w].ptr /\ e.heap = heap
    BY EnterSound, ReserveKeeps, PutAfter
  <2>2. buf' = [buf EXCEPT ![w] = Leave(m)] /\ heap' = m.heap /\ status' = status /\ status[w] # "none"
    BY <1>3 DEF CStr
  <2> HIDE DEF e, r, m
  <2> QED
    BY <2>1, <2>2, LeaveKeepsOwners
<1>4. ASSUME NEW w \in Writers, Clear(w)
      PROVE  IInv'
  <2> DEFINE e == Enter(buf[w], heap)
             m == Cleared(e)
  <2>1. Keeps(e, m) /\ e.ptr = buf[w].ptr /\ e.heap = heap
    BY EnterSound, ClearedKeeps
  <2>2. m.heap = heap
    BY <2>1 DEF Cleared, Enter
  <2>3. buf' = [buf EXCEPT ![w] = Leave(m)] /\ heap' = m.heap /\ status' = status /\ status[w] # "none"
    BY <1>4, <2>2 DEF Clear
  <2> HIDE DEF e, m
  <2> QED
    BY <2>1, <2>3, LeaveKeepsOwners
<1>5. ASSUME NEW w \in Writers, Destroy(w)
      PROVE  IInv'
  <2>1. /\ buf' = [buf EXCEPT ![w] = NewBuffer] /\ status' = [status EXCEPT ![w] = "none"]
        /\ heap' = Freed(buf[w], heap) /\ heap \subseteq Blocks
    BY <1>5 DEF Destroy, IInv, Owned
  <2>2. heap' = heap \ {buf[w].ptr} /\ data_ \notin heap
    BY <2>1, NoBlockZero DEF Freed
  <2> DEFINE h == heap \ {buf[w].ptr}
  <2>3. h \subseteq Blocks /\ h \ {data_} = heap \ {buf[w].ptr}
    BY <2>1, <2>2
  <2> HIDE DEF h
  <2>4. heap' = h
    BY <2>2 DEF h
  <2> QED
    BY <1>0, <2>1, <2>3, <2>4, CallKeepsOwners
<1>6. ASSUME NEW w \in Writers, NEW code \in Codes, NEW message \in Messages,
             NEW text \in Descriptions, NEW avail \in {Blocks, {}},
             DescribeError(w, code, message, text, avail)
      PROVE  IInv'
  <2> DEFINE e == [Enter(NewBuffer, heap) EXCEPT !.avail = avail]
             m == FormatSystemError(e, code, message, text)
  <2>1. DOMAIN e = Fields /\ e.ptr = data_ /\ e.heap = heap /\ e.avail = avail
    BY DEF Enter, NewBuffer, Fields
  <2>2. buf' = [buf EXCEPT ![w] = Leave(m)] /\ heap' = m.heap /\ status[w] = "none"
        /\ status' = [status EXCEPT ![w] = "live"]
    BY <1>6 DEF DescribeError
  <2> HIDE DEF e
  <2>3. Sound(e)
    BY <2>1 DEF Sound, IInv, Owned
  <2>4. Keeps(e, m)
    <3>1. Len(text) \in Nat
      <4>1. text \in Seq(STRING)
        BY ErrorAssumption
      <4> QED
        BY <4>1, LenProperties, Zenon
    <3> QED
      BY <2>1, <2>3, <3>1, FormatSystemErrorKeeps
  <2>5. buf[w].ptr = data_
    BY <2>2 DEF IInv, Owned
  <2> HIDE DEF m
  <2> QED
    BY <2>1, <2>2, <2>4, <2>5, LeaveKeepsOwners
<1>7. CASE UNCHANGED vars
  BY <1>7 DEF vars, IInv, Owned, OneOwner
<1> QED
  BY <1>1, <1>2, <1>3, <1>4, <1>5, <1>6, <1>7, MoveKeepsOwners DEF Next

-----------------------------------------------------------------------------
(* The code of a system error                                              *)

\* The digits that are counted for a code.
CodeSize(code) == SizeOf(code % CodeRange, 10)

\* A code taken as unsigned.
LEMMA CodeRemainder ==
  ASSUME NEW code \in Codes
  PROVE  /\ code \in Values /\ code % CodeRange \in Numbers
         /\ 0 <= code => code % CodeRange = code
         /\ code < 0 => -code \in Numbers /\ -code <= code % CodeRange
<1> DEFINE n == CodeRange
           h == n \div 2
           x == code % n
<1>1. n \in Int /\ 1 <= n /\ n <= MaxNumber + 1 /\ code \in -h..(h - 1)
  <2>1. n \in 1..(MaxNumber + 1) /\ Codes \subseteq -h..(h - 1)
    BY ErrorAssumption, Zenon
  <2>2. MaxNumber \in Nat
    BY DEF MaxNumber
  <2> HIDE DEF n, h
  <2> QED
    BY <2>1, <2>2
<1> HIDE DEF n
<1>2. h \in Int /\ 2 * h <= n /\ n <= 2 * h + 1
  BY <1>1
<1>3. 0 <= code => x = code
  BY <1>1
<1>4. code < 0 => x = code + n
  BY <1>1
<1> HIDE DEF x, h
<1>5. code \in -MaxNumber..MaxNumber /\ x \in 0..MaxNumber
  <2>1. MaxNumber \in Nat /\ 1 <= MaxNumber
    BY SMT DEF MaxNumber
  <2>2. code \in Int /\ -h <= code /\ code < h
    BY <1>1, <1>2, SMT
  <2> DEFINE top == MaxNumber
  <2>3. top \in Int /\ 1 <= top /\ n <= top + 1
    BY <1>1, <2>1, SMT
  <2> HIDE DEF top
  <2>4. h <= top /\ -top <= code /\ code <= top
    BY <1>1, <1>2, <2>2, <2>3, SMT
  <2>5. CASE 0 <= code
    <3>1. x \in 0..top
      BY <1>3, <2>2, <2>4, <2>5, SMT
    <3>2. code \in -top..top
      BY <2>2, <2>3, <2>4, SMT
    <3> QED
      BY <3>1, <3>2, Zenon DEF top
  <2>6. CASE ~(0 <= code)
    <3>1. code < 0 /\ x = code + n
      BY <1>4, <2>2, <2>6, SMT
    <3>2. 0 <= x /\ x <= top /\ x \in Int
      BY <1>1, <1>2, <2>2, <2>3, <3>1, SMT
    <3>3. code \in -top..top /\ x \in 0..top
      BY <2>2, <2>3, <2>4, <3>2, SMT
    <3> QED
      BY <3>3, Zenon DEF top
  <2> QED
    BY <2>5, <2>6, Zenon
<1>6. code < 0 => -code \in 0..MaxNumber /\ -code <= x
  <2>1. MaxNumber \in Nat
    BY SMT DEF MaxNumber
  <2>2. code < 0 => -code <= h /\ h <= x
    BY <1>1, <1>2, <1>4, SMT
  <2> QED
    BY <1>1, <1>2, <1>5, <2>1, <2>2, SMT
<1> QED
  BY <1>3, <1>5, <1>6, Zenon DEF Values, Numbers, x, n

\* The digits counted are as many as those written and the sign, except for some
\* codes below zero.
LEMMA CodeDigits ==
  ASSUME NEW code \in Codes
  PROVE  /\ code \in Values /\ PlainLength(code) \in 1..6 /\ CodeSize(code) \in 1..5
         /\ CountDigits(code % CodeRange) = CodeSize(code)
         /\ Numeral(code % CodeRange, 10) \in Seq(Char)
         /\ Len(Numeral(code % CodeRange, 10)) = CodeSize(code)
         /\ CodeSize(code) < PlainLength(code) =>
              code < 0 /\ Len(Numeral(-code, 10)) = CodeSize(code)
<1> DEFINE x == code % CodeRange
           s == CodeSize(code)
           d == SizeOf(AbsOf(code), 10)
           length == PlainLength(code)
<1>1. /\ code \in Values /\ x \in Numbers
      /\ 0 <= code => x = code
      /\ code < 0 => -code \in Numbers /\ -code <= x
  BY CodeRemainder, Zenon
<1>2. IsBase(10, 5)
  BY Bases, Zenon
<1>3. CountDigits(x) = SizeOf(x, 10)
  BY <1>1, CountDigitsNumeral, Zenon
<1>4. Numeral(x, 10) \in Seq(Char) /\ Len(Numeral(x, 10)) = SizeOf(x, 10) /\ SizeOf(x, 10) \in 1..5
  BY <1>1, <1>2, NumeralSeq, Zenon
<1>5. length = (IF code < 0 THEN 1 ELSE 0) + d /\ d \in 1..5
  BY <1>1, PlainText, Zenon DEF PlainLength
<1>6. s = SizeOf(x, 10)
  BY Zenon DEF CodeSize
<1>7. code \in Int
  BY <1>1 DEF Values, MaxNumber
<1>8. ASSUME 0 <= code
      PROVE  s = d /\ length = d
  <2>1. ~(code < 0)
    BY <1>7, <1>8
  <2>2. AbsOf(code) = code
    BY <2>1, Zenon DEF AbsOf
  <2> HIDE DEF s, length
  <2>3. 0 + d = d
    BY <1>5
  <2> HIDE DEF x
  <2>4. x = code
    BY <1>1, <1>8, Zenon
  <2> QED
    BY <1>5, <1>6, <2>1, <2>2, <2>3, <2>4, Zenon
<1>9. ASSUME code < 0
      PROVE  d <= s /\ length = 1 + d /\ Len(Numeral(-code, 10)) = d
  <2>1. AbsOf(code) = -code
    BY <1>9, Zenon DEF AbsOf
  <2> HIDE DEF s, length
  <2>2. SizeOf(-code, 10) <= SizeOf(x, 10)
    BY <1>1, <1>2, <1>9, SizeGrows, Zenon
  <2>3. Len(Numeral(-code, 10)) = SizeOf(-code, 10)
    BY <1>1, <1>2, <1>9, NumeralSeq, Zenon
  <2> HIDE DEF x
  <2> QED
    BY <1>5, <1>6, <1>9, <2>1, <2>2, <2>3, Zenon
<1> HIDE DEF s, d, length
<1>10. s \in 1..5
  BY <1>4, <1>6, Zenon
<1>11. length \in 1..6
  BY <1>5
<1>12. ASSUME s < length
       PROVE  code < 0 /\ Len(Numeral(-code, 10)) = s
  <2>1. code < 0
    BY <1>5, <1>7, <1>8, <1>10, <1>12
  <2>2. d <= s /\ length = 1 + d
    BY <1>9, <2>1, Zenon
  <2>3. d = s
    BY <1>5, <1>10, <1>12, <2>2
  <2> QED
    BY <1>9, <2>1, <2>3, Zenon
<1> QED
  BY <1>1, <1>3, <1>4, <1>6, <1>10, <1>11, <1>12, Zenon DEF s, length

\* The code is longer than it was counted: it is below zero and has as many digits as
\* the unsigned.
CodeFails(code) ==
  /\ code < 0
  /\ Len(Numeral(-code, 10)) = Len(Numeral(code % CodeRange, 10))

\* The separator and the word.
LEMMA ErrorWords ==
  /\ SEP \in Seq(Char) /\ Len(SEP) = 2
  /\ ERROR \in Seq(Char) /\ Len(ERROR) = 6
<1> DEFINE a == ":"
           b == " "
           e == "e"
           r == "r"
           o == "o"
<1>1. a \in Char /\ b \in Char /\ e \in Char /\ r \in Char /\ o \in Char
  BY LettersAreChars, MarksAreChars, Zenon
<1>2. SEP = <<a, b>> /\ ERROR = <<e, r, r, o, r, b>>
  BY Zenon DEF SEP, ERROR
<1> HIDE DEF a, b, e, r, o
<1>3. <<a, b>> \in Seq(Char) /\ Len(<<a, b>>) = 2
  BY <1>1
<1>4. <<e, r, r, o, r, b>> \in Seq(Char) /\ Len(<<e, r, r, o, r, b>>) = 6
  BY <1>1
<1> QED
  BY <1>2, <1>3, <1>4, Zenon

\* What stands in front of the code.
CodeHead(code, message) ==
  IF Len(message) <= INLINE_BUFFER_SIZE - ((2 + 6) + CodeSize(code)) THEN message \o SEP ELSE <<>>

\* The text that stands for an error whose description cannot be had.
LEMMA CodeTextIs ==
  ASSUME NEW code \in Codes, NEW message \in Seq(Char)
  PROVE  /\ CodeText(code, message) = (CodeHead(code, message) \o ERROR) \o IntText(code, NoSpec)
         /\ CodeHead(code, message) \in Seq(Char)
         /\ Len(CodeHead(code, message)) \in Nat
         /\ Len(CodeHead(code, message)) # 0 =>
              Len(CodeHead(code, message)) + (6 + CodeSize(code)) <= INLINE_BUFFER_SIZE
<1> DEFINE st == [op |-> "int", num |-> code, str |-> <<>>, spec |-> NoSpec]
           digits == Wanted(st)
           numeral == Numeral(code % CodeRange, 10)
           room == Len((SEP \o ERROR) \o numeral)
           s == CodeSize(code)
           named == Len(message) <= INLINE_BUFFER_SIZE - ((2 + 6) + s)
           text == IntText(code, NoSpec)
           head == CodeHead(code, message)
<1>1. /\ code \in Values /\ s \in 1..5 /\ numeral \in Seq(Char) /\ Len(numeral) = s
  BY CodeDigits, Zenon
<1>2. digits = text /\ text \in Seq(Char)
  <2>1. st.op = "int" /\ st.num = code /\ st.str = <<>> /\ st.spec = NoSpec
    BY Zenon
  <2> HIDE DEF st
  <2>2. "int" # "one" /\ "int" # "char" /\ "int" # "double"
    OBVIOUS
  <2>3. st.str \in Seq(Char)
    BY <2>1, EmptyText, Zenon
  <2>4. IsSpec(NoSpec) /\ NoSpec.align \in Aligns
    BY NoSpecFields, Zenon
  <2>5. IsStatement(st)
    BY <1>1, <2>1, <2>2, <2>3, <2>4, Zenon DEF IsStatement
  <2>6. Fits(Enter(NewBuffer, {}))
    BY NewIsBuffer, EnterFits, Zenon DEF Entered
  <2>7. Wanted(st) = IntText(st.num, st.spec) /\ Wanted(st) \in Seq(Char)
    BY <2>1, <2>5, <2>6, IntWanted, Zenon
  <2> QED
    BY <2>1, <2>7, Zenon
<1> HIDE DEF st, digits, numeral, s, text
<1>3. SEP \in Seq(Char) /\ Len(SEP) = 2 /\ ERROR \in Seq(Char) /\ Len(ERROR) = 6
  BY ErrorWords, Zenon
<1>4. room = (2 + 6) + s
  <2>1. SEP \o ERROR \in Seq(Char) /\ Len(SEP \o ERROR) = 2 + 6
    <3>1. SEP \in Seq(Char) /\ ERROR \in Seq(Char)
      BY <1>3, Zenon
    <3>2. SEP \o ERROR \in Seq(Char) /\ Len(SEP \o ERROR) = Len(SEP) + Len(ERROR)
      BY <3>1, Joined, Zenon
    <3> QED
      BY <1>3, <3>2, Zenon
  <2>2. Len((SEP \o ERROR) \o numeral) = Len(SEP \o ERROR) + Len(numeral)
    BY <1>1, <2>1, Joined, Zenon
  <2> QED
    BY <1>1, <2>1, <2>2, Zenon
<1>5. CodeText(code, message) = IF Len(message) + room <= INLINE_BUFFER_SIZE
                                THEN ((message \o SEP) \o ERROR) \o digits ELSE ERROR \o digits
  BY Zenon DEF CodeText, room, digits, st, numeral
<1> HIDE DEF room
<1>6. Len(message) \in Nat /\ INLINE_BUFFER_SIZE \in Nat
  BY LenProperties, SizeAssumption
<1>7. Len(message) + room <= INLINE_BUFFER_SIZE <=> named
  BY <1>1, <1>4, <1>6, SMT
<1>8. head = IF named THEN message \o SEP ELSE <<>>
  BY Zenon DEF CodeHead, s
<1>9. message \o SEP \in Seq(Char) /\ Len(message \o SEP) = Len(message) + 2
  BY <1>3, Joined, Zenon
<1>10. <<>> \o ERROR = ERROR
  BY <1>3, JoinsNothing, Zenon
<1>11. CodeText(code, message) = (head \o ERROR) \o text
  <2> HIDE DEF named, head
  <2>1. CASE named
    BY <1>2, <1>5, <1>7, <1>8, <2>1, Zenon
  <2>2. CASE ~named
    BY <1>2, <1>5, <1>7, <1>8, <1>10, <2>2, Zenon
  <2> QED
    BY <2>1, <2>2, Zenon
<1>12. head \in Seq(Char)
  BY <1>8, <1>9, EmptyText, Zenon
<1>13. Len(head) \in Nat
  BY <1>12, LenProperties, Zenon
<1>14. ASSUME Len(head) # 0
       PROVE  Len(head) + (6 + s) <= INLINE_BUFFER_SIZE
  <2>1. named
    BY <1>8, <1>14, EmptyText, Zenon
  <2>2. Len(head) = Len(message) + 2
    BY <1>8, <1>9, <2>1, Zenon
  <2> HIDE DEF head
  <2> QED
    BY <1>1, <1>6, <2>1, <2>2, SMT
<1> QED
  BY <1>11, <1>12, <1>13, <1>14, Zenon DEF s, text, head

\* clear() after an exception that was caught.
LEMMA ClearedFits ==
  ASSUME NEW m, Fits(m)
  PROVE  LET out == Cleared([m EXCEPT !.error = ""])
         IN  Fits(out) /\ Runs(out) /\ out.size = 0 /\ out.capacity = m.capacity /\ out.faults = m.faults
<1> DEFINE e == [m EXCEPT !.error = ""]
           out == [e EXCEPT !.size = 0]
<1>1. e.error = ""
  BY Zenon DEF Fits, Fields
<1>2. /\ DOMAIN e = Fields /\ e.capacity = m.capacity /\ e.faults = m.faults /\ e.avail = m.avail
      /\ e.gen = m.gen /\ e.cells = m.cells /\ e.ptr = m.ptr /\ e.size = m.size
  BY Zenon DEF Fits, Fields
<1> HIDE DEF e
<1>3. Fits(e)
  BY <1>2, Zenon DEF Fits
<1>4. Runs(e)
  BY <1>1, Zenon DEF Runs
<1>5. 0 \in Nat /\ 0 <= e.capacity
  BY <1>3, SizeIsNat
<1>6. /\ Fits(out) /\ out.faults = e.faults /\ out.size = 0 /\ (Runs(out) <=> Runs(e))
      /\ out.capacity = e.capacity
  BY <1>3, <1>5, SizeCells, Zenon
<1>7. Cleared(e) = out
  BY <1>1, Zenon DEF Cleared
<1> QED
  BY <1>2, <1>4, <1>6, <1>7, Zenon DEF e

\* The code is appended to an empty writer, with no exception if it fits there.
LEMMA ErrorCodeWritten ==
  ASSUME NEW m, Fits(m), NEW code \in Codes, NEW message \in Seq(Char)
  PROVE  LET r == FormatErrorCode(m, code, message)
         IN  /\ Fits(r) /\ r.faults = m.faults
             /\ Runs(r) => Content(Leave(r)) = CodeText(code, message)
             /\ ~Runs(r) => CodeFails(code)
<1> DEFINE e == [m EXCEPT !.error = ""]
           out == Cleared(e)
           size == (Len(SEP) + Len(ERROR)) + CountDigits(code % CodeRange)
           named == IF Len(message) <= INLINE_BUFFER_SIZE - size THEN Named(out, message) ELSE out
           word == AppendChars(named, ERROR)
           r == WriteInt(word, code, NoSpec)
           head == CodeHead(code, message)
           text == IntText(code, NoSpec)
           n == INLINE_BUFFER_SIZE
           s == CodeSize(code)
           length == PlainLength(code)
<1>1. FormatErrorCode(m, code, message) = r
  BY Zenon DEF FormatErrorCode
<1>2. Fits(out) /\ Runs(out) /\ out.size = 0 /\ out.capacity = m.capacity /\ out.faults = m.faults
  BY ClearedFits, Zenon
<1> HIDE DEF out
<1>3. /\ code \in Values /\ length \in 1..6 /\ s \in 1..5
      /\ CountDigits(code % CodeRange) = s
      /\ Len(Numeral(code % CodeRange, 10)) = s
      /\ s < length => code < 0 /\ Len(Numeral(-code, 10)) = s
  BY CodeDigits, Zenon
<1>4. SEP \in Seq(Char) /\ Len(SEP) = 2 /\ ERROR \in Seq(Char) /\ Len(ERROR) = 6
  BY ErrorWords, Zenon
<1>5. /\ CodeText(code, message) = (head \o ERROR) \o text
      /\ head \in Seq(Char) /\ Len(head) \in Nat
      /\ Len(head) # 0 => Len(head) + (6 + s) <= n
  BY CodeTextIs, Zenon
<1>6. n \in Nat /\ 12 <= n /\ n <= out.capacity
  <2>1. n <= m.capacity
    BY Zenon DEF Fits
  <2>2. n \in Nat /\ 12 <= n
    BY SizeAssumption, RoomAssumption
  <2> QED
    BY <1>2, <2>1, <2>2, Zenon
<1> DEFINE cap == out.capacity
<1>7. cap \in Nat
  BY <1>2, SizeIsNat, Zenon
<1>8. size = (2 + 6) + s
  BY <1>3, <1>4, Zenon
<1> DEFINE fits == Len(message) <= n - ((2 + 6) + s)
<1>9. named = IF fits THEN Named(out, message) ELSE out
  BY <1>8, Zenon
<1>10. head = IF fits THEN message \o SEP ELSE <<>>
  BY Zenon DEF CodeHead
<1> HIDE DEF n, s, length, text, named, fits, size, cap, head
<1>11. Appended(out, head, named) /\ Runs(named)
  <2>1. CASE fits
    <3> DEFINE first == AppendChars(out, message)
    <3>1. named = AppendChars(first, SEP) /\ head = message \o SEP
      BY <1>9, <1>10, <2>1, Zenon DEF Named
    <3>2. Appended(out, message, first)
      BY <1>2, AppendCharsAppended, Zenon
    <3>3. message \o SEP \in Seq(Char) /\ Len(message \o SEP) = Len(message) + Len(SEP)
      BY <1>4, Joined, Zenon
    <3>4. Len(message) \in Nat /\ Len(message) + 2 <= cap
      <4>1. Len(message) \in Nat
        BY LenProperties, Zenon
      <4>2. n <= cap
        BY <1>6, Zenon DEF cap
      <4> QED
        BY <1>3, <1>6, <1>7, <2>1, <4>1, <4>2, SMT DEF fits
    <3>5. 0 + Len(message) <= cap /\ 0 + (Len(message) + 2) <= cap
      BY <1>7, <3>4, SMT
    <3>6. Runs(first)
      <4>1. out.size + Len(message) <= out.capacity
        BY <1>2, <3>5, Zenon DEF cap
      <4> QED
        BY <1>2, <4>1, AppendRuns, Zenon
    <3> HIDE DEF first
    <3>7. out.size + (Len(message) + Len(SEP)) <= out.capacity
      BY <1>2, <1>4, <3>5, Zenon DEF cap
    <3>8. /\ Appended(out, message \o SEP, AppendChars(first, SEP))
          /\ Runs(AppendChars(first, SEP))
      BY <1>2, <1>4, <3>2, <3>6, <3>7, AppendsText, Zenon
    <3> QED
      BY <3>1, <3>8, Zenon
  <2>2. CASE ~fits
    <3>1. named = out /\ head = <<>>
      BY <1>9, <1>10, <2>2, Zenon
    <3>2. Appended(out, <<>>, out)
      BY <1>2, AppendsNothing, Zenon
    <3> QED
      BY <1>2, <3>1, <3>2, Zenon
  <2> QED
    BY <2>1, <2>2, Zenon
<1> DEFINE h == Len(head)
<1>12. h \in Nat /\ (h # 0 => h + (6 + s) <= n)
  BY <1>5, Zenon
<1> HIDE DEF h
<1>13. /\ Appended(out, head \o ERROR, word)
       /\ Runs(word)
  <2>1. 0 + (h + 6) <= cap
    <3>1. n <= cap
      BY <1>6, Zenon DEF cap
    <3> QED
      BY <1>3, <1>6, <1>7, <1>12, <3>1, SMT
  <2>2. out.size + (Len(head) + Len(ERROR)) <= out.capacity
    BY <1>2, <1>4, <2>1, Zenon DEF cap, h
  <2> QED
    BY <1>2, <1>4, <1>5, <1>11, <2>2, AppendsText, Zenon
<1> HIDE DEF word
<1>14. head \o ERROR \in Seq(Char) /\ Len(head \o ERROR) = Len(head) + Len(ERROR)
  BY <1>4, <1>5, Joined, Zenon
<1>15. /\ Appended(out, (head \o ERROR) \o text, r)
       /\ Runs(word) /\ out.size + (Len(head \o ERROR) + length) <= out.capacity => Runs(r)
  BY <1>2, <1>3, <1>13, <1>14, AppendsPlain, Zenon DEF text, length
<1> HIDE DEF r
<1>16. ASSUME length <= s \/ h = 0
       PROVE  Runs(r)
  <2>1. 0 + ((h + 6) + length) <= cap
    <3>1. n <= cap
      BY <1>6, Zenon DEF cap
    <3> QED
      BY <1>3, <1>6, <1>7, <1>12, <1>16, <3>1, SMT
  <2>2. Len(head \o ERROR) = h + 6
    BY <1>4, <1>14, Zenon DEF h
  <2>3. out.size + (Len(head \o ERROR) + length) <= out.capacity
    BY <1>2, <2>1, <2>2, Zenon DEF cap
  <2> QED
    BY <1>13, <1>15, <2>3, Zenon
<1>17. ASSUME ~Runs(r)
       PROVE  CodeFails(code)
  <2>1. s < length
    <3>1. ~(length <= s)
      BY <1>16, <1>17, Zenon
    <3> QED
      BY <1>3, <3>1, SMT
  <2> QED
    BY <1>3, <2>1, Zenon DEF CodeFails
<1>18. (head \o ERROR) \o text \in Seq(Char)
  <2>1. text \in Seq(Char)
    BY <1>3, PlainText, Zenon DEF text
  <2> QED
    BY <1>14, <2>1, Joined, Zenon
<1>19. Fits(r) /\ r.faults = out.faults
  BY <1>15, Zenon DEF Appended, From
<1>20. Runs(r) => Content(Leave(r)) = (head \o ERROR) \o text
  BY <1>2, <1>15, <1>18, AppendedContent, Zenon
<1> QED
  BY <1>1, <1>2, <1>5, <1>17, <1>19, <1>20, Zenon

\* The system's text, or the code: an exception is thrown for some codes only.
LEMMA SystemErrorWritten ==
  ASSUME NEW m, Fits(m), m.size = 0, NEW code \in Codes, NEW message \in Seq(Char), NEW text \in Seq(Char)
  PROVE  LET r == FormatSystemError(m, code, message, text)
         IN  /\ Fits(r) /\ r.faults = m.faults
             /\ Runs(r) => \/ Content(Leave(r)) = (message \o SEP) \o text
                           \/ Content(Leave(r)) = CodeText(code, message)
             /\ ~Runs(r) => CodeFails(code)
<1> DEFINE begun == [Enter(NewBuffer, m.heap) EXCEPT !.avail = m.avail]
           first == Resize(begun, INLINE_BUFFER_SIZE)
           room == RoomFor(text, first)
           m2 == [m EXCEPT !.heap = room.heap, !.error = room.error]
           named == AppendChars(AppendChars(m2, message), SEP)
           said == AppendChars(named, text)
           done == [said EXCEPT !.heap = Freed(room, said.heap)]
           code_ == FormatErrorCode(done, code, message)
           r == FormatSystemError(m, code, message, text)
<1>1. r = IF done.error = "" THEN done ELSE code_
  BY Zenon DEF FormatSystemError, Named
<1> HIDE DEF room, r
<1>2. /\ DOMAIN m2 = Fields /\ m2.size = m.size /\ m2.capacity = m.capacity /\ m2.cells = m.cells
      /\ m2.ptr = m.ptr /\ m2.gen = m.gen /\ m2.avail = m.avail /\ m2.faults = m.faults
  BY Zenon DEF Fits, Fields
<1> HIDE DEF m2
<1>3. Fits(m2)
  BY <1>2, Zenon DEF Fits
<1>4. SEP \in Seq(Char)
  BY ErrorWords, Zenon
<1>5. Appended(m2, message, AppendChars(m2, message))
  BY <1>3, AppendCharsAppended, Zenon
<1>6. Appended(m2, message \o SEP, named)
  BY <1>3, <1>4, <1>5, AppendsText, Zenon
<1>7. message \o SEP \in Seq(Char)
  BY <1>4, Joined, Zenon
<1> HIDE DEF named
<1>8. Appended(m2, (message \o SEP) \o text, said)
  BY <1>3, <1>6, <1>7, AppendsText, Zenon
<1>9. (message \o SEP) \o text \in Seq(Char)
  BY <1>7, Joined, Zenon
<1> HIDE DEF said
<1>10. Fits(said) /\ said.faults = m2.faults
  BY <1>8, Zenon DEF Appended, From
<1>11. /\ DOMAIN done = Fields /\ done.size = said.size /\ done.capacity = said.capacity
       /\ done.cells = said.cells /\ done.ptr = said.ptr /\ done.gen = said.gen
       /\ done.avail = said.avail /\ done.faults = said.faults /\ done.error = said.error
  BY <1>10, Zenon DEF Fits, Fields
<1> HIDE DEF done
<1>12. Fits(done)
  BY <1>10, <1>11, Zenon DEF Fits
<1>13. Leave(done) = Leave(said)
  <2>1. \A i : Cell(done, i) = Cell(said, i)
    BY <1>11, Zenon DEF Cell
  <2>2. [i \in DOMAIN done.cells |-> IF i < done.size THEN Cell(done, i) ELSE JUNK]
          = [i \in DOMAIN said.cells |-> IF i < said.size THEN Cell(said, i) ELSE JUNK]
    BY <1>11, <2>1, Zenon
  <2> QED
    BY <1>11, <2>2, Zenon DEF Leave
<1>14. CASE Runs(done)
  <2>1. r = done
    BY <1>1, <1>14, Zenon DEF Runs
  <2>2. Runs(said)
    BY <1>11, <1>14, Zenon DEF Runs
  <2>3. m2.size = 0
    BY <1>2, Zenon
  <2>4. Content(Leave(said)) = (message \o SEP) \o text
    BY <1>8, <1>9, <2>2, <2>3, AppendedContent, Zenon
  <2> QED
    BY <1>2, <1>10, <1>11, <1>12, <1>13, <1>14, <2>1, <2>4, Zenon DEF r
<1>15. CASE ~Runs(done)
  <2>1. r = code_
    BY <1>1, <1>15, Zenon DEF Runs
  <2>2. /\ Fits(code_) /\ code_.faults = done.faults
        /\ Runs(code_) => Content(Leave(code_)) = CodeText(code, message)
        /\ ~Runs(code_) => CodeFails(code)
    BY <1>12, ErrorCodeWritten, Zenon
  <2> HIDE DEF code_
  <2> QED
    BY <1>2, <1>10, <1>11, <2>1, <2>2, Zenon DEF r
<1> QED
  BY <1>14, <1>15, Zenon

-----------------------------------------------------------------------------
(* The text of a writer, call by call                                      *)

\* The two known kinds of statement look at the size and the capacity alone.
LEMMA LosesSame ==
  ASSUME NEW b, NEW m, m.size = b.size, m.capacity = b.capacity, NEW st
  PROVE  (LosesNumber(m, st) <=> LosesNumber(b, st)) /\ (WritesFreed(m, st) <=> WritesFreed(b, st))
<1>1. \A n : FitsIn(m.size, n, m) <=> FitsIn(b.size, n, b)
  BY Zenon DEF FitsIn
<1>2. LosesNumber(m, st) <=> LosesNumber(b, st)
  BY <1>1, Zenon DEF LosesNumber
<1>3. WritesFreed(m, st) <=> WritesFreed(b, st)
  BY Zenon DEF WritesFreed
<1> QED
  BY <1>2, <1>3, Zenon

\* The whole content is the content.
LEMMA ContentSelf ==
  ASSUME NEW b, IsBuffer(b)
  PROVE  b.size <= b.size /\ SubSeq(Content(b), 1, b.size) = Content(b)
<1> DEFINE c == Content(b)
           n == b.size
           sub == SubSeq(c, 1, n)
<1>1. c \in Seq(Char) /\ Len(c) = n
  BY BufferContent, Zenon
<1>2. n \in Nat
  BY Zenon DEF IsBuffer
<1> HIDE DEF c, n
<1>3. sub \in Seq(Char) /\ Len(sub) = n /\ \A i \in 1..n : sub[i] = c[i]
  BY <1>1, <1>2
<1> HIDE DEF sub
<1>4. sub = c
  <2>1. Len(sub) = Len(c) /\ \A i \in 1..Len(sub) : sub[i] = c[i]
    BY <1>1, <1>3, Zenon
  <2> QED
    BY <1>1, <1>3, <2>1, SeqEqual, Zenon
<1>5. n <= n
  BY <1>2
<1> QED
  BY <1>4, <1>5, Zenon DEF sub, c, n

\* c_str() stores one cell behind the text.
LEMMA CStrWritten ==
  ASSUME NEW e, Fits(e)
  PROVE  LET r == Reserve(e, e.size + 1)
             m == Put(r, Pointer(r, r.size), <<NUL>>)
         IN  From(e, m) /\ m.size = e.size /\ m.faults = e.faults
<1> DEFINE n == e.size + 1
           r == Reserve(e, n)
           p == Pointer(r, r.size)
           s == <<NUL>>
           m == Put(r, p, s)
<1>1. n \in Nat /\ e.size \in Nat
  BY SizeIsNat
<1>2. s \in Seq(Char) /\ Len(s) = 1
  <2> DEFINE c == NUL
  <2>1. c \in Char
    BY MarksAreChars, Zenon
  <2> HIDE DEF c
  <2>2. <<c>> \in Seq(Char) /\ Len(<<c>>) = 1
    BY <2>1
  <2> QED
    BY <2>2, Zenon DEF c
<1>3. p.off = r.size /\ p.gen = r.gen
  BY PointerFields, Zenon
<1> HIDE DEF s, p
<1>4. CASE Runs(e)
  <2> HIDE DEF n
  <2>1. Fits(r) /\ r.faults = e.faults /\ r.size = e.size /\ (Runs(r) => n <= r.capacity) /\ From(e, r)
    BY <1>1, <1>4, ReserveCells, Zenon
  <2> HIDE DEF r
  <2>2. From(e, m)
    <3>1. p.off \in Int /\ e.size <= p.off
      <4>1. p.off = e.size
        BY <1>3, <2>1, Zenon
      <4> QED
        BY <1>1, <4>1
    <3> QED
      BY <1>2, <2>1, <3>1, PutFrom, Zenon
  <2>3. CASE Runs(r)
    <3>1. e.size + 1 <= r.capacity
      BY <2>1, <2>3, Zenon DEF n
    <3>2. r.size \in Nat /\ r.size + 1 <= r.capacity /\ 1 \in Nat
      BY <1>1, <2>1, <3>1, Zenon
    <3>3. m.size = r.size /\ m.faults = r.faults
      BY <1>2, <1>3, <2>1, <2>3, <3>2, StoreIn, Zenon
    <3> QED
      BY <2>1, <2>2, <3>3, Zenon DEF r, n, p, s
  <2>4. CASE ~Runs(r)
    <3>1. m = r
      BY <2>4, PutIdle, Zenon
    <3> QED
      BY <2>1, <2>2, <3>1, Zenon DEF r, n, p, s
  <2> QED
    BY <2>3, <2>4, Zenon
<1>5. CASE ~Runs(e)
  <2>1. r = e
    BY <1>5, Zenon DEF Reserve, Runs
  <2> HIDE DEF r
  <2>2. m = e
    BY <1>5, <2>1, PutIdle, Zenon
  <2> HIDE DEF m
  <2>3. From(e, e)
    BY FromSelf, Zenon
  <2> QED
    BY <2>2, <2>3, Zenon DEF m, r, n, p, s
<1> QED
  BY <1>4, <1>5, Zenon

\* A buffer of no size has the empty text.
LEMMA ClearedGood ==
  ASSUME NEW b, IsBuffer(b), NEW h
  PROVE  LET m == Cleared(Enter(b, h)) IN Good(Leave(m), <<>>, FALSE)
<1> DEFINE e == Enter(b, h)
           out == [e EXCEPT !.size = 0]
           c == Content(Leave(out))
<1>1. Fits(e) /\ Runs(e)
  BY EnterFits, Zenon DEF Entered
<1> HIDE DEF e
<1>2. Cleared(e) = out
  BY <1>1, Zenon DEF Cleared, Runs
<1>3. 0 \in Nat /\ 0 <= e.capacity
  BY <1>1, SizeIsNat
<1>4. Fits(out) /\ out.size = 0
  BY <1>1, <1>3, SizeCells, Zenon
<1> HIDE DEF out
<1>5. Good(Leave(out), c, FALSE)
  BY <1>4, ThrownGood, Zenon
<1>6. c \in Seq(Char) /\ Len(c) = 0
  BY <1>4, LeaveIsBuffer, Zenon
<1> HIDE DEF c
<1>7. c = <<>>
  BY <1>6
<1> QED
  BY <1>2, <1>5, <1>7, Zenon DEF e

\* A new buffer has the empty text.
LEMMA NewGood == Good(NewBuffer, <<>>, FALSE)
<1>1. /\ IsBuffer(NewBuffer) /\ NewBuffer.size = 0 /\ Content(NewBuffer) = <<>>
  BY NewIsBuffer, Zenon
<1>2. <<>> \in Seq(Char) /\ Len(<<>>) = 0
  BY EmptyText, Zenon
<1> HIDE DEF NewBuffer
<1> QED
  BY <1>1, <1>2, Zenon DEF Good

\* The text moves with the storage or is copied.
LEMMA MovedGood ==
  ASSUME NEW b, NEW t, NEW gone, Good(b, t, gone), DOMAIN b = BufferFields
  PROVE  /\ Good(MovedTo(b), t, gone)
         /\ MovedFrom(b).size = b.size /\ MovedFrom(b).capacity = b.capacity
<1> DEFINE a == MovedTo(b)
           size == b.size
           n == b.capacity
           cells == b.cells
           copy == [i \in 0..(INLINE_BUFFER_SIZE - 1) |-> IF i < size THEN cells[i] ELSE JUNK]
           moved == IF b.ptr = data_ THEN copy ELSE cells
<1>1. IsBuffer(b) /\ t \in Seq(Char) /\ Len(t) = b.size /\ (Content(b) = t <=> ~gone)
  BY Zenon DEF Good
<1>2. /\ size \in Nat /\ n \in Nat /\ size <= n /\ INLINE_BUFFER_SIZE <= n
      /\ cells \in [0..(n - 1) -> Char] /\ (b.ptr = data_ => n = INLINE_BUFFER_SIZE)
  BY <1>1, Zenon DEF IsBuffer
<1>3. \A i \in size..(n - 1) : cells[i] = JUNK
  BY <1>1, Zenon DEF IsBuffer, Blank
<1>4. a.size = size /\ a.capacity = n /\ a.ptr = b.ptr /\ a.cells = moved
  BY Zenon DEF MovedTo, BufferFields
<1>5. MovedFrom(b).size = b.size /\ MovedFrom(b).capacity = b.capacity
  BY Zenon DEF MovedFrom, BufferFields
<1> HIDE DEF a, size, n, cells
<1>6. moved = cells
  <2>1. CASE b.ptr = data_
    <3> DEFINE f == [i \in 0..(n - 1) |-> IF i < size THEN cells[i] ELSE JUNK]
    <3>1. moved = f
      BY <1>2, <2>1, Zenon
    <3>2. ASSUME NEW i \in 0..(n - 1)
          PROVE  f[i] = cells[i]
      <4>1. CASE i < size
        BY <4>1, Zenon
      <4>2. CASE ~(i < size)
        <5>1. i \in size..(n - 1)
          BY <1>2, <4>2
        <5> QED
          BY <1>3, <4>2, <5>1, Zenon
      <4> QED
        BY <4>1, <4>2, Zenon
    <3>3. f = cells
      BY <1>2, <3>2
    <3> QED
      BY <3>1, <3>3, Zenon
  <2>2. CASE b.ptr # data_
    BY <2>2, Zenon
  <2> QED
    BY <2>1, <2>2, Zenon
<1> HIDE DEF moved
<1>7. a.size = b.size /\ a.capacity = b.capacity /\ a.ptr = b.ptr /\ a.cells = b.cells
  BY <1>4, <1>6, Zenon DEF size, n, cells
<1>8. IsBuffer(a)
  <2>1. Blank(b)
    BY <1>1, Zenon DEF IsBuffer
  <2>2. Blank(a)
    BY <1>7, <2>1, Zenon DEF Blank
  <2> QED
    BY <1>1, <1>7, <2>2, Zenon DEF IsBuffer
<1>9. Content(a) = Content(b)
  <2>1. \A i : Cell(a, i) = Cell(b, i)
    BY <1>7, Zenon DEF Cell
  <2> QED
    BY <1>7, <2>1, Zenon DEF Content
<1> QED
  BY <1>1, <1>5, <1>7, <1>8, <1>9, Zenon DEF Good, a

-----------------------------------------------------------------------------
(* The texts of the writers                                                *)

\* A writer in use holds the text it should, or is known not to.
Texts ==
  /\ want = [w \in Writers |-> want[w]] /\ lost = [w \in Writers |-> lost[w]]
  /\ calls \in 0..MaxCalls
  /\ \A w \in Writers : /\ buf[w].size \in Nat /\ buf[w].capacity \in Nat
                        /\ status[w] = "live" => Good(buf[w], want[w], lost[w])

TInv == IInv /\ Texts /\ OnlyKnownFaults /\ ErrorsAreDescribed

\* The content of b is where it was, at the beginning of that of d.
KeptIn(b, d) == b.size <= d.size /\ SubSeq(Content(d), 1, b.size) = Content(b)

\* What no step that throws does to a writer.
KeepsTexts == last'.error # "" => \A w \in Writers : status[w] = "live" => KeptIn(buf[w], buf'[w])

\* A call on one writer leaves the texts of the others alone.
LEMMA OneText ==
  ASSUME IInv, Texts, NEW w \in Writers, NEW b, NEW t, NEW gone,
         buf' = [buf EXCEPT ![w] = b], want' = [want EXCEPT ![w] = t],
         lost' = [lost EXCEPT ![w] = gone],
         \A u \in Writers : u # w => status'[u] = status[u],
         b.size \in Nat, b.capacity \in Nat, status'[w] = "live" => Good(b, t, gone),
         calls' \in 0..MaxCalls
  PROVE  Texts'
<1>1. buf = [u \in Writers |-> buf[u]]
  BY Zenon DEF IInv, Owned
<1>2. /\ want = [u \in Writers |-> want[u]] /\ lost = [u \in Writers |-> lost[u]]
      /\ \A u \in Writers : /\ buf[u].size \in Nat /\ buf[u].capacity \in Nat
                            /\ status[u] = "live" => Good(buf[u], want[u], lost[u])
  BY Zenon DEF Texts
<1>3. /\ buf'[w] = b /\ want'[w] = t /\ lost'[w] = gone
      /\ \A u \in Writers : u # w => buf'[u] = buf[u] /\ want'[u] = want[u] /\ lost'[u] = lost[u]
  BY <1>1, <1>2, Zenon
<1>4. want' = [u \in Writers |-> want'[u]] /\ lost' = [u \in Writers |-> lost'[u]]
  BY <1>2
<1>5. ASSUME NEW u \in Writers
      PROVE  /\ buf'[u].size \in Nat /\ buf'[u].capacity \in Nat
             /\ status'[u] = "live" => Good(buf'[u], want'[u], lost'[u])
  <2>1. CASE u = w
    BY <1>3, <2>1, Zenon
  <2>2. CASE u # w
    BY <1>2, <1>3, <2>2, Zenon
  <2> QED
    BY <2>1, <2>2, Zenon
<1> QED
  BY <1>4, <1>5, Zenon DEF Texts

\* The count of the calls has a bound.
LEMMA CallsBound ==
  ASSUME calls \in 0..MaxCalls, calls' = calls \/ Count
  PROVE  calls' \in 0..MaxCalls
BY CallAssumption DEF Count, More

\* A call that goes on from the content of a writer keeps what it finds.
LEMMA OneKept ==
  ASSUME IInv, Texts, NEW w \in Writers, NEW d, buf' = [buf EXCEPT ![w] = d],
         status[w] = "live" => KeptIn(buf[w], d)
  PROVE  KeepsTexts
<1>1. \A u \in Writers : status[u] = "live" => KeptIn(buf[u], buf[u])
  <2>1. \A u \in Writers : status[u] = "live" => IsBuffer(buf[u])
    BY Zenon DEF Texts, Good
  <2>2. \A b : IsBuffer(b) => KeptIn(b, b)
    BY ContentSelf, Zenon DEF KeptIn
  <2> QED
    BY <2>1, <2>2, Zenon
<1>2. buf = [u \in Writers |-> buf[u]]
  BY Zenon DEF IInv, Owned
<1>3. buf'[w] = d /\ \A u \in Writers : u # w => buf'[u] = buf[u]
  BY <1>2, Zenon
<1> QED
  BY <1>1, <1>3, Zenon DEF KeepsTexts

\* How a call went that throws nothing and goes wrong nowhere.
LEMMA QuietCall ==
  ASSUME NEW op, op # "describe", last' = Call(op)
  PROVE  OnlyKnownFaults' /\ ErrorsAreDescribed' /\ KeepsTexts
<1>1. last'.error = "" /\ last'.faults = {} /\ last'.stale = FALSE
  BY Zenon DEF Call
<1> QED
  BY <1>1, Zenon DEF OnlyKnownFaults, ErrorsAreDescribed, KeepsTexts

\* What one call shows: its texts, its faults and its exception.
Shows == Texts' /\ OnlyKnownFaults' /\ ErrorsAreDescribed' /\ KeepsTexts

\* A statement appends what is wanted, or is known to go wrong, or throws and leaves
\* what was there.
LEMMA InsertShows ==
  ASSUME TInv, NEW w \in Writers, NEW st \in Statements, Insert(w, st)
  PROVE  Shows
<1> DEFINE b == buf[w]
           e == Enter(b, heap)
           m == Write(e, st)
           freed == WritesFreed(b, st)
           loses == LosesNumber(b, st)
           threw == m.error # ""
           d == Leave(m)
           t == IF threw THEN Content(d) ELSE want[w] \o Wanted(st)
           gone == ~threw /\ (lost[w] \/ loses \/ freed)
<1>1. /\ Count /\ status[w] = "live" /\ status' = status
      /\ buf' = [buf EXCEPT ![w] = d]
      /\ want' = [want EXCEPT ![w] = t] /\ lost' = [lost EXCEPT ![w] = gone]
      /\ last' = [Call("insert") EXCEPT !.error = m.error, !.faults = m.faults,
                     !.stale = ~threw /\ freed]
  BY Zenon DEF Insert
<1>2. last'.op = "insert" /\ last'.error = m.error /\ last'.faults = m.faults /\ last'.stale = (~threw /\ freed)
  BY <1>1, Zenon DEF Call
<1>3. IInv /\ Texts /\ calls \in 0..MaxCalls /\ Good(b, want[w], lost[w])
  BY <1>1, Zenon DEF TInv, Texts
<1>4. IsBuffer(b)
  BY <1>3, Zenon DEF Good
<1>5. Entered(b, heap, e)
  BY <1>4, EnterFits, Zenon
<1>6. Fits(e) /\ e.size = b.size /\ e.capacity = b.capacity /\ e.faults = {}
  BY <1>5, Zenon DEF Entered
<1>7. IsStatement(st)
  BY ProgramStatement, Zenon
<1> HIDE DEF b
<1>8. (LosesNumber(e, st) <=> loses) /\ (WritesFreed(e, st) <=> freed)
  <2> HIDE DEF e
  <2> QED
    BY <1>6, LosesSame, Zenon
<1>9. Written(e, Wanted(st), WritesFreed(e, st), LosesNumber(e, st), m)
  BY <1>6, <1>7, StatementWritten, Zenon
<1>10. From(e, m)
  BY <1>9, Zenon DEF Written
<1>11. Fits(m)
  BY <1>10, FromFits, Zenon
<1> HIDE DEF loses, freed
<1>12. m.faults # {} <=> ~threw /\ freed
  <2>1. /\ ~Runs(m) => m.faults = e.faults
        /\ Runs(m) /\ ~WritesFreed(e, st) => m.faults = e.faults
        /\ Runs(m) /\ WritesFreed(e, st) => m.faults # {}
    BY <1>9, Zenon DEF Written
  <2> HIDE DEF e, m
  <2> QED
    BY <1>6, <1>8, <2>1, Zenon DEF Runs
<1>13. KeptIn(b, d)
  BY <1>4, <1>10, FromPrefix, Zenon DEF KeptIn
<1> HIDE DEF m
<1>14. Good(d, t, gone)
  <2>1. CASE threw
    <3>1. t = Content(d)
      BY <2>1, Zenon
    <3>2. Good(d, Content(d), FALSE)
      BY <1>11, ThrownGood, Zenon
    <3>3. ~gone
      BY <2>1, Zenon
    <3> HIDE DEF d, t, gone
    <3> QED
      BY <3>1, <3>2, <3>3, Zenon DEF Good
  <2>2. CASE ~threw
    <3>1. t = want[w] \o Wanted(st)
      BY <2>2, Zenon
    <3>2. Runs(m)
      BY <2>2, Zenon DEF Runs
    <3>3. gone <=> lost[w] \/ LosesNumber(e, st) \/ WritesFreed(e, st)
      BY <1>8, <2>2, Zenon
    <3> HIDE DEF t, gone
    <3>4. Good(d, want[w] \o Wanted(st), gone)
      BY <1>3, <1>9, <3>2, <3>3, WrittenGood, SMT
    <3> QED
      BY <3>1, <3>4, Zenon
  <2> QED
    BY <2>1, <2>2, Zenon
<1> HIDE DEF t, gone, threw
<1>15. d.size \in Nat /\ d.capacity \in Nat
  BY <1>14, Zenon DEF Good, IsBuffer
<1> HIDE DEF d
<1>16. Texts'
  <2>1. \A u \in Writers : u # w => status'[u] = status[u]
    BY <1>1, Zenon
  <2>2. calls' \in 0..MaxCalls
    BY <1>1, <1>3, CallsBound, Zenon
  <2> QED
    BY <1>1, <1>3, <1>14, <1>15, <2>1, <2>2, OneText, Zenon
<1>17. OnlyKnownFaults'
  BY <1>2, <1>12, Zenon DEF OnlyKnownFaults
<1>18. ErrorsAreDescribed'
  <2>1. "insert" # "describe"
    OBVIOUS
  <2> QED
    BY <1>2, <2>1, Zenon DEF ErrorsAreDescribed
<1>19. KeepsTexts
  BY <1>1, <1>3, <1>13, OneKept, Zenon DEF b
<1> QED
  BY <1>16, <1>17, <1>18, <1>19, Zenon DEF Shows

\* c_str() keeps the text.
LEMMA CStrShows ==
  ASSUME TInv, NEW w \in Writers, CStr(w)
  PROVE  Shows
<1> DEFINE b == buf[w]
           e == Enter(b, heap)
           r == Reserve(e, b.size + 1)
           m == Put(r, Pointer(r, r.size), <<NUL>>)
           d == Leave(m)
<1>1. /\ Count /\ status[w] = "live" /\ status' = status /\ want' = want /\ lost' = lost
      /\ buf' = [buf EXCEPT ![w] = d]
      /\ last' = [Call("c_str") EXCEPT !.error = m.error, !.faults = m.faults]
  BY Zenon DEF CStr
<1>2. last'.op = "c_str" /\ last'.error = m.error /\ last'.faults = m.faults /\ last'.stale = FALSE
  BY <1>1, Zenon DEF Call
<1>3. IInv /\ Texts /\ calls \in 0..MaxCalls /\ Good(b, want[w], lost[w])
  BY <1>1, Zenon DEF TInv, Texts
<1>4. IsBuffer(b)
  BY <1>3, Zenon DEF Good
<1>5. Entered(b, heap, e)
  BY <1>4, EnterFits, Zenon
<1>6. Fits(e) /\ e.size = b.size /\ e.faults = {}
  BY <1>5, Zenon DEF Entered
<1> HIDE DEF b
<1>7. From(e, m) /\ m.size = e.size /\ m.faults = e.faults
  <2> HIDE DEF e
  <2> QED
    BY <1>6, CStrWritten, Zenon
<1>8. KeptIn(b, d)
  BY <1>4, <1>7, FromPrefix, Zenon DEF KeptIn
<1>9. m.size = b.size
  <2> HIDE DEF m, e
  <2> QED
    BY <1>6, <1>7, Zenon
<1>10. Good(d, want[w], lost[w])
  <2> HIDE DEF m
  <2> QED
    BY <1>3, <1>7, <1>9, SameGood, Zenon
<1>11. m.faults = {}
  <2> HIDE DEF m, e
  <2> QED
    BY <1>6, <1>7, Zenon
<1> HIDE DEF m
<1>12. d.size \in Nat /\ d.capacity \in Nat
  BY <1>10, Zenon DEF Good, IsBuffer
<1> HIDE DEF d
<1>13. want' = [want EXCEPT ![w] = want[w]] /\ lost' = [lost EXCEPT ![w] = lost[w]]
  BY <1>1, <1>3 DEF Texts
<1>14. Texts'
  <2>1. \A u \in Writers : u # w => status'[u] = status[u]
    BY <1>1, Zenon
  <2>2. calls' \in 0..MaxCalls
    BY <1>1, <1>3, CallsBound, Zenon
  <2> QED
    BY <1>1, <1>3, <1>10, <1>12, <1>13, <2>1, <2>2, OneText, Zenon
<1>15. OnlyKnownFaults'
  BY <1>2, <1>11, Zenon DEF OnlyKnownFaults
<1>16. ErrorsAreDescribed'
  <2>1. "c_str" # "describe"
    OBVIOUS
  <2> QED
    BY <1>2, <2>1, Zenon DEF ErrorsAreDescribed
<1>17. KeepsTexts
  BY <1>1, <1>3, <1>8, OneKept, Zenon DEF b
<1> QED
  BY <1>14, <1>15, <1>16, <1>17, Zenon DEF Shows

\* A writer begins with the empty text, and is left without one.
LEMMA EmptyShows ==
  ASSUME TInv, NEW w \in Writers, Construct(w) \/ Clear(w) \/ Destroy(w)
  PROVE  Shows
<1>1. IInv /\ Texts /\ calls \in 0..MaxCalls
  BY Zenon DEF TInv, Texts
<1>2. PICK d, op : /\ buf' = [buf EXCEPT ![w] = d] /\ Good(d, <<>>, FALSE)
                   /\ last' = Call(op) /\ op # "describe"
  <2>1. Good(NewBuffer, <<>>, FALSE)
    BY NewGood, Zenon
  <2>2. "construct" # "describe" /\ "clear" # "describe" /\ "destroy" # "describe"
    OBVIOUS
  <2>3. CASE Construct(w)
    <3>1. buf' = [buf EXCEPT ![w] = NewBuffer] /\ last' = Call("construct")
      BY <2>3, Zenon DEF Construct
    <3> QED
      BY <2>1, <2>2, <3>1, Zenon
  <2>4. CASE Destroy(w)
    <3>1. buf' = [buf EXCEPT ![w] = NewBuffer] /\ last' = Call("destroy")
      BY <2>4, Zenon DEF Destroy
    <3> QED
      BY <2>1, <2>2, <3>1, Zenon
  <2>5. CASE Clear(w)
    <3> DEFINE d == Leave(Cleared(Enter(buf[w], heap)))
    <3>1. buf' = [buf EXCEPT ![w] = d] /\ last' = Call("clear") /\ status[w] = "live"
      BY <2>5, Zenon DEF Clear
    <3>2. IsBuffer(buf[w])
      BY <1>1, <3>1, Zenon DEF Texts, Good
    <3>3. Good(d, <<>>, FALSE)
      BY <3>2, ClearedGood, Zenon
    <3> HIDE DEF d
    <3> QED
      BY <2>2, <3>1, <3>3, Zenon
  <2> QED
    BY <2>3, <2>4, <2>5, Zenon
<1>3. /\ want' = [want EXCEPT ![w] = <<>>] /\ lost' = [lost EXCEPT ![w] = FALSE] /\ calls' = calls
      /\ \A u \in Writers : u # w => status'[u] = status[u]
  <2>1. status \in [Writers -> {"none", "live", "moved"}]
    BY <1>1, Zenon DEF IInv, Owned
  <2>2. CASE Construct(w)
    BY <2>1, <2>2, Zenon DEF Construct
  <2>3. CASE Clear(w)
    BY <2>1, <2>3, Zenon DEF Clear
  <2>4. CASE Destroy(w)
    BY <2>1, <2>4, Zenon DEF Destroy
  <2> QED
    BY <2>2, <2>3, <2>4, Zenon
<1>4. d.size \in Nat /\ d.capacity \in Nat
  BY <1>2, Zenon DEF Good, IsBuffer
<1>5. calls' \in 0..MaxCalls
  BY <1>1, <1>3, CallsBound, Zenon
<1>6. Texts'
  BY <1>1, <1>2, <1>3, <1>4, <1>5, OneText, Zenon
<1>7. OnlyKnownFaults' /\ ErrorsAreDescribed' /\ KeepsTexts
  BY <1>2, QuietCall, Zenon
<1> QED
  BY <1>6, <1>7, Zenon DEF Shows

\* A move takes the text along.
LEMMA MoveShows ==
  ASSUME TInv, NEW w \in Writers, NEW v \in Writers, Move(w, v)
  PROVE  Shows
<1> DEFINE a == MovedTo(buf[v])
           d == MovedFrom(buf[v])
<1>1. /\ Count /\ w # v /\ status[v] = "live"
      /\ buf' = [buf EXCEPT ![w] = a, ![v] = d]
      /\ status' = [status EXCEPT ![w] = "live", ![v] = "moved"]
      /\ want' = [want EXCEPT ![w] = want[v], ![v] = <<>>]
      /\ lost' = [lost EXCEPT ![w] = lost[v], ![v] = FALSE]
      /\ last' = Call("move")
  BY Zenon DEF Move
<1>2. /\ calls \in 0..MaxCalls /\ Good(buf[v], want[v], lost[v]) /\ DOMAIN buf[v] = BufferFields
      /\ buf = [u \in Writers |-> buf[u]] /\ status \in [Writers -> {"none", "live", "moved"}]
      /\ want = [u \in Writers |-> want[u]] /\ lost = [u \in Writers |-> lost[u]]
      /\ \A u \in Writers : /\ buf[u].size \in Nat /\ buf[u].capacity \in Nat
                            /\ status[u] = "live" => Good(buf[u], want[u], lost[u])
  BY <1>1, Zenon DEF TInv, Texts, IInv, Owned
<1>3. Good(a, want[v], lost[v]) /\ d.size = buf[v].size /\ d.capacity = buf[v].capacity
  BY <1>2, MovedGood, Zenon
<1> HIDE DEF a, d
<1>4. a.size \in Nat /\ a.capacity \in Nat /\ d.size \in Nat /\ d.capacity \in Nat
  BY <1>2, <1>3, Zenon DEF Good, IsBuffer
<1>5. status = [u \in Writers |-> status[u]]
  BY <1>2
<1>6. /\ buf'[w] = a /\ want'[w] = want[v] /\ lost'[w] = lost[v]
      /\ buf'[v] = d /\ status'[v] = "moved"
      /\ \A u \in Writers : u # w /\ u # v =>
           buf'[u] = buf[u] /\ want'[u] = want[u] /\ lost'[u] = lost[u] /\ status'[u] = status[u]
  BY <1>1, <1>2, <1>5, Zenon
<1>7. want' = [u \in Writers |-> want'[u]] /\ lost' = [u \in Writers |-> lost'[u]]
  BY <1>1, <1>2
<1>8. ASSUME NEW u \in Writers
      PROVE  /\ buf'[u].size \in Nat /\ buf'[u].capacity \in Nat
             /\ status'[u] = "live" => Good(buf'[u], want'[u], lost'[u])
  <2>1. CASE u = w
    BY <1>3, <1>4, <1>6, <2>1, Zenon
  <2>2. CASE u = v
    <3>1. "moved" # "live"
      OBVIOUS
    <3> QED
      BY <1>4, <1>6, <2>2, <3>1, Zenon
  <2>3. CASE u # w /\ u # v
    BY <1>2, <1>6, <2>3, Zenon
  <2> QED
    BY <2>1, <2>2, <2>3, Zenon
<1>9. calls' \in 0..MaxCalls
  BY <1>1, <1>2, CallsBound, Zenon
<1>10. Texts'
  BY <1>7, <1>8, <1>9, Zenon DEF Texts
<1>11. OnlyKnownFaults' /\ ErrorsAreDescribed' /\ KeepsTexts
  <2>1. "move" # "describe"
    OBVIOUS
  <2> QED
    BY <1>1, <2>1, QuietCall, Zenon
<1> QED
  BY <1>10, <1>11, Zenon DEF Shows

\* The description of an error, or the code that stands for it, is all a new writer holds.
LEMMA DescribeShows ==
  ASSUME TInv, NEW w \in Writers, NEW code \in Codes, NEW message \in Messages,
         NEW text \in Descriptions, NEW avail \in {Blocks, {}},
         DescribeError(w, code, message, text, avail)
  PROVE  Shows
<1> DEFINE e == [Enter(NewBuffer, heap) EXCEPT !.avail = avail]
           m == FormatSystemError(e, code, message, text)
           d == Leave(m)
           said == (message \o SEP) \o text
           coded == Content(d) # said
           t == IF m.error # "" THEN Content(d)
                ELSE IF coded THEN CodeText(code, message) ELSE said
           code_ == IF m.error = "" THEN 0 ELSE code
<1>1. /\ Count /\ status[w] = "none" /\ status' = [status EXCEPT ![w] = "live"]
      /\ buf' = [buf EXCEPT ![w] = d]
      /\ want' = [want EXCEPT ![w] = t] /\ lost' = [lost EXCEPT ![w] = FALSE]
      /\ last' = [Call("describe") EXCEPT !.error = m.error, !.faults = m.faults, !.code = code_]
  BY Zenon DEF DescribeError
<1>2. /\ last'.op = "describe" /\ last'.error = m.error /\ last'.faults = m.faults
      /\ last'.stale = FALSE /\ last'.code = code_
  BY <1>1, Zenon DEF Call
<1>3. IInv /\ Texts /\ calls \in 0..MaxCalls /\ status \in [Writers -> {"none", "live", "moved"}]
  BY Zenon DEF TInv, Texts, IInv, Owned
<1>4. message \in Seq(Char) /\ text \in Seq(Char)
  <2>1. message \in Seq(STRING) /\ text \in Seq(STRING)
    BY ErrorAssumption, Zenon
  <2> QED
    BY <2>1 DEF Char
<1>5. Fits(e) /\ e.size = 0 /\ e.faults = {}
  <2> DEFINE f == Enter(NewBuffer, heap)
  <2>1. Entered(NewBuffer, heap, f) /\ NewBuffer.size = 0
    BY NewIsBuffer, EnterFits, Zenon
  <2> HIDE DEF f
  <2>2. Fits(f) /\ f.size = 0 /\ f.faults = {}
    BY <2>1, Zenon DEF Entered
  <2>3. /\ DOMAIN e = Fields /\ e.size = f.size /\ e.capacity = f.capacity /\ e.cells = f.cells
        /\ e.ptr = f.ptr /\ e.gen = f.gen /\ e.avail = avail /\ e.faults = f.faults
    BY <2>2, Zenon DEF Fits, Fields, f
  <2>4. avail \subseteq Blocks
    OBVIOUS
  <2> HIDE DEF e
  <2>5. Fits(e)
    BY <2>2, <2>3, <2>4, Zenon DEF Fits
  <2> QED
    BY <2>2, <2>3, <2>5, Zenon
<1> HIDE DEF e
<1>6. /\ Fits(m) /\ m.faults = e.faults
      /\ Runs(m) => Content(d) = said \/ Content(d) = CodeText(code, message)
      /\ ~Runs(m) => CodeFails(code)
  BY <1>4, <1>5, SystemErrorWritten, Zenon
<1> HIDE DEF m
<1>7. Good(d, Content(d), FALSE)
  BY <1>6, ThrownGood, Zenon
<1> HIDE DEF d, said
<1>8. t = Content(d)
  <2>1. CASE m.error # ""
    BY <2>1, Zenon
  <2>2. CASE m.error = ""
    <3>1. Content(d) = said \/ Content(d) = CodeText(code, message)
      BY <1>6, <2>2, Zenon DEF Runs
    <3> QED
      BY <2>2, <3>1, Zenon
  <2> QED
    BY <2>1, <2>2, Zenon
<1> HIDE DEF t
<1>9. Good(d, t, FALSE)
  BY <1>7, <1>8, Zenon
<1>10. d.size \in Nat /\ d.capacity \in Nat
  BY <1>9, Zenon DEF Good, IsBuffer
<1>11. Texts'
  <2>1. \A u \in Writers : u # w => status'[u] = status[u]
    BY <1>1, <1>3, Zenon
  <2>2. calls' \in 0..MaxCalls
    BY <1>1, <1>3, CallsBound, Zenon
  <2> QED
    BY <1>1, <1>3, <1>9, <1>10, <2>1, <2>2, OneText, Zenon
<1>12. OnlyKnownFaults'
  BY <1>2, <1>5, <1>6, Zenon DEF OnlyKnownFaults
<1>13. ErrorsAreDescribed'
  <2>1. ASSUME m.error # ""
        PROVE  CodeFails(code) /\ code_ = code
    BY <1>6, <2>1, Zenon DEF Runs
  <2> HIDE DEF code_
  <2> QED
    BY <1>2, <2>1, Zenon DEF ErrorsAreDescribed, CodeFails
<1>14. KeepsTexts
  <2>1. "none" # "live"
    OBVIOUS
  <2>2. status[w] # "live"
    BY <1>1, <2>1, Zenon
  <2> QED
    BY <1>1, <1>3, <2>2, OneKept, Zenon
<1> QED
  BY <1>11, <1>12, <1>13, <1>14, Zenon DEF Shows

\* Every step is one of the calls.
LEMMA StepShows ==
  ASSUME TInv, Next
  PROVE  Shows
<1>1. PICK w \in Writers :
        \/ Construct(w) \/ CStr(w) \/ Clear(w) \/ Destroy(w)
        \/ \E st \in Statements : Insert(w, st)
        \/ \E v \in Writers : Move(w, v)
        \/ \E code \in Codes, message \in Messages, text \in Descriptions,
              avail \in {Blocks, {}} : DescribeError(w, code, message, text, avail)
  BY Zenon DEF Next
<1> QED
  BY <1>1, EmptyShows, CStrShows, InsertShows, MoveShows, DescribeShows, Zenon

\* Before the first call there is no text.
LEMMA InitTexts ==
  ASSUME Init
  PROVE  TInv
<1>1. /\ buf = [w \in Writers |-> NewBuffer] /\ status = [w \in Writers |-> "none"]
      /\ want = [w \in Writers |-> <<>>] /\ lost = [w \in Writers |-> FALSE]
      /\ last = Call("start") /\ calls = 0
  BY Zenon DEF Init
<1>2. IInv
  BY InitOwned, Zenon
<1>3. Texts
  <2>1. calls \in 0..MaxCalls
    BY <1>1, CallAssumption
  <2>2. Good(NewBuffer, <<>>, FALSE)
    BY NewGood, Zenon
  <2>3. NewBuffer.size \in Nat /\ NewBuffer.capacity \in Nat
    BY <2>2, Zenon DEF Good, IsBuffer
  <2> HIDE DEF NewBuffer
  <2>4. \A w \in Writers : /\ buf[w].size \in Nat /\ buf[w].capacity \in Nat
                           /\ status[w] = "live" => Good(buf[w], want[w], lost[w])
    BY <1>1, <2>2, <2>3, Zenon
  <2>5. want = [w \in Writers |-> want[w]] /\ lost = [w \in Writers |-> lost[w]]
    BY <1>1
  <2> QED
    BY <2>1, <2>4, <2>5, Zenon DEF Texts
<1>4. OnlyKnownFaults /\ ErrorsAreDescribed
  <2>1. last.faults = {} /\ last.stale = FALSE /\ last.error = ""
    BY <1>1, Zenon DEF Call
  <2> QED
    BY <2>1, Zenon DEF OnlyKnownFaults, ErrorsAreDescribed
<1> QED
  BY <1>2, <1>3, <1>4, Zenon DEF TInv

\* No call falsifies what is said of the texts, and none that throws loses any.
LEMMA StepTexts ==
  ASSUME TInv, [Next]_vars
  PROVE  TInv' /\ (Next => KeepsTexts)
<1>1. IInv'
  <2>1. IInv
    BY Zenon DEF TInv
  <2> QED
    BY <2>1, StepOwned, Zenon
<1>2. CASE Next
  BY <1>1, <1>2, StepShows, Zenon DEF Shows, TInv
<1>3. CASE UNCHANGED vars /\ ~Next
  <2>1. /\ buf' = buf /\ status' = status /\ want' = want /\ lost' = lost /\ last' = last
        /\ calls' = calls
    BY <1>3 DEF vars
  <2>2. Texts'
    BY <2>1, Zenon DEF TInv, Texts
  <2>3. OnlyKnownFaults' /\ ErrorsAreDescribed'
    BY <2>1, Zenon DEF TInv, OnlyKnownFaults, ErrorsAreDescribed
  <2> QED
    BY <1>1, <1>3, <2>2, <2>3, Zenon DEF TInv
<1> QED
  BY <1>2, <1>3, Zenon

\* The invariant says what the types are.
LEMMA InvariantTypes ==
  ASSUME TInv
  PROVE  TypeOK
<1>1. ASSUME NEW w \in Writers
      PROVE  /\ status[w] \in {"none", "live", "moved"}
             /\ buf[w].ptr \in Blocks \cup {data_}
             /\ buf[w].size \in Nat /\ buf[w].capacity \in Nat
  <2>1. buf[w].ptr \in heap \cup {data_}
    BY Zenon DEF TInv, IInv, OneOwner
  <2> QED
    BY <2>1, Zenon DEF TInv, IInv, Owned, Texts
<1>2. ASSUME NEW w \in Writers, status[w] = "live"
      PROVE  /\ buf[w].size <= buf[w].capacity
             /\ DOMAIN buf[w].cells = 0..(buf[w].capacity - 1)
  <2>1. IsBuffer(buf[w])
    BY <1>2, Zenon DEF TInv, Texts, Good
  <2>2. buf[w].size <= buf[w].capacity /\ buf[w].cells \in [0..(buf[w].capacity - 1) -> Char]
    BY <2>1, Zenon DEF IsBuffer
  <2> QED
    BY <2>2, Zenon
<1>3. heap \subseteq Blocks /\ calls \in 0..MaxCalls
  BY Zenon DEF TInv, IInv, Owned, Texts
<1> QED
  BY <1>1, <1>2, <1>3, Zenon DEF TypeOK

\* And that texts are as wanted.
LEMMA InvariantTextAsWanted ==
  ASSUME TInv
  PROVE  TextAsWanted
BY Zenon DEF TInv, Texts, Good, TextAsWanted

-----------------------------------------------------------------------------
(* The theorems                                                            *)

\* In every reachable state the blocks have their owners and the writers their texts:
\* the inductive invariant.
THEOREM WriterInvariant == Spec => []TInv
<1>1. Init => TInv
  BY InitTexts
<1>2. TInv /\ [Next]_vars => TInv'
  BY StepTexts
<1> QED
  BY <1>1, <1>2, PTL DEF Spec

\* The fields have their types and no writer in use holds more than its storage.
THEOREM WriterTypes == Spec => []TypeOK
<1>1. TInv => TypeOK
  BY InvariantTypes
<1> QED
  BY <1>1, WriterInvariant, PTL

\* Every allocated block belongs to exactly one writer, for all statements: none is
\* leaked and none is given back twice, however calls grow, throw and move.
THEOREM WriterOneOwner == Spec => []OneOwner
<1>1. TInv => OneOwner
  BY DEF TInv, IInv
<1> QED
  BY <1>1, WriterInvariant, PTL

\* A writer holds the text of its statements in order, except after one of the two
\* kinds of statement known to go wrong, and after those it never does.
THEOREM WriterTextAsWanted == Spec => []TextAsWanted
<1>1. TInv => TextAsWanted
  BY InvariantTextAsWanted
<1> QED
  BY <1>1, WriterInvariant, PTL

\* No call writes outside the storage or through a pointer into storage that was
\* replaced, but for the padding on the right of an integer with a precision.
THEOREM WriterOnlyKnownFaults == Spec => []OnlyKnownFaults
<1>1. TInv => OnlyKnownFaults
  BY DEF TInv
<1> QED
  BY <1>1, WriterInvariant, PTL

\* An exception leaves format_error_code only for a code below zero that has as many
\* digits as the unsigned number it is counted as.
THEOREM WriterErrorsAreDescribed == Spec => []ErrorsAreDescribed
<1>1. TInv => ErrorsAreDescribed
  BY DEF TInv
<1> QED
  BY <1>1, WriterInvariant, PTL

\* A call that throws leaves the text written before it in place, in its writer and in
\* all others.
THEOREM WriterFailureKeepsText == Spec => FailureKeepsText
<1>1. TInv /\ [Next]_vars => [KeepsTexts]_vars
  BY StepTexts
<1>2. KeepsTexts <=>
        (last'.error # "" =>
           \A w \in Writers : status[w] = "live" =>
             /\ buf[w].size <= buf'[w].size
             /\ SubSeq(Content(buf'[w]), 1, buf[w].size) = Content(buf[w]))
  BY Zenon DEF KeepsTexts, KeptIn
<1> QED
  BY <1>1, <1>2, WriterInvariant, PTL DEF Spec, FailureKeepsText
=============================================================================
