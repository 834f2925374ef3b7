-------------------------- MODULE RotatingFileProofs --------------------------
(***************************************************************************)
(* Theorems about RotatingFile, for every number of backups, every size    *)
(* limit, every set of message sizes and every bound.                      *)
(***************************************************************************)
EXTENDS RotatingFile, FiniteSetTheorems, TLAPS

-----------------------------------------------------------------------------
(* The inductive invariant                                                 *)

\* Messages and processes are numbered upwards: the number of the message in
\* hand is not used yet.  A process that is not there has no file, a rotation
\* has closed it, and only the rotation's loop uses slot.
Numbers ==
  /\ \A m \in acked : m <= number /\ (pc \notin {"down", "idle"} => m < number)
  /\ \A f \in firsts : f <= number + 1 /\ (pc \notin {"down", "idle"} => f <= number)
  /\ pc = "down" => fd # "open"
  /\ fd = "open" => 0 \in present
  /\ pc \in {"remove", "rename", "reopen"} => fd # "open"
  /\ pc \in {"remove", "rename"} => slot >= 1
  /\ pc \notin {"down", "idle"} => length \in Sizes /\ number \in Message

\* The order of AgeOrder, with what was removed.
Order ==
  /\ AgeOrder
  /\ \A m \in removed, n \in buffer : m < n

\* The slot a rotation is about to overwrite is free, unless it is the last one,
\* or a file could not be read.
Cleared ==
  unreadable = 0 =>
    /\ pc = "remove" => slot = MaxFiles \/ slot \notin present
    /\ pc = "rename" => slot \notin present

\* The messages that never reached a file: lost in a crash or dropped by fclose.
Gone == lost \cup dropped

\* With force_flush only a failed fflush leaves messages in the buffer.
Flushed == force_flush => buffer \cup Gone \subseteq unflushed

\* Between a message that is gone and every newer one a process began; one also began
\* between it and now, if the file is open: a process opens it only when it begins.
LostBefore ==
  \A m \in Gone :
    /\ fd = "open" => \E f \in firsts : m < f
    /\ \A n \in OnDisk \cup removed \cup buffer : m < n => \E f \in firsts : m < f /\ f <= n

\* The messages of S that the process that began with f wrote, when F are the
\* first messages of all processes.
Own(S, F, f) == {m \in S : m >= f /\ \A g \in F : g <= f \/ g > m}
InSlot(k) == file[k] \cup (IF k = 0 THEN buffer ELSE {})
Smallest == {s \in Sizes : \A l \in Sizes : s <= l}

\* No file has more than max_size of one process, and size, which is current_size_,
\* is at least what the running process has in the file that is open.
Growth ==
  /\ \A k \in Slots : \A f \in firsts : \A s \in Smallest :
       Cardinality(Own(InSlot(k), firsts, f)) * s <= MaxSize
  /\ fd = "open" =>
       /\ pc \in {"idle", "write"} /\ size <= MaxSize
       /\ \A f \in firsts : \A s \in Smallest :
            (\A g \in firsts : g <= f) =>
              (Cardinality(Own(InSlot(0), firsts, f)) + (IF pc = "write" THEN 1 ELSE 0)) * s <= size

IInv == /\ TypeOK /\ Numbers /\ Order /\ AckedOnce /\ Cleared /\ OnlyOldestRemoved
        /\ Flushed /\ LostBefore /\ Growth

-----------------------------------------------------------------------------
(* Facts about the types                                                   *)

\* What the constants are.
LEMMA Bounds ==
  /\ {MaxFiles, MaxSize, MaxMessages, MaxProcesses, MaxFaults, MaxUnreadable} \subseteq Nat
  /\ Sizes \subseteq Nat \ {0} /\ Slots \subseteq Nat /\ 0 \in Slots /\ MaxFiles \in Slots
  /\ Message \subseteq Nat
BY ParameterAssumption DEF Slots, Message

\* What the sets of messages are.
LEMMA DiskTypes ==
  ASSUME TypeOK
  PROVE  /\ \A k \in Slots : file[k] \subseteq Message
         /\ \A m : m \in OnDisk <=> \E k \in Slots : m \in file[k]
         /\ OnDisk \subseteq Message /\ buffer \subseteq Message /\ removed \subseteq Message
         /\ lost \subseteq Message /\ dropped \subseteq Message /\ acked \subseteq Message /\ number \in Nat
         /\ firsts \subseteq Nat
BY Bounds DEF TypeOK, OnDisk

\* Closing the file and writing out part of its buffer are one kind of step: B
\* goes from the buffer to file 0.
Drain(B) ==
  /\ B \subseteq buffer /\ \A m \in B, n \in buffer \ B : m < n
  /\ file' = [file EXCEPT ![0] = file[0] \cup B]
  /\ buffer' = buffer \ B
  /\ UNCHANGED <<present, removed, lost, dropped, acked>>

\* An fclose that fails takes the buffer with it.
Drop ==
  /\ buffer' = {} /\ dropped' = dropped \cup buffer
  /\ UNCHANGED <<present, file, removed, lost, acked>>

\* Closing a file writes all of its buffer or loses all of it.
LEMMA CloseDrains ==
  ASSUME TypeOK, NEW r \in {"none", "rotated"}, Close(r), UNCHANGED <<present, removed, lost, acked>>
  PROVE  /\ Drain(buffer) \/ Drop
         /\ buffer' = {} /\ fd' \in {r, fd} \ {"open"} /\ faults' \in 0..MaxFaults
<1>1. CASE fd = "open" /\ fd' = r /\ Flush /\ UNCHANGED <<faults, dropped>>
  BY <1>1 DEF Flush, Drain, TypeOK
<1>2. CASE /\ fd = "open" /\ fd' = r
           /\ Fails /\ dropped' = dropped \cup buffer /\ buffer' = {} /\ UNCHANGED file
  <2>1. faults' \in 0..MaxFaults
    BY <1>2, Bounds DEF Fails, TypeOK
  <2> QED
    BY <1>2, <2>1 DEF Drop
<1>3. CASE fd # "open" /\ UNCHANGED <<file, buffer, fd, faults, dropped>>
  <2>1. buffer = {} /\ file' = file /\ buffer' = buffer /\ fd' = fd /\ faults' = faults
        /\ dropped' = dropped
    BY <1>3 DEF TypeOK
  <2>2. file = [file EXCEPT ![0] = file[0] \cup {}]
    BY DEF TypeOK
  <2>3. Drain(buffer)
    BY <2>1, <2>2 DEF Drain
  <2> QED
    BY <1>3, <2>1, <2>3 DEF TypeOK
<1> QED
  BY <1>1, <1>2, <1>3 DEF Close

\* What leaves the stdio buffer on its own is the oldest of it.
LEMMA SpillDrains ==
  ASSUME TypeOK, Spill
  PROVE  \E B : Drain(B) /\ B # {}
<1>1. PICK m \in buffer :
        /\ file' = [file EXCEPT ![0] = file[0] \cup {n \in buffer : n <= m}]
        /\ buffer' = {n \in buffer : n > m}
  BY DEF Spill
<1>2. UNCHANGED <<present, removed, lost, dropped, acked>>
  BY DEF Spill, historyVars
<1>3. buffer \subseteq Nat
  BY DiskTypes, Bounds
<1>4. m <= m /\ \A n \in buffer : n > m <=> ~(n <= m)
  BY <1>3
<1>6. buffer' = buffer \ {n \in buffer : n <= m}
  BY <1>1, <1>4
<1>5. ASSUME NEW a \in buffer, NEW b \in buffer, a <= m, ~(b <= m)
      PROVE  a < b
  BY <1>3, <1>5
<1> QED
  BY <1>1, <1>2, <1>4, <1>5, <1>6 DEF Drain

-----------------------------------------------------------------------------
(* Types and numbers                                                       *)

\* A part of the buffer moves to the disk in one piece.
LEMMA DrainTypes ==
  ASSUME TypeOK, Numbers, NEW B, Drain(B)
  PROVE  /\ file' \in [Slots -> SUBSET Message] /\ buffer' \subseteq Message
         /\ \A k \in Slots \ present : file'[k] = {}
         /\ file'[0] = file[0] \cup B /\ \A k \in Slots \ {0} : file'[k] = file[k]
<1>1. B = {} \/ 0 \in present
  BY DEF TypeOK, Numbers, Drain
<1>2. file'[0] = file[0] \cup B /\ \A k \in Slots \ {0} : file'[k] = file[k]
  BY Bounds DEF TypeOK, Drain
<1>3. file' \in [Slots -> SUBSET Message] /\ buffer' \subseteq Message
  BY Bounds DEF TypeOK, Drain
<1>4. \A k \in Slots \ present : file'[k] = {}
  BY <1>1, <1>2 DEF TypeOK
<1> QED
  BY <1>2, <1>3, <1>4

\* Closing the file keeps the types, also when it fails.
LEMMA CloseTypes ==
  ASSUME TypeOK, Numbers, NEW r \in {"none", "rotated"}, Close(r),
         UNCHANGED <<present, removed, lost, acked>>
  PROVE  /\ file' \in [Slots -> SUBSET Message] /\ \A k \in Slots \ present : file'[k] = {}
         /\ dropped' \subseteq Message
<1>1. Drain(buffer) \/ Drop
  BY CloseDrains
<1>2. CASE Drain(buffer)
  <2>1. dropped' = dropped
    BY <1>2 DEF Drain
  <2> QED
    BY <1>2, <2>1, DrainTypes, DiskTypes
<1>3. CASE Drop
  BY <1>3 DEF Drop, TypeOK
<1> QED
  BY <1>1, <1>2, <1>3

\* What a process that dies leaves behind.
LEMMA DieTypes ==
  ASSUME TypeOK, Die
  PROVE  /\ buffer' = {} /\ fd' = "none" /\ pc' = "down" /\ lost' = lost \cup buffer
         /\ lost' \subseteq Message
BY DEF TypeOK, Die

\* Every step keeps the types, and numbers ahead of what was written.
LEMMA TypesPreserved ==
  ASSUME TypeOK, Numbers, Next
  PROVE  TypeOK' /\ Numbers'
<1> USE Bounds
<1>0. /\ UNCHANGED force_flush /\ force_flush' \in BOOLEAN /\ number \in Nat /\ slot \in Nat
      /\ faults \in Nat /\ unreadable \in Nat /\ acked \subseteq Nat /\ firsts \subseteq Nat
  <2>1. acked \subseteq Nat /\ firsts \subseteq Nat
    BY DiskTypes
  <2> QED
    BY <2>1 DEF Next, TypeOK
<1>1. CASE Start
  <2>1. /\ pc = "down" /\ pc' = "idle" /\ firsts' = firsts \cup {number + 1} /\ size' = 0
        /\ \/ fd' = "open" /\ present' = present \cup {0} /\ UNCHANGED faults
           \/ fd' = "unopened" /\ Fails /\ UNCHANGED present
        /\ UNCHANGED <<file, removed, buffer, slot, length, number, acked, lost, dropped, unflushed, unreadable>>
    BY <1>1 DEF Start, StartProcess
  <2>2. /\ firsts' \subseteq 1..(MaxMessages + 1) /\ faults' \in 0..MaxFaults
        /\ present' \subseteq Slots
    <3>1. number + 1 \in 1..(MaxMessages + 1)
      BY <1>0 DEF TypeOK
    <3>2. faults' \in 0..MaxFaults
      BY <1>0, <2>1 DEF TypeOK, Fails
    <3> QED
      BY <2>1, <3>1, <3>2 DEF TypeOK
  <2>3. buffer = {}
    BY <2>1 DEF TypeOK, Numbers
  <2>4. TypeOK'
    BY <1>0, <2>1, <2>2, <2>3 DEF TypeOK
  <2>5. Numbers'
    BY <1>0, <2>1 DEF Numbers
  <2> QED
    BY <2>4, <2>5
<1>2. CASE Shutdown
  <2>1. /\ Close("none") /\ pc = "idle" /\ pc' = "down"
        /\ UNCHANGED <<present, removed, slot, length, size, number, acked, lost, unflushed, firsts,
                       unreadable>>
    BY <1>2 DEF Shutdown
  <2>2. buffer' = {} /\ fd' \in {"none", fd} \ {"open"} /\ faults' \in 0..MaxFaults
    BY <2>1, CloseDrains
  <2>3. /\ file' \in [Slots -> SUBSET Message] /\ \A k \in Slots \ present : file'[k] = {}
        /\ dropped' \subseteq Message
    BY <2>1, CloseTypes
  <2>4. TypeOK'
    BY <1>0, <2>1, <2>2, <2>3 DEF TypeOK
  <2>5. Numbers'
    BY <1>0, <2>1, <2>2 DEF Numbers
  <2> QED
    BY <2>4, <2>5
<1>3. CASE Crash
  <2>1. /\ Die
        /\ UNCHANGED <<present, file, removed, slot, length, size, number, acked, dropped, unflushed, firsts,
                       faults, unreadable>>
    BY <1>3 DEF Crash, diskVars
  <2>2. TypeOK'
    BY <1>0, <2>1, DieTypes DEF TypeOK
  <2>3. Numbers'
    <3>1. pc' = "down" /\ fd' = "none"
      BY <2>1, DieTypes
    <3> QED
      BY <1>0, <2>1, <3>1 DEF Numbers
  <2> QED
    BY <2>2, <2>3
<1>4. CASE Spill
  <2>1. PICK B : Drain(B) /\ B # {}
    BY <1>4, SpillDrains
  <2>2. UNCHANGED <<present, removed, fd, pc, slot, length, size, number, acked, lost, dropped, unflushed,
                    firsts, faults, unreadable>>
    BY <1>4 DEF Spill, historyVars
  <2>4. /\ file' \in [Slots -> SUBSET Message] /\ \A k \in Slots \ present : file'[k] = {}
    BY <2>1, DrainTypes
  <2>5. buffer # {} /\ buffer' \subseteq Message
    BY <2>1 DEF Drain, TypeOK
  <2>6. TypeOK'
    BY <1>0, <2>2, <2>4, <2>5 DEF TypeOK
  <2>7. Numbers'
    BY <1>0, <2>2 DEF Numbers
  <2> QED
    BY <2>6, <2>7
<1>5. ASSUME NEW len \in Sizes, SinkIt(len)
      PROVE  TypeOK' /\ Numbers'
  <2>1. /\ pc = "idle" /\ number < MaxMessages /\ number' = number + 1 /\ length' = len
        /\ size' = size + len
        /\ UNCHANGED <<present, removed, acked, lost, unflushed, firsts, unreadable>>
    BY <1>5 DEF SinkIt
  <2>2. /\ number' \in 0..MaxMessages /\ number' \in Message /\ size' \in Nat
    BY <2>1 DEF TypeOK, Message
  <2>3. CASE pc' = "write" /\ UNCHANGED <<file, buffer, fd, slot, faults, dropped>>
    <3>1. TypeOK'
      BY <1>0, <2>1, <2>2, <2>3 DEF TypeOK
    <3>2. Numbers'
      <4>1. /\ \A m \in acked : m < number + 1
            /\ \A f \in firsts : f <= number + 1
            /\ fd = "open" => 0 \in present
        BY <1>0 DEF Numbers
      <4>2. /\ acked' = acked /\ firsts' = firsts /\ fd' = fd /\ present' = present
            /\ number' = number + 1 /\ pc' = "write" /\ length' \in Sizes /\ number' \in Message
        BY <2>1, <2>2, <2>3
      <4>3. \A m \in acked : m <= number + 1
        BY <1>0, <4>1
      <4>4. \A f \in firsts : f <= number + 1 + 1
        BY <1>0, <4>1
      <4> QED
        BY <4>1, <4>2, <4>3, <4>4 DEF Numbers
    <3> QED
      BY <3>1, <3>2
  <2>4. CASE /\ Close("rotated") /\ slot' = MaxFiles
             /\ pc' = IF MaxFiles = 0 THEN "reopen" ELSE "remove"
    <3>1. buffer' = {} /\ fd' \in {"rotated", fd} \ {"open"} /\ faults' \in 0..MaxFaults
      BY <2>1, <2>4, CloseDrains
    <3>2. /\ file' \in [Slots -> SUBSET Message] /\ \A k \in Slots \ present : file'[k] = {}
          /\ dropped' \subseteq Message
      BY <2>1, <2>4, CloseTypes
    <3>3. TypeOK'
      BY <1>0, <2>1, <2>2, <2>4, <3>1, <3>2 DEF TypeOK
    <3>4. Numbers'
      BY <1>0, <2>1, <2>2, <2>4, <3>1 DEF Numbers
    <3> QED
      BY <3>3, <3>4
  <2> QED
    BY <1>5, <2>3, <2>4 DEF SinkIt
<1>6. CASE RemoveTarget
  <2>1. /\ pc = "remove" /\ UNCHANGED <<buffer, fd, slot, length, size, number, acked, lost, dropped, unflushed, firsts>>
        /\ pc' \in {"rename", "idle"}
    BY <1>6 DEF RemoveTarget, historyVars
  <2>2. faults' \in 0..MaxFaults /\ unreadable' \in 0..MaxUnreadable
    BY <1>0, <1>6 DEF RemoveTarget, Exists, Missing, Fails, TypeOK
  <2>3. \/ /\ present' = present \ {slot} /\ file' = [file EXCEPT ![slot] = {}]
           /\ removed' = removed \cup file[slot]
        \/ UNCHANGED <<present, file, removed>>
    BY <1>6 DEF RemoveTarget, diskVars
  <2>4. /\ present' \subseteq Slots /\ file' \in [Slots -> SUBSET Message] /\ removed' \subseteq Message
        /\ \A k \in Slots \ present' : file'[k] = {}
    BY <2>3 DEF TypeOK
  <2>5. TypeOK'
    BY <1>0, <2>1, <2>2, <2>4 DEF TypeOK
  <2>6. Numbers'
    BY <1>0, <2>1 DEF Numbers
  <2> QED
    BY <2>5, <2>6
<1>7. CASE RenameSource
  <2>1. /\ pc = "rename" /\ UNCHANGED <<buffer, fd, length, size, number, acked, lost, dropped, unflushed, firsts>>
        /\ \/ slot' = slot - 1 /\ pc' = (IF slot = 1 THEN "reopen" ELSE "remove")
           \/ slot' = slot /\ pc' = "idle"
    BY <1>7 DEF RenameSource, NextSlot, historyVars
  <2>2. faults' \in 0..MaxFaults /\ unreadable' \in 0..MaxUnreadable
    BY <1>0, <1>7 DEF RenameSource, Exists, Missing, Fails, TypeOK
  <2>3. slot >= 1 /\ slot - 1 \in Slots /\ slot \in Slots
    BY <2>1 DEF Numbers, TypeOK, Slots
  <2>4. \/ /\ present' = (present \ {slot - 1}) \cup {slot}
           /\ file' = [file EXCEPT ![slot] = file[slot - 1], ![slot - 1] = {}]
           /\ removed' = removed \cup file[slot]
        \/ UNCHANGED <<present, file, removed>>
    BY <1>7 DEF RenameSource, diskVars
  <2>5. /\ present' \subseteq Slots /\ file' \in [Slots -> SUBSET Message] /\ removed' \subseteq Message
        /\ \A k \in Slots \ present' : file'[k] = {}
    BY <2>3, <2>4 DEF TypeOK
  <2>6. slot' \in Slots /\ pc' \in {"reopen", "remove", "idle"}
    BY <2>1, <2>3
  <2>7. TypeOK'
    BY <1>0, <2>1, <2>2, <2>5, <2>6 DEF TypeOK
  <2>8. Numbers'
    BY <1>0, <2>1, <2>3, <2>6 DEF Numbers
  <2> QED
    BY <2>7, <2>8
<1>8. CASE Reopen
  <2>1. /\ pc = "reopen" /\ size' = length /\ pc' = "write"
        /\ UNCHANGED <<present, file, removed, buffer, fd, slot, length, number, acked, lost,
                       dropped, unflushed, firsts, faults, unreadable>>
    BY <1>8 DEF Reopen, diskVars, historyVars
  <2>2. length \in Nat
    BY DEF TypeOK
  <2>3. TypeOK'
    BY <1>0, <2>1, <2>2 DEF TypeOK
  <2>4. Numbers'
    BY <1>0, <2>1 DEF Numbers
  <2> QED
    BY <2>3, <2>4
<1>9. CASE Write
  <2>1. /\ pc = "write" /\ pc' \in {"idle", "down"} /\ number \in Message
        /\ UNCHANGED <<present, removed, slot, length, size, number, dropped, firsts, unreadable>>
    BY <1>9, DieTypes DEF Write, NullFile, Fwrite, FwriteFails, WriteRest, Numbers
  <2>2. faults' \in 0..MaxFaults
    BY <1>0, <1>9 DEF Write, NullFile, Fwrite, FwriteFails, Fflush, Fails, TypeOK
  <2>3. /\ acked' \in {acked, acked \cup {number}} /\ unflushed' \in {unflushed, unflushed \cup {number}}
        /\ lost' \in {lost, lost \cup buffer}
    BY <1>9 DEF Write, NullFile, Fwrite, FwriteFails, Fflush, Unflushed, Die
  <2>4. \/ fd # "open" /\ fd' = "none" /\ pc' = "down" /\ buffer' = {} /\ file' = file
        \/ /\ fd = "open" /\ fd' = fd /\ pc' = "idle"
           /\ \/ file' = [file EXCEPT ![0] = file[0] \cup buffer \cup {number}] /\ buffer' = {}
              \/ file' = file /\ buffer' \in {buffer, buffer \cup {number}}
    BY <1>9 DEF Write, NullFile, Fwrite, FwriteFails, Fflush, Unflushed, Die
  <2>5. /\ file' \in [Slots -> SUBSET Message] /\ buffer' \subseteq Message
        /\ \A k \in Slots \ present' : file'[k] = {}
    BY <2>1, <2>4 DEF TypeOK, Numbers
  <2>6. /\ acked' \subseteq Message /\ unflushed' \subseteq Message /\ lost' \subseteq Message
    BY <2>1, <2>3 DEF TypeOK
  <2>7. buffer' # {} => fd' = "open"
    BY <2>4
  <2>8. fd' \in {"open", "none"} /\ (pc' = "down" => fd' # "open")
    BY <2>4
  <2>9. TypeOK'
    BY <1>0, <2>1, <2>2, <2>5, <2>6, <2>7, <2>8 DEF TypeOK
  <2>10. Numbers'
    <3>1. 0 \in present' \/ fd' # "open"
      BY <2>1, <2>4 DEF Numbers
    <3> QED
      BY <1>0, <2>1, <2>3, <2>8, <3>1 DEF Numbers
  <2> QED
    BY <2>9, <2>10
<1>10. CASE Finished
  <2>1. UNCHANGED <<force_flush, present, file, removed, buffer, fd, pc, slot, length, size, number,
                    acked, lost, dropped, unflushed, firsts, faults, unreadable>>
    BY <1>10 DEF Finished, vars, diskVars, historyVars
  <2>2. TypeOK'
    BY <2>1 DEF TypeOK
  <2>3. Numbers'
    BY <2>1 DEF Numbers
  <2> QED
    BY <2>2, <2>3
<1> QED
  BY <1>1, <1>2, <1>3, <1>4, <1>5, <1>6, <1>7, <1>8, <1>9, <1>10 DEF Next

-----------------------------------------------------------------------------
(* Where the messages are                                                  *)

\* The parts of the invariant that relate the sets of messages.
Places == Order /\ AckedOnce

\* A step that leaves the messages where they are.
LEMMA PlacesFrame ==
  ASSUME Places, UNCHANGED <<file, buffer, removed, lost, dropped, acked>>
  PROVE  Places' /\ OnDisk' = OnDisk
BY DEF Places, Order, AgeOrder, AckedOnce, OnDisk

\* What leaves the buffer in its order is newer than every file, and keeps its place.
LEMMA PlacesDrain ==
  ASSUME TypeOK, Numbers, Places, NEW B, Drain(B)
  PROVE  Places' /\ OnDisk' = OnDisk \cup B /\ buffer' = buffer \ B
<1>1. /\ file'[0] = file[0] \cup B /\ \A k \in Slots \ {0} : file'[k] = file[k]
      /\ B \subseteq buffer /\ \A m \in B, n \in buffer \ B : m < n
      /\ buffer' = buffer \ B /\ UNCHANGED <<removed, lost, dropped, acked>>
  BY DrainTypes DEF Drain
<1>2. 0 \in Slots /\ \A j, k \in Slots : j < k => k # 0
  BY Bounds DEF Slots
<1>3. \A m : m \in OnDisk <=> \E k \in Slots : m \in file[k]
  BY DEF OnDisk
<1>4. OnDisk' = OnDisk \cup B
  <2>1. \A m : m \in OnDisk' <=> \E k \in Slots : m \in file'[k]
    BY DEF OnDisk
  <2>2. \A m : (\E k \in Slots : m \in file'[k]) <=> (m \in B \/ \E k \in Slots : m \in file[k])
    BY <1>1, <1>2
  <2> QED
    BY <1>3, <2>1, <2>2
<1>5. ASSUME NEW j \in Slots, NEW k \in Slots, j < k, NEW m \in file'[k], NEW n \in file'[j]
      PROVE  m < n
  <2>1. m \in file[k] /\ m \in OnDisk
    BY <1>1, <1>2, <1>3, <1>5
  <2>2. n \in file[j] \/ n \in B
    BY <1>1, <1>5
  <2> QED
    BY <1>1, <1>5, <2>1, <2>2 DEF Places, Order, AgeOrder
<1>6. ASSUME NEW m \in OnDisk', NEW n \in buffer'
      PROVE  m < n
  BY <1>1, <1>4, <1>6 DEF Places, Order, AgeOrder
<1>7. \A m \in removed', n \in buffer' : m < n
  BY <1>1 DEF Places, Order
<1>8. ASSUME NEW j \in Slots, NEW k \in Slots, j # k
      PROVE  file'[j] \cap file'[k] = {}
  <2>1. file[j] \cap file[k] = {} /\ file[j] \cap buffer = {} /\ file[k] \cap buffer = {}
    <3>1. \A i \in Slots : \A m \in file[i] : m \notin buffer
      <4> SUFFICES ASSUME NEW i \in Slots, NEW m \in file[i], m \in buffer PROVE FALSE
        OBVIOUS
      <4>1. m < m /\ m \in Nat
        BY <1>3, DiskTypes, Bounds DEF Places, Order, AgeOrder
      <4> QED
        BY <4>1
    <3> QED
      BY <1>8, <3>1 DEF Places, AckedOnce
  <2> QED
    BY <1>1, <1>8, <2>1
<1>9. AckedOnce'
  <2>1. (OnDisk \cup buffer)' = OnDisk \cup buffer
    BY <1>1, <1>4
  <2>2. acked' = (OnDisk \cup buffer)' \cup removed' \cup lost' \cup dropped'
    BY <1>1, <2>1 DEF Places, AckedOnce
  <2>3. /\ removed' \cap (OnDisk \cup buffer)' = {}
        /\ lost' \cap ((OnDisk \cup buffer)' \cup removed') = {}
        /\ dropped' \cap ((OnDisk \cup buffer)' \cup removed' \cup lost') = {}
    BY <1>1, <2>1 DEF Places, AckedOnce
  <2>4. acked' = OnDisk' \cup buffer' \cup removed' \cup lost' \cup dropped'
    BY <2>2
  <2>5. /\ removed' \cap (OnDisk' \cup buffer') = {}
        /\ lost' \cap (OnDisk' \cup buffer' \cup removed') = {}
        /\ dropped' \cap (OnDisk' \cup buffer' \cup removed' \cup lost') = {}
    BY <2>3
  <2> QED
    BY <1>8, <2>4, <2>5 DEF AckedOnce
<1> QED
  BY <1>1, <1>4, <1>5, <1>6, <1>7, <1>9 DEF Places, Order, AgeOrder

\* The buffer goes with the process that dies, or with the file that fclose failed for.
Vanish ==
  /\ buffer' = {} /\ UNCHANGED <<file, removed, acked>>
  /\ \/ lost' = lost \cup buffer /\ dropped' = dropped
     \/ lost' = lost /\ dropped' = dropped \cup buffer

\* The messages of the buffer are in one place more, the others where they were.
LEMMA PlacesVanish ==
  ASSUME TypeOK, Places, Vanish
  PROVE  Places' /\ OnDisk' = OnDisk /\ Gone' = Gone \cup buffer
<1>1. OnDisk' = OnDisk /\ Gone' = Gone \cup buffer
  BY DEF Vanish, OnDisk, Gone
<1>2. Order'
  BY <1>1 DEF Places, Order, AgeOrder, Vanish
<1>3. buffer \cap (OnDisk \cup removed) = {}
  <2> SUFFICES ASSUME NEW m \in buffer, m \in OnDisk \cup removed PROVE FALSE
    OBVIOUS
  <2>1. m < m /\ m \in Nat
    BY DiskTypes, Bounds DEF Places, Order, AgeOrder
  <2> QED
    BY <2>1
<1>4. AckedOnce'
  <2>1. CASE lost' = lost \cup buffer /\ dropped' = dropped
    BY <1>1, <1>3, <2>1 DEF Places, AckedOnce, Vanish
  <2>2. CASE lost' = lost /\ dropped' = dropped \cup buffer
    BY <1>1, <1>3, <2>2 DEF Places, AckedOnce, Vanish
  <2> QED
    BY <2>1, <2>2 DEF Vanish
<1> QED
  BY <1>1, <1>2, <1>4 DEF Places

\* A file is removed.
LEMMA PlacesRemove ==
  ASSUME TypeOK, Places, NEW i \in Slots, buffer = {},
         file' = [file EXCEPT ![i] = {}], removed' = removed \cup file[i],
         UNCHANGED <<buffer, lost, dropped, acked>>
  PROVE  Places' /\ OnDisk' = OnDisk \ file[i]
<1>1. file'[i] = {} /\ \A k \in Slots \ {i} : file'[k] = file[k]
  BY DEF TypeOK
<1>2. \A m : m \in OnDisk <=> \E k \in Slots : m \in file[k]
  BY DEF OnDisk
<1>3. \A m : m \in OnDisk' <=> \E k \in Slots : m \in file'[k]
  BY DEF OnDisk
<1>4. \A j, k \in Slots : j # k => file[j] \cap file[k] = {}
  BY DEF Places, AckedOnce
<1>5. OnDisk' = OnDisk \ file[i] /\ file[i] \subseteq OnDisk
  <2>1. \A m : (\E k \in Slots : m \in file'[k]) <=> (m \notin file[i] /\ \E k \in Slots : m \in file[k])
    BY <1>1, <1>4
  <2> QED
    BY <1>2, <1>3, <2>1
<1>6. Order'
  BY <1>1 DEF Places, Order, AgeOrder
<1>7. AckedOnce'
  BY <1>1, <1>5 DEF Places, AckedOnce
<1> QED
  BY <1>5, <1>6, <1>7 DEF Places

\* A file gets the next higher number; the file that had it, if any, is gone.
LEMMA PlacesRename ==
  ASSUME TypeOK, Places, NEW i \in Slots, i - 1 \in Slots, buffer = {},
         file' = [file EXCEPT ![i] = file[i - 1], ![i - 1] = {}], removed' = removed \cup file[i],
         UNCHANGED <<buffer, lost, dropped, acked>>
  PROVE  Places' /\ OnDisk' = OnDisk \ file[i]
<1>0. i - 1 # i /\ i \in Nat /\ Slots \subseteq Nat
  BY Bounds
<1>1. /\ file'[i] = file[i - 1] /\ file'[i - 1] = {}
      /\ \A k \in Slots \ {i, i - 1} : file'[k] = file[k]
  BY <1>0 DEF TypeOK
<1>2. \A m : m \in OnDisk <=> \E k \in Slots : m \in file[k]
  BY DEF OnDisk
<1>3. \A m : m \in OnDisk' <=> \E k \in Slots : m \in file'[k]
  BY DEF OnDisk
<1>4. \A j, k \in Slots : j # k => file[j] \cap file[k] = {}
  BY DEF Places, AckedOnce
<1>5. OnDisk' = OnDisk \ file[i] /\ file[i] \subseteq OnDisk
  <2>1. ASSUME NEW m, NEW k \in Slots, m \in file'[k]
        PROVE  m \notin file[i] /\ \E l \in Slots : m \in file[l]
    BY <1>0, <1>1, <1>4, <2>1
  <2>2. ASSUME NEW m, NEW k \in Slots, m \in file[k], m \notin file[i]
        PROVE  \E l \in Slots : m \in file'[l]
    BY <1>0, <1>1, <2>2
  <2> QED
    BY <1>2, <1>3, <2>1, <2>2
<1>6. ASSUME NEW j \in Slots, NEW k \in Slots, j < k, NEW m \in file'[k], NEW n \in file'[j]
      PROVE  m < n
  <2> DEFINE Was(l) == IF l = i THEN i - 1 ELSE l
  <2>1. /\ m \in file[Was(k)] /\ n \in file[Was(j)] /\ Was(k) \in Slots /\ Was(j) \in Slots
        /\ j # i - 1 /\ k # i - 1
    BY <1>1, <1>6
  <2>2. Was(j) < Was(k)
    BY <1>0, <1>6, <2>1
  <2> QED
    BY <2>1, <2>2 DEF Places, Order, AgeOrder
<1>7. ASSUME NEW j \in Slots, NEW k \in Slots, j # k
      PROVE  file'[j] \cap file'[k] = {}
  BY <1>0, <1>1, <1>4, <1>7
<1>8. Order'
  BY <1>6 DEF Places, Order, AgeOrder
<1>9. AckedOnce'
  BY <1>5, <1>7 DEF Places, AckedOnce
<1> QED
  BY <1>5, <1>8, <1>9 DEF Places

\* The message in hand, which is newer than every other, goes to file 0 with the
\* buffer, or into the buffer.
LEMMA PlacesWrite ==
  ASSUME TypeOK, Numbers, Places, pc = "write", UNCHANGED <<removed, lost, dropped>>,
         acked' = acked \cup {number},
         \/ file' = [file EXCEPT ![0] = file[0] \cup buffer \cup {number}] /\ buffer' = {}
         \/ file' = file /\ buffer' = buffer \cup {number}
  PROVE  /\ Places' /\ OnDisk' \subseteq OnDisk \cup buffer \cup {number}
         /\ OnDisk \subseteq OnDisk'
<1>1. number \in Nat /\ \A m \in acked : m \in Nat /\ m < number
  BY DiskTypes, Bounds DEF Numbers
<1>2. number \notin acked
  BY <1>1
<1>3. acked = OnDisk \cup buffer \cup removed \cup lost \cup dropped
  BY DEF Places, AckedOnce
<1>4. 0 \in Slots /\ \A j, k \in Slots : j < k => k # 0
  BY Bounds DEF Slots
<1>5. \A m : m \in OnDisk <=> \E k \in Slots : m \in file[k]
  BY DEF OnDisk
<1>6. \A m : m \in OnDisk' <=> \E k \in Slots : m \in file'[k]
  BY DEF OnDisk
<1>7. CASE file' = file /\ buffer' = buffer \cup {number}
  <2>1. OnDisk' = OnDisk
    BY <1>7 DEF OnDisk
  <2>2. Order'
    BY <1>1, <1>3, <1>7, <2>1 DEF Places, Order, AgeOrder
  <2>3. AckedOnce'
    BY <1>2, <1>3, <1>7, <2>1 DEF Places, AckedOnce
  <2> QED
    BY <2>1, <2>2, <2>3 DEF Places
<1>8. CASE file' = [file EXCEPT ![0] = file[0] \cup buffer \cup {number}] /\ buffer' = {}
  <2>1. /\ file'[0] = file[0] \cup buffer \cup {number}
        /\ \A k \in Slots \ {0} : file'[k] = file[k]
    BY <1>4, <1>8 DEF TypeOK
  <2>2. OnDisk' = OnDisk \cup buffer \cup {number}
    <3>1. \A m : (\E k \in Slots : m \in file'[k])
                   <=> (m \in buffer \/ m = number \/ \E k \in Slots : m \in file[k])
      BY <1>4, <2>1
    <3> QED
      BY <1>5, <1>6, <3>1
  <2>3. ASSUME NEW j \in Slots, NEW k \in Slots, j < k, NEW m \in file'[k], NEW n \in file'[j]
        PROVE  m < n
    <3>1. m \in file[k] /\ m \in OnDisk
      BY <1>4, <1>5, <2>1, <2>3
    <3>2. n \in file[j] \/ n \in buffer \/ n = number
      BY <2>1, <2>3
    <3> QED
      BY <1>1, <1>3, <2>3, <3>1, <3>2 DEF Places, Order, AgeOrder
  <2>4. Order'
    BY <1>8, <2>3 DEF Order, AgeOrder
  <2>5. ASSUME NEW j \in Slots, NEW k \in Slots \ {0}, j # k
        PROVE  file'[j] \cap file'[k] = {}
    <3>1. file[j] \cap file[k] = {} /\ file[k] \subseteq OnDisk
      BY <1>5, <2>5 DEF Places, AckedOnce
    <3>2. OnDisk \cap buffer = {}
      <4>1. \A m \in OnDisk : m \in Nat /\ m \notin buffer
        BY <1>1, <1>3 DEF Places, Order, AgeOrder
      <4> QED
        BY <4>1
    <3>3. number \notin OnDisk
      BY <1>2, <1>3
    <3> QED
      BY <2>1, <3>1, <3>2, <3>3
  <2>6. \A j, k \in Slots : j # k => file'[j] \cap file'[k] = {}
    BY <2>5
  <2>7. AckedOnce'
    BY <1>2, <1>3, <1>8, <2>2, <2>6 DEF Places, AckedOnce
  <2> QED
    BY <2>2, <2>4, <2>7 DEF Places
<1> QED
  BY <1>7, <1>8

\* The message in hand is accepted by fwrite.
Accepted ==
  /\ fd = "open" /\ fd' = fd /\ pc' = "idle" /\ lost' = lost /\ dropped' = dropped /\ acked' = acked \cup {number}
  /\ \/ /\ file' = [file EXCEPT ![0] = file[0] \cup buffer \cup {number}] /\ buffer' = {}
        /\ unflushed' = unflushed
     \/ /\ file' = file /\ buffer' = buffer \cup {number}
        /\ unflushed' = IF force_flush THEN unflushed \cup {number} ELSE unflushed

\* A write is accepted, fails, or ends the process.
LEMMA WriteKinds ==
  ASSUME Write
  PROVE  /\ pc = "write"
         /\ UNCHANGED <<present, removed, slot, length, size, number, dropped, firsts, unreadable>>
         /\ \/ Accepted
            \/ fd = "open" /\ pc' = "idle" /\ UNCHANGED <<fd, file, buffer, lost, acked, unflushed>>
            \/ fd # "open" /\ Die /\ UNCHANGED <<file, acked, unflushed>>
BY DEF Write, NullFile, Fwrite, FwriteFails, Fflush, Unflushed, WriteRest, Accepted

\* So does every action: the messages are where they were, in their order.
LEMMA PlacesPreserved ==
  ASSUME TypeOK, Numbers, Places, Next
  PROVE  Places'
<1>1. CASE Start \/ Reopen \/ Finished
  <2>1. UNCHANGED <<file, buffer, removed, lost, dropped, acked>>
    BY <1>1 DEF Start, StartProcess, Reopen, Finished, vars, diskVars, historyVars
  <2> QED
    BY <2>1, PlacesFrame
<1>2. CASE Shutdown
  <2>1. Close("none") /\ UNCHANGED <<present, removed, lost, acked>>
    BY <1>2 DEF Shutdown
  <2> QED
    BY <2>1, CloseDrains, PlacesDrain, PlacesVanish DEF Drop, Vanish
<1>3. CASE Crash
  <2>1. Vanish
    BY <1>3 DEF Crash, Die, Vanish, diskVars
  <2> QED
    BY <2>1, PlacesVanish
<1>4. CASE Spill
  BY <1>4, SpillDrains, PlacesDrain
<1>5. ASSUME NEW len \in Sizes, SinkIt(len)
      PROVE  Places'
  <2>1. UNCHANGED <<present, removed, lost, acked>>
    BY <1>5 DEF SinkIt
  <2>2. Close("rotated") \/ UNCHANGED <<file, buffer, dropped>>
    BY <1>5 DEF SinkIt
  <2>3. CASE Close("rotated")
    BY <2>1, <2>3, CloseDrains, PlacesDrain, PlacesVanish DEF Drop, Vanish
  <2>4. CASE UNCHANGED <<file, buffer, dropped>>
    BY <2>1, <2>4, PlacesFrame
  <2> QED
    BY <2>2, <2>3, <2>4
<1>6. CASE RemoveTarget
  <2>1. UNCHANGED <<buffer, lost, dropped, acked>> /\ buffer = {} /\ slot \in Slots
    BY <1>6 DEF RemoveTarget, historyVars, TypeOK, Numbers
  <2>2. \/ file' = [file EXCEPT ![slot] = {}] /\ removed' = removed \cup file[slot]
        \/ UNCHANGED <<file, removed>>
    BY <1>6 DEF RemoveTarget, diskVars
  <2> QED
    BY <2>1, <2>2, PlacesRemove, PlacesFrame
<1>7. CASE RenameSource
  <2>1. /\ UNCHANGED <<buffer, lost, dropped, acked>> /\ buffer = {} /\ slot \in Slots
        /\ slot - 1 \in Slots
    BY <1>7, Bounds DEF RenameSource, historyVars, TypeOK, Numbers, Slots
  <2>2. \/ /\ file' = [file EXCEPT ![slot] = file[slot - 1], ![slot - 1] = {}]
           /\ removed' = removed \cup file[slot]
        \/ UNCHANGED <<file, removed>>
    BY <1>7 DEF RenameSource, diskVars
  <2> QED
    BY <2>1, <2>2, PlacesRename, PlacesFrame
<1>8. CASE Write
  <2>1. CASE Accepted
    <3>1. /\ pc = "write" /\ UNCHANGED <<removed, lost, dropped>> /\ acked' = acked \cup {number}
          /\ \/ file' = [file EXCEPT ![0] = file[0] \cup buffer \cup {number}] /\ buffer' = {}
             \/ file' = file /\ buffer' = buffer \cup {number}
      BY <1>8, <2>1, WriteKinds DEF Accepted
    <3> QED
      BY <3>1, PlacesWrite
  <2>2. CASE UNCHANGED <<file, buffer, removed, lost, dropped, acked>>
    BY <2>2, PlacesFrame
  <2>3. CASE Die /\ UNCHANGED <<file, removed, dropped, acked>>
    <3>1. Vanish
      BY <2>3 DEF Die, Vanish
    <3> QED
      BY <3>1, PlacesVanish
  <2> QED
    BY <1>8, <2>1, <2>2, <2>3, WriteKinds
<1> QED
  BY <1>1, <1>2, <1>3, <1>4, <1>5, <1>6, <1>7, <1>8 DEF Next

-----------------------------------------------------------------------------
(* What is removed and what is lost                                        *)

\* The last file that a message can be in is the oldest: when its slot is free
\* for the others, a rotation removes nothing else.
LEMMA ClearedPreserved ==
  ASSUME TypeOK, Numbers, Cleared, Next
  PROVE  Cleared'
<1>0. unreadable \in Nat /\ slot \in Nat
  BY Bounds DEF TypeOK
<1>1. CASE Start \/ Shutdown \/ Crash \/ Reopen \/ Write
  <2>1. pc' \notin {"remove", "rename"}
    BY <1>1, DieTypes DEF Start, StartProcess, Shutdown, Crash, Die, Reopen, Write, NullFile, Fwrite,
       FwriteFails
  <2> QED
    BY <2>1 DEF Cleared
<1>2. CASE Spill \/ Finished
  <2>1. UNCHANGED <<present, pc, slot, unreadable>>
    BY <1>2 DEF Spill, Finished, vars, diskVars
  <2> QED
    BY <2>1 DEF Cleared
<1>3. ASSUME NEW len \in Sizes, SinkIt(len)
      PROVE  Cleared'
  <2>1. pc' \in {"write", "reopen"} \/ (pc' = "remove" /\ slot' = MaxFiles)
    BY <1>3 DEF SinkIt
  <2> QED
    BY <2>1 DEF Cleared
<1>4. CASE RemoveTarget
  <2>1. pc' = "idle" \/ (pc' = "rename" /\ slot' = slot /\ (unreadable' = 0 => slot \notin present'))
    BY <1>0, <1>4 DEF RemoveTarget, Exists, Missing, diskVars
  <2> QED
    BY <2>1 DEF Cleared
<1>5. CASE RenameSource
  <2>1. \/ pc' \in {"idle", "reopen"}
        \/ pc' = "remove" /\ slot' = slot - 1 /\ (unreadable' = 0 => slot - 1 \notin present')
    BY <1>0, <1>5 DEF RenameSource, NextSlot, Exists, Missing, diskVars
  <2> QED
    BY <2>1 DEF Cleared
<1> QED
  BY <1>1, <1>2, <1>3, <1>4, <1>5 DEF Next

\* The kinds of step, as far as messages and processes go.
Moves ==      \* nothing is removed, lost or written
  /\ UNCHANGED <<removed, lost, dropped, acked, unflushed>>
  /\ OnDisk' \cup buffer' = OnDisk \cup buffer /\ buffer' \subseteq buffer
  /\ \/ firsts' = firsts /\ (fd' = "open" => fd = "open")
     \/ firsts' = firsts \cup {number + 1}
Removes ==    \* a file goes
  /\ pc \in {"remove", "rename"} /\ slot \in present
  /\ removed' = removed \cup file[slot] /\ OnDisk' = OnDisk \ file[slot]
  /\ buffer = {} /\ UNCHANGED <<fd, buffer, lost, dropped, acked, unflushed, firsts>>
Adds ==       \* a message is written
  /\ Accepted /\ pc = "write" /\ UNCHANGED <<removed, firsts>>
  /\ OnDisk' \subseteq OnDisk \cup buffer \cup {number}
  /\ buffer' \subseteq buffer \cup {number}
Loses ==      \* a process dies, or fclose fails
  /\ Vanish /\ fd' # "open" /\ UNCHANGED <<unflushed, firsts>>
  /\ OnDisk' = OnDisk /\ Gone' = Gone \cup buffer

\* Every step is one of these.
LEMMA StepKinds ==
  ASSUME TypeOK, Numbers, Places, Next
  PROVE  /\ Moves \/ Removes \/ Adds \/ Loses
         /\ unreadable' \in Nat /\ unreadable' >= unreadable /\ unreadable \in Nat
<1>0. unreadable' \in Nat /\ unreadable' >= unreadable /\ unreadable \in Nat
  <2>1. unreadable \in Nat
    BY Bounds DEF TypeOK
  <2>2. unreadable' = unreadable \/ unreadable' = unreadable + 1
    BY DEF Next, Start, StartProcess, Shutdown, Crash, Spill, SinkIt, RemoveTarget, RenameSource,
       Exists, Missing, Reopen, Write, WriteRest, Finished, vars
  <2> QED
    BY <2>1, <2>2
<1>1. CASE Start \/ Reopen \/ Finished
  <2>1. /\ UNCHANGED <<file, buffer, removed, lost, dropped, acked, unflushed>>
        /\ \/ firsts' = firsts /\ fd' = fd
           \/ firsts' = firsts \cup {number + 1}
    BY <1>1 DEF Start, StartProcess, Reopen, Finished, vars, diskVars, historyVars
  <2>2. OnDisk' = OnDisk
    BY <2>1, PlacesFrame
  <2> QED
    BY <1>0, <2>1, <2>2 DEF Moves
<1>2. CASE Shutdown \/ \E len \in Sizes : SinkIt(len)
  <2>1. /\ UNCHANGED <<present, removed, lost, acked, unflushed, firsts>>
        /\ \/ Close("none") \/ Close("rotated")
           \/ UNCHANGED <<file, buffer, dropped, fd>>
    BY <1>2 DEF Shutdown, SinkIt
  <2>2. CASE UNCHANGED <<file, buffer, dropped, fd>>
    <3>1. OnDisk' = OnDisk
      BY <2>2 DEF OnDisk
    <3> QED
      BY <1>0, <2>1, <2>2, <3>1 DEF Moves
  <2>3. CASE Close("none") \/ Close("rotated")
    <3>1. (Drain(buffer) \/ Drop) /\ fd' # "open"
      BY <2>1, <2>3, CloseDrains
    <3>2. CASE Drain(buffer)
      <4>1. OnDisk' = OnDisk \cup buffer /\ buffer' = buffer \ buffer /\ dropped' = dropped
        BY <3>2, PlacesDrain DEF Drain
      <4> QED
        BY <1>0, <2>1, <3>1, <4>1 DEF Moves
    <3>3. CASE Drop
      <4>1. Vanish
        BY <3>3 DEF Drop, Vanish
      <4> QED
        BY <1>0, <2>1, <3>1, <4>1, PlacesVanish DEF Loses
    <3> QED
      BY <3>1, <3>2, <3>3
  <2> QED
    BY <2>1, <2>2, <2>3
<1>3. CASE Spill
  <2>1. UNCHANGED <<fd, removed, lost, dropped, acked, unflushed, firsts>>
    BY <1>3 DEF Spill, historyVars
  <2>2. PICK B : Drain(B)
    BY <1>3, SpillDrains
  <2>3. OnDisk' = OnDisk \cup B /\ buffer' = buffer \ B /\ B \subseteq buffer
    BY <2>2, PlacesDrain DEF Drain
  <2> QED
    BY <1>0, <2>1, <2>3 DEF Moves
<1>4. CASE Crash
  <2>1. Vanish /\ fd' # "open" /\ UNCHANGED <<unflushed, firsts>>
    BY <1>4 DEF Crash, Die, Vanish, diskVars
  <2> QED
    BY <1>0, <2>1, PlacesVanish DEF Loses
<1>5. CASE RemoveTarget
  <2>1. /\ pc = "remove" /\ UNCHANGED <<fd, buffer, lost, dropped, acked, unflushed, firsts>>
        /\ buffer = {} /\ slot \in Slots
    BY <1>5 DEF RemoveTarget, historyVars, TypeOK, Numbers
  <2>2. \/ /\ file' = [file EXCEPT ![slot] = {}] /\ removed' = removed \cup file[slot]
           /\ slot \in present
        \/ UNCHANGED <<file, removed>>
    BY <1>5 DEF RemoveTarget, Exists, diskVars
  <2>3. CASE UNCHANGED <<file, removed>>
    <3>1. OnDisk' = OnDisk
      BY <2>3 DEF OnDisk
    <3> QED
      BY <1>0, <2>1, <2>3, <3>1 DEF Moves
  <2>4. CASE /\ file' = [file EXCEPT ![slot] = {}] /\ removed' = removed \cup file[slot]
             /\ slot \in present
    <3>1. OnDisk' = OnDisk \ file[slot]
      BY <2>1, <2>4, PlacesRemove
    <3> QED
      BY <1>0, <2>1, <2>4, <3>1 DEF Removes
  <2> QED
    BY <2>2, <2>3, <2>4
<1>6. CASE RenameSource
  <2>1. /\ pc = "rename" /\ UNCHANGED <<fd, buffer, lost, dropped, acked, unflushed, firsts>>
        /\ buffer = {} /\ slot \in Slots /\ slot - 1 \in Slots
    BY <1>6, Bounds DEF RenameSource, NextSlot, historyVars, TypeOK, Numbers, Slots
  <2>2. \/ /\ file' = [file EXCEPT ![slot] = file[slot - 1], ![slot - 1] = {}]
           /\ removed' = removed \cup file[slot]
        \/ UNCHANGED <<file, removed>>
    BY <1>6 DEF RenameSource, diskVars
  <2>3. CASE UNCHANGED <<file, removed>>
    <3>1. OnDisk' = OnDisk
      BY <2>3 DEF OnDisk
    <3> QED
      BY <1>0, <2>1, <2>3, <3>1 DEF Moves
  <2>4. CASE /\ file' = [file EXCEPT ![slot] = file[slot - 1], ![slot - 1] = {}]
             /\ removed' = removed \cup file[slot]
    <3>1. OnDisk' = OnDisk \ file[slot]
      BY <2>1, <2>4, PlacesRename
    <3>2. CASE slot \in present
      BY <1>0, <2>1, <2>4, <3>1, <3>2 DEF Removes
    <3>3. CASE slot \notin present
      <4>1. file[slot] = {}
        BY <2>1, <3>3 DEF TypeOK
      <4> QED
        BY <1>0, <2>1, <2>4, <3>1, <4>1 DEF Moves
    <3> QED
      BY <3>2, <3>3
  <2> QED
    BY <2>2, <2>3, <2>4
<1>7. CASE Write
  <2>1. /\ pc = "write" /\ UNCHANGED <<removed, dropped, firsts>>
        /\ \/ Accepted
           \/ fd = "open" /\ pc' = "idle" /\ UNCHANGED <<fd, file, buffer, lost, acked, unflushed>>
           \/ fd # "open" /\ Die /\ UNCHANGED <<file, acked, unflushed>>
    BY <1>7, WriteKinds
  <2>2. CASE Accepted
    <3>1. OnDisk' \subseteq OnDisk \cup buffer \cup {number}
      BY <2>1, <2>2, PlacesWrite DEF Accepted
    <3>2. buffer' \subseteq buffer \cup {number}
      BY <2>2 DEF Accepted
    <3> QED
      BY <1>0, <2>1, <2>2, <3>1, <3>2 DEF Adds
  <2>3. CASE UNCHANGED <<fd, file, buffer, lost, acked, unflushed>>
    <3>1. OnDisk' = OnDisk
      BY <2>3 DEF OnDisk
    <3> QED
      BY <1>0, <2>1, <2>3, <3>1 DEF Moves
  <2>4. CASE Die /\ UNCHANGED <<file, acked, unflushed>>
    <3>1. Vanish /\ fd' # "open"
      BY <2>1, <2>4 DEF Die, Vanish
    <3> QED
      BY <1>0, <2>1, <2>4, <3>1, PlacesVanish DEF Loses
  <2> QED
    BY <2>1, <2>2, <2>3, <2>4
<1> QED
  BY <1>1, <1>2, <1>3, <1>4, <1>5, <1>6, <1>7 DEF Next

\* A rotation removes the file of the last slot, which is the oldest, and nothing
\* else: the slot of every other target is free.
LEMMA OldestRemovedPreserved ==
  ASSUME TypeOK, Numbers, Places, Cleared, OnlyOldestRemoved, Next
  PROVE  OnlyOldestRemoved'
<1> SUFFICES ASSUME unreadable' = 0, NEW m \in removed', NEW n \in OnDisk' \cup buffer'
             PROVE  m < n
  BY DEF OnlyOldestRemoved
<1>1. unreadable = 0 /\ \A a \in removed, b \in OnDisk \cup buffer : a < b
  BY StepKinds DEF OnlyOldestRemoved
<1>2. CASE Moves
  BY <1>1, <1>2 DEF Moves
<1>3. CASE Loses
  BY <1>1, <1>3 DEF Loses, Vanish
<1>4. CASE Adds
  <2>1. m \in removed /\ (n \in OnDisk \cup buffer \/ n = number)
    BY <1>4 DEF Adds
  <2>2. m < number
    BY <1>4, <2>1 DEF Adds, Places, AckedOnce, Numbers
  <2> QED
    BY <1>1, <2>1, <2>2
<1>5. CASE Removes
  <2>1. n \in OnDisk /\ n \notin file[slot] /\ (m \in removed \/ m \in file[slot])
    BY <1>5 DEF Removes
  <2>2. CASE m \in file[slot]
    <3>1. slot = MaxFiles /\ slot \in Slots
      BY <1>1, <1>5 DEF Removes, Cleared, TypeOK
    <3>2. PICK j \in Slots : n \in file[j]
      BY <2>1 DEF OnDisk
    <3>3. j < slot
      BY <2>1, <3>1, <3>2, Bounds DEF Slots
    <3> QED
      BY <2>2, <3>1, <3>2, <3>3 DEF Places, Order, AgeOrder
  <2> QED
    BY <1>1, <2>1, <2>2
<1> QED
  BY <1>2, <1>3, <1>4, <1>5, StepKinds

\* With force_flush only a message that was not flushed yet is in the buffer, or gone.
LEMMA FlushedPreserved ==
  ASSUME TypeOK, Numbers, Places, Flushed, Next
  PROVE  Flushed'
<1>0. force_flush' = force_flush
  BY DEF Next
<1>1. CASE Moves \/ Removes
  BY <1>0, <1>1 DEF Moves, Removes, Flushed, Gone
<1>2. CASE Adds
  BY <1>0, <1>2 DEF Adds, Accepted, Flushed, Gone
<1>3. CASE Loses
  BY <1>0, <1>3 DEF Loses, Vanish, Flushed
<1> QED
  BY <1>1, <1>2, <1>3, StepKinds

\* A message that is gone stays between its process and those that began after it.
LEMMA LostBeforePreserved ==
  ASSUME TypeOK, Numbers, Places, LostBefore, Next
  PROVE  LostBefore'
<1>0. /\ Gone \cup buffer \subseteq acked /\ OnDisk \cup removed \cup buffer \subseteq acked
      /\ acked \subseteq Nat /\ number \in Nat /\ firsts \subseteq Nat
  BY DiskTypes, Bounds DEF Places, AckedOnce, Gone
<1>1. CASE Moves
  <2>1. /\ Gone' = Gone /\ firsts \subseteq firsts'
        /\ OnDisk' \cup removed' \cup buffer' = OnDisk \cup removed \cup buffer
    BY <1>1 DEF Moves, Gone
  <2>2. ASSUME NEW m \in Gone, fd' = "open"
        PROVE  \E f \in firsts' : m < f
    <3>1. CASE firsts' = firsts \cup {number + 1}
      <4>1. m \in acked /\ m \in Nat
        BY <1>0
      <4>2. m <= number
        BY <4>1 DEF Numbers
      <4>3. m < number + 1 /\ number + 1 \in firsts'
        BY <1>0, <3>1, <4>1, <4>2
      <4> QED
        BY <4>3
    <3>2. CASE fd = "open"
      BY <2>1, <3>2 DEF LostBefore
    <3> QED
      BY <1>1, <2>2, <3>1, <3>2 DEF Moves
  <2>3. ASSUME NEW m \in Gone, NEW n \in OnDisk \cup removed \cup buffer, m < n
        PROVE  \E f \in firsts' : m < f /\ f <= n
    BY <2>1, <2>3 DEF LostBefore
  <2> QED
    BY <2>1, <2>2, <2>3 DEF LostBefore
<1>2. CASE Removes
  <2>1. /\ Gone' = Gone /\ UNCHANGED <<fd, firsts>>
        /\ OnDisk' \cup removed' \cup buffer' \subseteq OnDisk \cup removed \cup buffer
    <3>1. file[slot] \subseteq OnDisk
      BY <1>2 DEF Removes, TypeOK, OnDisk
    <3> QED
      BY <1>2, <3>1 DEF Removes, Gone
  <2> QED
    BY <2>1 DEF LostBefore
<1>3. CASE Adds
  <2>1. /\ Gone' = Gone /\ firsts' = firsts /\ pc = "write" /\ fd = "open" /\ fd' = fd
        /\ OnDisk' \cup removed' \cup buffer' \subseteq OnDisk \cup removed \cup buffer \cup {number}
    BY <1>3 DEF Adds, Accepted, Gone
  <2>2. \A m \in Gone : \E f \in firsts : m < f /\ f <= number
    BY <2>1 DEF LostBefore, Numbers
  <2> QED
    BY <2>1, <2>2 DEF LostBefore
<1>4. CASE Loses
  <2>1. /\ Gone' = Gone \cup buffer /\ firsts' = firsts /\ fd' # "open" /\ buffer' = {}
        /\ OnDisk' = OnDisk /\ removed' = removed
    BY <1>4 DEF Loses, Vanish
  <2>2. ASSUME NEW m \in buffer, NEW n \in OnDisk \cup removed
        PROVE  ~(m < n)
    <3>1. n < m /\ m \in Nat /\ n \in Nat
      BY <1>0 DEF Places, Order, AgeOrder
    <3> QED
      BY <3>1
  <2> QED
    BY <2>1, <2>2 DEF LostBefore
<1> QED
  BY <1>1, <1>2, <1>3, <1>4, StepKinds

-----------------------------------------------------------------------------
(* What one process adds to a file                                         *)

\* Multiplication by a size is monotone.
LEMMA TimesMonotone ==
  ASSUME NEW c \in Nat, NEW d \in Nat, NEW s \in Nat, c <= d
  PROVE  c * s <= d * s /\ c * s \in Nat /\ 0 * s = 0 /\ (c + 1) * s = c * s + s
<1>1. PICK e \in Nat : d = c + e
  <2>1. d - c \in Nat /\ d = c + (d - c)
    OBVIOUS
  <2> QED
    BY <2>1
<1>2. (c + e) * s = c * s + e * s
  OBVIOUS
<1>3. e * s >= 0 /\ e * s \in Int /\ c * s \in Int /\ c * s >= 0
  OBVIOUS
<1> QED
  BY <1>1, <1>2, <1>3

\* A smaller set has less of a process, and so has the same set when there are
\* more processes.
LEMMA OwnMonotone ==
  ASSUME NEW A, NEW B \in SUBSET Message, A \subseteq B, NEW F, NEW G, F \subseteq G, NEW f
  PROVE  /\ Cardinality(Own(A, G, f)) \in Nat /\ Cardinality(Own(B, F, f)) \in Nat
         /\ Cardinality(Own(A, G, f)) <= Cardinality(Own(B, F, f))
<1>1. IsFiniteSet(Message)
  BY FS_Interval, Bounds DEF Message
<1>2. Own(B, F, f) \subseteq Message /\ Own(A, G, f) \subseteq Own(B, F, f)
  BY DEF Own
<1>3. IsFiniteSet(Own(B, F, f))
  BY <1>1, <1>2, FS_Subset
<1> QED
  BY <1>2, <1>3, FS_Subset, FS_CardinalityType

\* One more message is at most one more of a process.
LEMMA OwnGrows ==
  ASSUME NEW B \in SUBSET Message, NEW F, NEW f, NEW x \in Message
  PROVE  Cardinality(Own(B \cup {x}, F, f)) <= Cardinality(Own(B, F, f)) + 1
<1>1. IsFiniteSet(Message)
  BY FS_Interval, Bounds DEF Message
<1>2. Own(B, F, f) \subseteq Message /\ Own(B \cup {x}, F, f) \subseteq Own(B, F, f) \cup {x}
  BY DEF Own
<1>3. IsFiniteSet(Own(B, F, f))
  BY <1>1, <1>2, FS_Subset
<1>4. /\ IsFiniteSet(Own(B, F, f) \cup {x})
      /\ Cardinality(Own(B, F, f) \cup {x}) <= Cardinality(Own(B, F, f)) + 1
  <2> DEFINE O == Own(B, F, f)
  <2>1. /\ IsFiniteSet(O \cup {x})
        /\ Cardinality(O \cup {x}) = IF x \in O THEN Cardinality(O) ELSE Cardinality(O) + 1
    BY <1>3, FS_AddElement
  <2>2. Cardinality(O) \in Nat
    BY <1>3, FS_CardinalityType
  <2> HIDE DEF O
  <2>3. Cardinality(O) \in Nat => Cardinality(O) <= Cardinality(O) + 1
    OBVIOUS
  <2>4. Cardinality(O \cup {x}) <= Cardinality(O) + 1
    BY <2>1, <2>2, <2>3
  <2> QED
    BY <2>1, <2>4 DEF O
<1>5. /\ IsFiniteSet(Own(B \cup {x}, F, f))
      /\ Cardinality(Own(B \cup {x}, F, f)) <= Cardinality(Own(B, F, f) \cup {x})
  BY <1>2, <1>4, FS_Subset
<1>6. /\ Cardinality(Own(B \cup {x}, F, f)) \in Nat /\ Cardinality(Own(B, F, f)) \in Nat
      /\ Cardinality(Own(B, F, f) \cup {x}) \in Nat
  BY <1>3, <1>4, <1>5, FS_CardinalityType
<1> QED
  BY <1>4, <1>5, <1>6

\* The two parts of Growth.
SlotsFit(F, content) ==
  \A k \in Slots : \A f \in F : \A s \in Smallest : Cardinality(Own(content[k], F, f)) * s <= MaxSize
OpenFits ==
  fd = "open" =>
    /\ pc \in {"idle", "write"} /\ size <= MaxSize
    /\ \A f \in firsts : \A s \in Smallest :
         (\A g \in firsts : g <= f) =>
           (Cardinality(Own(InSlot(0), firsts, f)) + (IF pc = "write" THEN 1 ELSE 0)) * s <= size

\* The messages of every slot, those in the stdio buffer with file 0.
Contents == [k \in Slots |-> InSlot(k)]

\* The bound on the growth has a part for the slots and one for the open file.
LEMMA GrowthParts ==
  /\ Growth <=> SlotsFit(firsts, Contents) /\ OpenFits
  /\ Growth' <=> SlotsFit(firsts', Contents') /\ OpenFits'
BY Bounds DEF Growth, SlotsFit, OpenFits, Contents

\* What is in a slot was acknowledged, so it is not newer than number.
LEMMA ContentTypes ==
  ASSUME TypeOK, Numbers, Places
  PROVE  /\ Contents \in [Slots -> SUBSET Message]
         /\ \A k \in Slots : Contents[k] = InSlot(k)
         /\ \A k \in Slots : \A m \in Contents[k] : m \in Nat /\ m <= number
         /\ Smallest \subseteq Nat
<1>1. \A k \in Slots : file[k] \subseteq OnDisk
  BY DiskTypes
<1>2. OnDisk \cup buffer \subseteq acked /\ acked \subseteq Nat /\ \A m \in acked : m <= number
  BY DiskTypes, Bounds DEF Places, AckedOnce, Numbers
<1>3. \A k \in Slots : InSlot(k) \subseteq file[k] \cup buffer
  BY DEF InSlot
<1> QED
  BY <1>1, <1>2, <1>3, DiskTypes, Bounds DEF Contents, Smallest

\* Moving and losing messages makes no process' share of a file larger.
LEMMA SlotsFitMoved ==
  ASSUME NEW F, NEW C \in [Slots -> SUBSET Message], SlotsFit(F, C), NEW D,
         \A k \in Slots : D[k] = {} \/ \E j \in Slots : D[k] \subseteq C[j]
  PROVE  SlotsFit(F, D)
<1> SUFFICES ASSUME NEW k \in Slots, NEW f \in F, NEW s \in Smallest
             PROVE  Cardinality(Own(D[k], F, f)) * s <= MaxSize
  BY DEF SlotsFit
<1>0. s \in Nat /\ MaxSize \in Nat
  BY Bounds DEF Smallest
<1>1. PICK j \in Slots : D[k] \subseteq C[j]
  BY Bounds
<1>2. /\ Cardinality(Own(D[k], F, f)) \in Nat /\ Cardinality(Own(C[j], F, f)) \in Nat
      /\ Cardinality(Own(D[k], F, f)) <= Cardinality(Own(C[j], F, f))
  BY <1>1, OwnMonotone
<1>3. Cardinality(Own(C[j], F, f)) * s <= MaxSize
  BY DEF SlotsFit
<1> QED
  BY <1>0, <1>2, <1>3, TimesMonotone

\* A step that writes nothing and starts no process.
LEMMA GrowthMoves ==
  ASSUME TypeOK, Numbers, Places, Growth, TypeOK', Numbers', Places', firsts' = firsts,
         \A k \in Slots : Contents'[k] = {} \/ \E j \in Slots : Contents'[k] \subseteq Contents[j],
         fd' # "open" \/ (Contents'[0] = Contents[0] /\ UNCHANGED <<fd, pc, size>>)
  PROVE  Growth'
<1>1. SlotsFit(firsts', Contents')
  BY ContentTypes, GrowthParts, SlotsFitMoved
<1>2. OpenFits'
  <2>1. CASE fd' # "open"
    BY <2>1 DEF OpenFits
  <2>2. CASE Contents'[0] = Contents[0] /\ UNCHANGED <<fd, pc, size>>
    <3>1. InSlot(0)' = InSlot(0)
      BY <2>2, Bounds DEF Contents
    <3> QED
      BY <2>2, <3>1, GrowthParts DEF OpenFits
  <2> QED
    BY <2>1, <2>2
<1> QED
  BY <1>1, <1>2, GrowthParts

\* Messages only leave the buffer for file 0: what is in every slot stays.
LEMMA DrainContents ==
  ASSUME TypeOK, Numbers, NEW B, Drain(B)
  PROVE  Contents' = Contents
<1>1. /\ file'[0] = file[0] \cup B /\ \A k \in Slots \ {0} : file'[k] = file[k]
      /\ B \subseteq buffer /\ buffer' = buffer \ B
  BY DrainTypes DEF Drain
<1>2. \A k \in Slots : InSlot(k)' = InSlot(k)
  BY <1>1 DEF InSlot
<1> QED
  BY <1>2 DEF Contents

\* A step that writes and moves nothing leaves the contents as they are.
LEMMA SameContents ==
  ASSUME UNCHANGED <<file, buffer>>
  PROVE  Contents' = Contents
BY DEF Contents, InSlot

\* A new process has nothing in any file.
LEMMA GrowthStart ==
  ASSUME TypeOK, Numbers, Places, Growth, Start
  PROVE  Growth'
<1>1. /\ pc = "down" /\ firsts' = firsts \cup {number + 1} /\ pc' = "idle" /\ size' = 0
      /\ Contents' = Contents
  BY SameContents DEF Start, StartProcess
<1>2. /\ \A k \in Slots : \A m \in Contents[k] : m \in Nat /\ m <= number
      /\ Contents \in [Slots -> SUBSET Message] /\ Smallest \subseteq Nat
      /\ \A k \in Slots : Contents[k] = InSlot(k)
  BY ContentTypes
<1>3. number \in Nat /\ MaxSize \in Nat /\ firsts \subseteq Nat /\ \A f \in firsts : f <= number + 1
  BY DiskTypes, Bounds DEF Numbers
<1>4. \A k \in Slots : Own(Contents[k], firsts', number + 1) = {}
  <2>1. \A m \in Nat : m <= number => ~(m >= number + 1)
    BY <1>3
  <2> QED
    BY <1>2, <2>1 DEF Own
<1>5. ASSUME NEW k \in Slots, NEW s \in Smallest
      PROVE  Cardinality(Own(Contents[k], firsts', number + 1)) * s = 0
  <2>1. Cardinality(Own(Contents[k], firsts', number + 1)) = 0
    BY <1>4, FS_EmptySet
  <2>2. 0 * s = 0
    BY <1>2
  <2> QED
    BY <2>1, <2>2
<1>6. SlotsFit(firsts', Contents')
  <2>1. ASSUME NEW k \in Slots, NEW f \in firsts, NEW s \in Smallest
        PROVE  Cardinality(Own(Contents[k], firsts', f)) * s <= MaxSize
    <3>1. /\ Cardinality(Own(Contents[k], firsts', f)) \in Nat
          /\ Cardinality(Own(Contents[k], firsts, f)) \in Nat
          /\ Cardinality(Own(Contents[k], firsts', f)) <= Cardinality(Own(Contents[k], firsts, f))
      BY <1>1, <1>2, OwnMonotone
    <3>2. Cardinality(Own(Contents[k], firsts, f)) * s <= MaxSize
      BY GrowthParts DEF SlotsFit
    <3>3. s \in Nat
      BY <1>2
    <3> QED
      BY <1>3, <3>1, <3>2, <3>3, TimesMonotone
  <2>2. ASSUME NEW k \in Slots, NEW s \in Smallest
        PROVE  Cardinality(Own(Contents[k], firsts', number + 1)) * s <= MaxSize
    BY <1>3, <1>5
  <2> QED
    BY <1>1, <2>1, <2>2 DEF SlotsFit
<1>7. OpenFits'
  <2> SUFFICES ASSUME NEW f \in firsts', NEW s \in Smallest, \A g \in firsts' : g <= f
               PROVE  (Cardinality(Own(InSlot(0)', firsts', f)) + (IF pc' = "write" THEN 1 ELSE 0)) * s
                        <= size'
    BY <1>1, <1>3 DEF OpenFits, Smallest
  <2>1. f = number + 1
    BY <1>1, <1>3
  <2>2. InSlot(0)' = Contents[0]
    BY <1>1, Bounds DEF Contents
  <2>3. Cardinality(Own(InSlot(0)', firsts', f)) = 0
    BY <1>4, <2>1, <2>2, Bounds, FS_EmptySet
  <2>4. (0 + 0) * s = 0
    BY <1>2
  <2> QED
    BY <1>1, <2>3, <2>4
<1> QED
  BY <1>6, <1>7, GrowthParts

\* A message that fits is counted before it is written.
LEMMA GrowthCounts ==
  ASSUME TypeOK, Numbers, Places, Growth, NEW len \in Sizes, pc = "idle", pc' = "write",
         size' = size + len, size + len <= MaxSize, UNCHANGED <<file, buffer, fd, firsts>>
  PROVE  Growth'
<1>1. Contents' = Contents /\ InSlot(0)' = InSlot(0)
  BY SameContents DEF InSlot
<1>2. SlotsFit(firsts', Contents')
  BY <1>1, GrowthParts DEF SlotsFit
<1>3. OpenFits'
  <2> SUFFICES ASSUME fd = "open", NEW f \in firsts, NEW s \in Smallest, \A g \in firsts : g <= f
               PROVE  (Cardinality(Own(InSlot(0), firsts, f)) + 1) * s <= size + len
    BY <1>1 DEF OpenFits, Smallest
  <2> DEFINE c == Cardinality(Own(InSlot(0), firsts, f))
  <2>1. (c + 0) * s <= size
    BY GrowthParts DEF OpenFits
  <2>2. c \in Nat
    BY ContentTypes, OwnMonotone, Bounds
  <2>3. s \in Nat /\ s <= len /\ len \in Nat /\ size \in Nat
    BY Bounds DEF Smallest, TypeOK
  <2> HIDE DEF c
  <2>4. (c + 1) * s = c * s + s /\ c * s \in Nat /\ c + 0 = c
    BY <2>2, <2>3, TimesMonotone
  <2>5. c * s + s <= size + len
    BY <2>1, <2>3, <2>4
  <2> QED
    BY <2>4, <2>5 DEF c
<1> QED
  BY <1>2, <1>3, GrowthParts

\* A buffer that is lost is missing in file 0 only.
LEMMA VanishContents ==
  ASSUME file' = file, buffer' = {}
  PROVE  \A k \in Slots : Contents'[k] \subseteq Contents[k]
BY DEF Contents, InSlot

\* Closing the file adds nothing to any slot.
LEMMA CloseContents ==
  ASSUME TypeOK, Numbers, NEW r \in {"none", "rotated"}, Close(r),
         UNCHANGED <<present, removed, lost, acked>>
  PROVE  fd' # "open" /\ \A k \in Slots : Contents'[k] \subseteq Contents[k]
<1>1. (Drain(buffer) \/ Drop) /\ fd' # "open"
  BY CloseDrains
<1> QED
  BY <1>1, DrainContents, VanishContents DEF Drop

\* A failed fwrite leaves the message counted and unwritten.
LEMMA GrowthFails ==
  ASSUME TypeOK, Numbers, Places, Growth, pc = "write", pc' = "idle", fd = "open",
         UNCHANGED <<fd, file, buffer, size, firsts>>
  PROVE  Growth'
<1>1. Contents' = Contents /\ InSlot(0)' = InSlot(0)
  BY SameContents DEF InSlot
<1>2. SlotsFit(firsts', Contents')
  BY <1>1, GrowthParts DEF SlotsFit
<1>3. OpenFits'
  <2>0. size <= MaxSize
    BY GrowthParts DEF OpenFits
  <2> SUFFICES ASSUME NEW f \in firsts, NEW s \in Smallest, \A g \in firsts : g <= f
               PROVE  (Cardinality(Own(InSlot(0), firsts, f)) + 0) * s <= size
    BY <1>1, <2>0 DEF OpenFits, Smallest
  <2> DEFINE c == Cardinality(Own(InSlot(0), firsts, f))
  <2>1. (c + 1) * s <= size
    BY GrowthParts DEF OpenFits
  <2>2. c \in Nat
    BY ContentTypes, OwnMonotone, Bounds
  <2>3. s \in Nat /\ size \in Nat
    BY Bounds DEF Smallest, TypeOK
  <2> HIDE DEF c
  <2>4. (c + 1) * s = c * s + s /\ c * s \in Nat /\ c + 0 = c
    BY <2>2, <2>3, TimesMonotone
  <2>5. c * s <= size
    BY <2>1, <2>3, <2>4
  <2> QED
    BY <2>4, <2>5 DEF c
<1> QED
  BY <1>2, <1>3, GrowthParts

\* A message that fwrite took goes to the newest process, for which it was counted.
LEMMA GrowthWrites ==
  ASSUME TypeOK, Numbers, Places, Growth, pc = "write", Accepted, UNCHANGED <<size, firsts, number>>
  PROVE  Growth'
<1>0. /\ fd = "open" /\ fd' = "open" /\ pc' = "idle" /\ number \in Message
      /\ \A f \in firsts : f <= number
  BY DEF Accepted, Numbers
<1>1. /\ InSlot(0)' = InSlot(0) \cup {number}
      /\ \A k \in Slots \ {0} : InSlot(k)' = InSlot(k)
  <2>1. CASE file' = [file EXCEPT ![0] = file[0] \cup buffer \cup {number}] /\ buffer' = {}
    BY <2>1, Bounds DEF InSlot, TypeOK
  <2>2. CASE file' = file /\ buffer' = buffer \cup {number}
    BY <2>2 DEF InSlot
  <2> QED
    BY <2>1, <2>2 DEF Accepted
<1>2. /\ Contents'[0] = Contents[0] \cup {number} /\ Contents[0] = InSlot(0)
      /\ \A k \in Slots \ {0} : Contents'[k] = Contents[k]
      /\ Contents[0] \subseteq Message
  BY <1>1, ContentTypes, Bounds DEF Contents
<1>3. size \in Nat /\ size <= MaxSize /\ MaxSize \in Nat /\ Smallest \subseteq Nat
      /\ firsts \subseteq Nat /\ number \in Nat
  BY <1>0, GrowthParts, Bounds, DiskTypes DEF OpenFits, TypeOK, Smallest
<1>4. ASSUME NEW f \in firsts, \A g \in firsts : g <= f, NEW s \in Smallest
      PROVE  Cardinality(Own(Contents'[0], firsts, f)) * s <= size
  <2> DEFINE c == Cardinality(Own(Contents[0], firsts, f))
             d == Cardinality(Own(Contents'[0], firsts, f))
  <2>1. (c + 1) * s <= size
    BY <1>0, <1>2, <1>4, GrowthParts DEF OpenFits
  <2>2. d <= c + 1
    BY <1>0, <1>2, OwnGrows
  <2>3. c \in Nat
    BY <1>2, OwnMonotone
  <2>4. d \in Nat
    <3>1. Contents'[0] \in SUBSET Message
      BY <1>0, <1>2
    <3> QED
      BY <3>1, OwnMonotone
  <2> HIDE DEF c, d
  <2>5. d * s <= (c + 1) * s /\ d * s \in Nat /\ (c + 1) * s \in Nat
    <3>1. c + 1 \in Nat /\ s \in Nat
      BY <1>3, <2>3
    <3> QED
      BY <2>2, <2>4, <3>1, TimesMonotone
  <2>6. d * s <= size
    BY <1>3, <2>1, <2>5
  <2> QED
    BY <2>6 DEF d
<1>5. ASSUME NEW f \in firsts, NEW g \in firsts, ~(g <= f)
      PROVE  Own(Contents'[0], firsts, f) = Own(Contents[0], firsts, f)
  <2>1. ~(g > number)
    BY <1>0, <1>3
  <2> QED
    BY <1>2, <1>5, <2>1 DEF Own
<1>6. SlotsFit(firsts', Contents')
  <2>1. ASSUME NEW k \in Slots, NEW f \in firsts, NEW s \in Smallest
        PROVE  Cardinality(Own(Contents'[k], firsts, f)) * s <= MaxSize
    <3>1. CASE k # 0
      BY <1>2, <3>1, GrowthParts DEF SlotsFit
    <3>2. CASE k = 0 /\ \A g \in firsts : g <= f
      <4>1. Cardinality(Own(Contents'[0], firsts, f)) * s <= size
        BY <1>4, <3>2
      <4>2. Contents'[0] \in SUBSET Message
        BY <1>0, <1>2
      <4>3. Cardinality(Own(Contents'[0], firsts, f)) \in Nat
        BY <4>2, OwnMonotone
      <4>4. Cardinality(Own(Contents'[0], firsts, f)) * s \in Nat
        BY <1>3, <4>3, TimesMonotone
      <4> QED
        BY <1>3, <3>2, <4>1, <4>4
    <3>3. CASE k = 0 /\ \E g \in firsts : ~(g <= f)
      <4>1. Own(Contents'[0], firsts, f) = Own(Contents[0], firsts, f)
        BY <1>5, <3>3
      <4> QED
        BY <3>3, <4>1, GrowthParts DEF SlotsFit
    <3> QED
      BY <3>1, <3>2, <3>3
  <2> QED
    BY <2>1 DEF SlotsFit
<1>7. OpenFits'
  <2> SUFFICES ASSUME NEW f \in firsts, NEW s \in Smallest, \A g \in firsts : g <= f
               PROVE  (Cardinality(Own(InSlot(0)', firsts, f)) + 0) * s <= size
    BY <1>0, <1>3 DEF OpenFits, Smallest
  <2>1. InSlot(0)' = Contents'[0]
    BY <1>1, <1>2
  <2>2. Contents'[0] \in SUBSET Message
    BY <1>0, <1>2
  <2>3. Cardinality(Own(Contents'[0], firsts, f)) + 0 = Cardinality(Own(Contents'[0], firsts, f))
    BY <2>2, OwnMonotone
  <2>4. Cardinality(Own(Contents'[0], firsts, f)) * s <= size
    BY <1>4
  <2> QED
    BY <2>1, <2>3, <2>4
<1> QED
  BY <1>6, <1>7, GrowthParts

\* So does every step: the rest only moves or removes messages.
LEMMA GrowthPreserved ==
  ASSUME TypeOK, Numbers, Places, Growth, TypeOK', Numbers', Places', Next
  PROVE  Growth'
<1>0. 0 \in Slots /\ slot \in Slots /\ Contents \in [Slots -> SUBSET Message]
  BY Bounds, ContentTypes DEF TypeOK
<1>1. CASE Start
  BY <1>1, GrowthStart
<1>2. CASE Shutdown
  <2>1. Close("none") /\ UNCHANGED <<present, removed, lost, acked, firsts>>
    BY <1>2 DEF Shutdown
  <2> QED
    BY <2>1, CloseContents, GrowthMoves
<1>3. CASE Crash
  BY <1>3, VanishContents, GrowthMoves DEF Crash, Die, diskVars
<1>4. CASE Spill
  <2>1. Contents' = Contents
    BY <1>4, SpillDrains, DrainContents
  <2>2. UNCHANGED <<fd, pc, size, firsts>>
    BY <1>4 DEF Spill, historyVars
  <2> QED
    BY <2>1, <2>2, GrowthMoves
<1>5. ASSUME NEW len \in Sizes, SinkIt(len)
      PROVE  Growth'
  <2>1. CASE size + len > MaxSize
    <3>1. Close("rotated") /\ UNCHANGED <<present, removed, lost, acked, firsts>>
      BY <1>5, <2>1 DEF SinkIt
    <3> QED
      BY <3>1, CloseContents, GrowthMoves
  <2>2. CASE ~(size + len > MaxSize)
    <3>1. /\ pc = "idle" /\ pc' = "write" /\ size' = size + len
          /\ UNCHANGED <<file, buffer, fd, firsts>>
      BY <1>5, <2>2 DEF SinkIt
    <3>2. size \in Nat /\ len \in Nat /\ MaxSize \in Nat
      BY Bounds DEF TypeOK
    <3>3. size + len <= MaxSize
      BY <2>2, <3>2
    <3> QED
      BY <3>1, <3>3, GrowthCounts
  <2> QED
    BY <2>1, <2>2
<1>6. CASE RemoveTarget
  <2>1. firsts' = firsts /\ buffer = {} /\ buffer' = buffer /\ fd' = fd /\ fd # "open"
    BY <1>6 DEF RemoveTarget, historyVars, Numbers, TypeOK
  <2>2. file' = file \/ file' = [file EXCEPT ![slot] = {}]
    BY <1>6 DEF RemoveTarget, diskVars
  <2>3. \A k \in Slots : Contents'[k] = {} \/ Contents'[k] = Contents[k]
    BY <1>0, <2>1, <2>2 DEF Contents, InSlot, TypeOK
  <2> QED
    BY <2>1, <2>3, GrowthMoves
<1>7. CASE RenameSource
  <2>1. firsts' = firsts /\ buffer = {} /\ buffer' = buffer /\ fd' = fd /\ fd # "open"
    BY <1>7 DEF RenameSource, historyVars, Numbers, TypeOK
  <2>2. slot - 1 \in Slots
    BY <1>7, Bounds DEF RenameSource, TypeOK, Numbers, Slots
  <2>3. file' = file \/ file' = [file EXCEPT ![slot] = file[slot - 1], ![slot - 1] = {}]
    BY <1>7 DEF RenameSource, diskVars
  <2>4. Contents = file /\ Contents' = file'
    BY <2>1 DEF Contents, InSlot, TypeOK
  <2>5. \A k \in Slots : file'[k] = {} \/ file'[k] = file[k] \/ file'[k] = file[slot - 1]
    BY <2>3 DEF TypeOK
  <2> QED
    BY <2>1, <2>2, <2>4, <2>5, GrowthMoves
<1>8. CASE Reopen
  <2>1. Contents' = Contents /\ firsts' = firsts /\ fd' # "open"
    BY <1>8, SameContents DEF Reopen, diskVars, historyVars, Numbers
  <2> QED
    BY <2>1, GrowthMoves
<1>9. CASE Write
  <2>1. pc = "write" /\ UNCHANGED <<size, firsts, number>>
    BY <1>9, WriteKinds
  <2>2. CASE Accepted
    BY <2>1, <2>2, GrowthWrites
  <2>3. CASE fd = "open" /\ pc' = "idle" /\ UNCHANGED <<fd, file, buffer>>
    BY <2>1, <2>3, GrowthFails
  <2>4. CASE Die /\ UNCHANGED file
    BY <2>1, <2>4, VanishContents, GrowthMoves DEF Die
  <2> QED
    BY <1>9, <2>2, <2>3, <2>4, WriteKinds
<1>10. CASE Finished
  <2>1. Contents' = Contents /\ UNCHANGED <<fd, pc, size, firsts>>
    BY <1>10, SameContents DEF Finished, vars, diskVars, historyVars
  <2> QED
    BY <2>1, GrowthMoves
<1> QED
  BY <1>1, <1>2, <1>3, <1>4, <1>5, <1>6, <1>7, <1>8, <1>9, <1>10 DEF Next

-----------------------------------------------------------------------------
(* The theorems                                                            *)

\* Init establishes the inductive invariant: nothing was written, and no process
\* has begun.
LEMMA InvariantInit ==
  ASSUME Init
  PROVE  IInv
<1> USE Bounds
<1>1. /\ OnDisk = {} /\ \A k \in Slots : file[k] = {}
      /\ buffer = {} /\ removed = {} /\ lost = {} /\ dropped = {} /\ acked = {} /\ firsts = {}
      /\ pc = "down" /\ fd = "none"
  BY DEF Init, OnDisk
<1>2. TypeOK
  BY DEF Init, TypeOK
<1>3. Numbers /\ Cleared
  BY <1>1 DEF Numbers, Cleared
<1>4. Order /\ AckedOnce /\ OnlyOldestRemoved /\ LostBefore
  BY <1>1 DEF Order, AgeOrder, AckedOnce, OnlyOldestRemoved, LostBefore, Gone
<1>5. Flushed /\ Growth
  BY <1>1 DEF Flushed, Gone, Growth
<1> QED
  BY <1>2, <1>3, <1>4, <1>5 DEF IInv

\* Every step preserves it.
LEMMA InvariantStep ==
  ASSUME IInv, [Next]_vars
  PROVE  IInv'
<1>1. TypeOK /\ Numbers /\ Places /\ Cleared /\ OnlyOldestRemoved /\ Flushed /\ LostBefore /\ Growth
  BY DEF IInv, Places
<1>2. CASE Next
  <2>1. TypeOK' /\ Numbers'
    BY <1>1, <1>2, TypesPreserved
  <2>2. Places'
    BY <1>1, <1>2, PlacesPreserved
  <2>3. Cleared' /\ OnlyOldestRemoved' /\ Flushed' /\ LostBefore'
    BY <1>1, <1>2, ClearedPreserved, OldestRemovedPreserved, FlushedPreserved, LostBeforePreserved
  <2>4. Growth'
    BY <1>1, <1>2, <2>1, <2>2, GrowthPreserved
  <2> QED
    BY <2>1, <2>2, <2>3, <2>4 DEF IInv, Places
<1>3. CASE UNCHANGED vars
  <2>1. TypeOK' /\ Numbers' /\ Cleared'
    BY <1>1, <1>3 DEF vars, diskVars, historyVars, TypeOK, Numbers, Cleared
  <2>2. /\ Order' /\ AckedOnce' /\ OnlyOldestRemoved' /\ Flushed' /\ LostBefore'
    BY <1>1, <1>3 DEF vars, diskVars, historyVars, Places, Order, AgeOrder, AckedOnce, OnDisk,
       OnlyOldestRemoved, Flushed, LostBefore, Gone
  <2>3. Growth'
    BY <1>1, <1>3 DEF vars, diskVars, historyVars, Growth, Own, InSlot
  <2> QED
    BY <2>1, <2>2, <2>3 DEF IInv
<1> QED
  BY <1>2, <1>3

\* In every reachable state the inductive invariant holds.
THEOREM RotatingInvariant == Spec => []IInv
<1>1. Init => IInv
  BY InvariantInit
<1>2. IInv /\ [Next]_vars => IInv'
  BY InvariantStep
<1> QED
  BY <1>1, <1>2, PTL DEF Spec

\* Every variable has its type, and only an open file has a buffer.
THEOREM RotatingTypes == Spec => []TypeOK
<1>1. IInv => TypeOK
  BY DEF IInv
<1> QED
  BY <1>1, RotatingInvariant, PTL

\* A backup with a higher number is older, through failed and interrupted rotations.
THEOREM RotatingAgeOrder == Spec => []AgeOrder
<1>1. IInv => AgeOrder
  BY DEF IInv, Order
<1> QED
  BY <1>1, RotatingInvariant, PTL

\* While every file could be read, what rotations removed is older than what is left.
THEOREM RotatingOnlyOldestRemoved == Spec => []OnlyOldestRemoved
<1>1. IInv => OnlyOldestRemoved
  BY DEF IInv
<1> QED
  BY <1>1, RotatingInvariant, PTL

\* A message whose SinkIt returned is in one place: a file, the buffer, rotated out,
\* lost in a crash or dropped by an fclose that failed.
THEOREM RotatingAckedOnce == Spec => []AckedOnce
<1>1. IInv => AckedOnce
  BY DEF IInv
<1> QED
  BY <1>1, RotatingInvariant, PTL

\* With force_flush an acknowledged message whose fflush succeeded is in a file or
\* rotated out, whatever became of its process and of fclose.
THEOREM RotatingAckedSurvives == Spec => []AckedSurvives
<1>1. IInv => AckedSurvives
  BY DEF IInv, AckedOnce, Flushed, Gone, AckedSurvives
<1> QED
  BY <1>1, RotatingInvariant, PTL

\* A crash, or an fclose that fails, takes the newest messages of its process.
THEOREM RotatingOnlyNewestLost == Spec => []OnlyNewestLost
<1>1. IInv => OnlyNewestLost
  BY DEF IInv, LostBefore, Gone, OnlyNewestLost
<1> QED
  BY <1>1, RotatingInvariant, PTL

\* No file has more than max_size of one process.
THEOREM RotatingGrowthPerProcess == Spec => []GrowthPerProcess
<1>1. IInv => GrowthPerProcess
  <2> SUFFICES ASSUME Growth, NEW k \in Slots, NEW f \in firsts, NEW s \in Sizes,
                      \A l \in Sizes : s <= l
               PROVE  Cardinality(Own(InSlot(k), firsts, f)) * s <= MaxSize
    BY DEF IInv, GrowthPerProcess, Own, InSlot
  <2>1. s \in Smallest
    BY DEF Smallest
  <2> QED
    BY <2>1 DEF Growth
<1> QED
  BY <1>1, RotatingInvariant, PTL
=============================================================================
