------------------------------- MODULE RotatingFile -------------------------------
(***************************************************************************)
(* RotatingFileSink of src/common/log/sinks/file_sink.h and the FileHelper *)
(* of src/common/io/file_helper.h under it, over the files of a directory  *)
(* that outlives the process.                                              *)
(*                                                                         *)
(* File k is base.k.ext, file 0 is base.ext; a file is the set of messages *)
(* in it, numbered in the order SinkIt was called with them.  Every call   *)
(* of the C library and of the operating system is a step of its own, may  *)
(* fail, and may be the last one of its process.  BaseSink::Log holds its  *)
(* mutex around SinkIt, so one call at a time is all there is.             *)
(***************************************************************************)
EXTENDS Integers, FiniteSets

CONSTANTS
  MaxFiles,      \* max_files: the backups kept
  MaxSize,       \* max_size
  Sizes,         \* sizes of formatted messages
  MaxMessages,   \* bound: calls of SinkIt, over all processes
  MaxProcesses,  \* bound: processes, one after the other
  MaxFaults,     \* bound: failures of fopen, remove, rename, fwrite, fflush, fclose
  MaxUnreadable  \* bound: existing files that cannot be opened for reading

ASSUME ParameterAssumption ==
  /\ {MaxFiles, MaxSize, MaxMessages, MaxProcesses, MaxFaults, MaxUnreadable} \subseteq Nat
  /\ Sizes \subseteq Nat \ {0}

Slots == 0..MaxFiles
Message == 1..MaxMessages

VARIABLES
  present,    \* the directory: the slots there is a file for
  file,       \* the messages in the file of a slot, none if there is no file
  buffer,     \* messages fwrite accepted that are still in the stdio buffer
  fd,         \* fd_: "open", or why it is null
  force_flush,\* the parameter of that name, the same in every process
  pc,         \* "down", "idle", or where SinkIt is
  slot,       \* the loop variable i of _Rotate
  length,     \* msg.formatted.size() of the message in hand
  size,       \* current_size_
  number,     \* history: number of the last message
  acked,      \* history: messages whose SinkIt returned
  removed,    \* history: messages whose file was removed or overwritten
  lost,       \* history: messages that died in the buffer with their process
  dropped,    \* history: messages that an fclose that failed took from the buffer
  unflushed,  \* history: messages whose fflush failed
  firsts,     \* history: the first message number of every process
  faults, unreadable

diskVars == <<present, file, removed>>
historyVars == <<number, acked, lost, dropped, unflushed, firsts>>
vars == <<force_flush, diskVars, buffer, fd, pc, slot, length, size, historyVars, faults, unreadable>>

OnDisk == UNION {file[k] : k \in Slots}

Init ==
  /\ present = {} /\ file = [k \in Slots |-> {}]
  /\ buffer = {} /\ fd = "none" /\ force_flush \in BOOLEAN /\ pc = "down"
  /\ slot = 0 /\ length = 0 /\ size = 0
  /\ number = 0 /\ acked = {} /\ removed = {} /\ lost = {} /\ dropped = {}
  /\ unflushed = {} /\ firsts = {}
  /\ faults = 0 /\ unreadable = 0

\* A call fails; the budget of failures is a bound.
Fails == faults < MaxFaults /\ faults' = faults + 1

\* What is in the buffer reaches file 0, the one that is open.
Flush == /\ file' = [file EXCEPT ![0] = file[0] \cup buffer]
         /\ buffer' = {}

-----------------------------------------------------------------------------
(* Constructor and destructor                                              *)

\* FileHelper::Open in append mode: a file is there afterwards, or all
\* open_tries attempts failed, which Open does not report.
StartProcess ==
  /\ pc = "down"
  /\ Cardinality(firsts) < MaxProcesses
  /\ firsts' = firsts \cup {number + 1}
  /\ pc' = "idle"
  /\ size' = 0
  /\ \/ fd' = "open" /\ present' = present \cup {0} /\ UNCHANGED faults
     \/ fd' = "unopened" /\ Fails /\ UNCHANGED present
  /\ UNCHANGED <<buffer, slot, length, number, acked, lost, dropped, unflushed, unreadable>>

\* Slip: the file is opened with truncation.
StartTruncates ==
  /\ StartProcess
  /\ file' = [file EXCEPT ![0] = {}]
  /\ removed' = removed \cup file[0]

Start == StartProcess /\ UNCHANGED <<file, removed>>

\* Close: fclose writes out the buffer and frees it.  It may fail before all is
\* written (the part before that is a Spill); nobody looks at its result, and fd_
\* is null either way.
Close(reason) ==
  \/ fd = "open" /\ fd' = reason /\ Flush /\ UNCHANGED <<faults, dropped>>
  \/ /\ fd = "open" /\ fd' = reason
     /\ Fails /\ dropped' = dropped \cup buffer /\ buffer' = {} /\ UNCHANGED file
  \/ fd # "open" /\ UNCHANGED <<file, buffer, fd, faults, dropped>>

Shutdown ==
  /\ pc = "idle"
  /\ Close("none")
  /\ pc' = "down"
  /\ UNCHANGED <<present, removed, slot, length, size, number, acked, lost, unflushed, firsts,
                 unreadable>>

\* The process dies between any two steps, with what is in its buffer.
Die == /\ pc' = "down"
       /\ fd' = "none"
       /\ lost' = lost \cup buffer
       /\ buffer' = {}

Crash ==
  /\ pc # "down"
  /\ Die
  /\ UNCHANGED <<diskVars, slot, length, size, number, acked, dropped, unflushed, firsts, faults,
                 unreadable>>

\* The C library writes out the oldest part of its buffer whenever it likes.
Spill ==
  /\ \E m \in buffer :
       /\ file' = [file EXCEPT ![0] = file[0] \cup {n \in buffer : n <= m}]
       /\ buffer' = {n \in buffer : n > m}
  /\ UNCHANGED <<present, removed, fd, pc, slot, length, size, historyVars, faults, unreadable>>

-----------------------------------------------------------------------------
(* SinkIt and _Rotate                                                      *)

\* Slip: the size before the message is compared.
SinkItComparesFirst(len) ==
  /\ pc = "idle"
  /\ number < MaxMessages
  /\ number' = number + 1
  /\ length' = len
  /\ size' = size + len
  /\ IF size > MaxSize
       THEN /\ Close("rotated")
            /\ slot' = MaxFiles
            /\ pc' = IF MaxFiles = 0 THEN "reopen" ELSE "remove"
       ELSE pc' = "write" /\ UNCHANGED <<file, buffer, fd, slot, faults, dropped>>
  /\ UNCHANGED <<present, removed, acked, lost, unflushed, firsts, unreadable>>

\* Count the message, and rotate first if it does not fit.
SinkIt(len) ==
  /\ pc = "idle"
  /\ number < MaxMessages
  /\ number' = number + 1
  /\ length' = len
  /\ size' = size + len
  /\ IF size + len > MaxSize
       THEN /\ Close("rotated")
            /\ slot' = MaxFiles
            /\ pc' = IF MaxFiles = 0 THEN "reopen" ELSE "remove"
       ELSE pc' = "write" /\ UNCHANGED <<file, buffer, fd, slot, faults, dropped>>
  /\ UNCHANGED <<present, removed, acked, lost, unflushed, firsts, unreadable>>

\* FileExists(slot k) opens the file for reading: a file that cannot be opened
\* does not exist.
Exists(k) == k \in present /\ UNCHANGED unreadable
Missing(k) ==
  \/ k \notin present /\ UNCHANGED unreadable
  \/ k \in present /\ unreadable < MaxUnreadable /\ unreadable' = unreadable + 1

\* The target of the rename is removed first.
RemoveTarget ==
  /\ pc = "remove"
  /\ \/ /\ Exists(slot)
        /\ present' = present \ {slot}
        /\ file' = [file EXCEPT ![slot] = {}]
        /\ removed' = removed \cup file[slot]
        /\ pc' = "rename"
        /\ UNCHANGED faults
     \/ Exists(slot) /\ Fails /\ pc' = "idle" /\ UNCHANGED diskVars
     \/ Missing(slot) /\ pc' = "rename" /\ UNCHANGED <<diskVars, faults>>
  /\ UNCHANGED <<buffer, fd, slot, length, size, historyVars>>

\* Slip: one round too many.
NextSlotTooFar == /\ slot' = slot - 1
                  /\ pc' = IF slot = 0 THEN "reopen" ELSE "remove"

NextSlot == /\ slot' = slot - 1
            /\ pc' = IF slot = 1 THEN "reopen" ELSE "remove"

\* Slip: the source is copied and not renamed.
RenameSourceCopies ==
  /\ pc = "rename"
  /\ \/ /\ Exists(slot - 1)
        /\ present' = present \cup {slot}
        /\ file' = [file EXCEPT ![slot] = file[slot - 1]]
        /\ removed' = removed \cup file[slot]
     \/ Missing(slot - 1) /\ UNCHANGED diskVars
  /\ NextSlot
  /\ UNCHANGED <<buffer, fd, length, size, historyVars, faults>>

\* rename replaces a target that is there.
RenameSource ==
  /\ pc = "rename"
  /\ \/ /\ Exists(slot - 1)
        /\ present' = (present \ {slot - 1}) \cup {slot}
        /\ file' = [file EXCEPT ![slot] = file[slot - 1], ![slot - 1] = {}]
        /\ removed' = removed \cup file[slot]
        /\ NextSlot
        /\ UNCHANGED faults
     \/ Exists(slot - 1) /\ Fails /\ pc' = "idle" /\ UNCHANGED <<diskVars, slot>>
     \/ Missing(slot - 1) /\ NextSlot /\ UNCHANGED <<diskVars, faults>>
  /\ UNCHANGED <<buffer, fd, length, size, historyVars>>

\* Reopen(true) does nothing for a file that has a name; current_size_ starts
\* again with the message in hand.
Reopen ==
  /\ pc = "reopen"
  /\ size' = length
  /\ pc' = "write"
  /\ UNCHANGED <<diskVars, buffer, fd, slot, length, historyVars, faults, unreadable>>

\* FileHelper::Write with a file: fwrite fails, which is reported, or takes the
\* message; the result of fflush is not looked at.
FwriteFails == fd = "open" /\ Fails /\ pc' = "idle"

Fwrite ==
  /\ fd = "open"
  /\ pc' = "idle"
  /\ acked' = acked \cup {number}
  /\ UNCHANGED <<fd, lost>>

Unflushed == buffer' = buffer \cup {number} /\ UNCHANGED file

Fflush ==
  \/ /\ file' = [file EXCEPT ![0] = file[0] \cup buffer \cup {number}]
     /\ buffer' = {}
     /\ UNCHANGED <<unflushed, faults>>
  \/ Unflushed /\ Fails /\ unflushed' = unflushed \cup {number}

\* Without a file fwrite gets a null pointer, which ends the process.
NullFile == fd # "open" /\ Die /\ UNCHANGED <<file, acked, unflushed, faults>>

WriteRest == UNCHANGED <<present, removed, slot, length, size, number, dropped, firsts, unreadable>>

\* Slip: no fflush after the write.
WriteUnflushed ==
  /\ pc = "write"
  /\ NullFile \/ (Fwrite /\ Unflushed /\ UNCHANGED <<unflushed, faults>>)
  /\ WriteRest

\* Slip: a short fwrite is taken for a complete one.
WriteUnchecked ==
  /\ pc = "write"
  /\ \/ Fwrite /\ Unflushed /\ UNCHANGED <<unflushed, faults>>
     \/ Fwrite /\ Fails /\ UNCHANGED <<file, buffer, unflushed>>
  /\ WriteRest

\* Slip: after a failed fwrite the buffer is purged.
WritePurges ==
  /\ pc = "write"
  /\ \/ Fwrite /\ Unflushed /\ UNCHANGED <<unflushed, faults>>
     \/ /\ FwriteFails
        /\ lost' = lost \cup buffer
        /\ buffer' = {}
        /\ UNCHANGED <<file, fd, acked, unflushed>>
  /\ WriteRest

Write ==
  /\ pc = "write"
  /\ \/ NullFile
     \/ Fwrite /\ force_flush /\ Fflush
     \/ Fwrite /\ ~force_flush /\ Unflushed /\ UNCHANGED <<unflushed, faults>>
     \/ FwriteFails /\ UNCHANGED <<file, buffer, fd, lost, acked, unflushed>>
  /\ WriteRest

-----------------------------------------------------------------------------

\* No process is left to run.
Finished == pc = "down" /\ Cardinality(firsts) = MaxProcesses /\ UNCHANGED vars

Next ==
  /\ UNCHANGED force_flush
  /\ \/ Start \/ Shutdown \/ Crash \/ Spill
     \/ \E len \in Sizes : SinkIt(len)
     \/ RemoveTarget \/ RenameSource \/ Reopen \/ Write
     \/ Finished

Spec == Init /\ [][Next]_vars

-----------------------------------------------------------------------------
(* Properties                                                              *)

\* Every variable has its type, and only an open file has a buffer.
TypeOK ==
  /\ present \subseteq Slots
  /\ file \in [Slots -> SUBSET Message]
  /\ \A k \in Slots \ present : file[k] = {}
  /\ buffer \subseteq Message
  /\ fd \in {"open", "none", "unopened", "rotated"} /\ force_flush \in BOOLEAN
  /\ buffer # {} => fd = "open"
  /\ pc \in {"down", "idle", "remove", "rename", "reopen", "write"}
  /\ slot \in Slots /\ length \in Sizes \cup {0} /\ size \in Nat
  /\ number \in 0..MaxMessages
  /\ {acked, removed, lost, dropped, unflushed} \subseteq SUBSET Message
  /\ firsts \subseteq 1..(MaxMessages + 1)
  /\ faults \in 0..MaxFaults /\ unreadable \in 0..MaxUnreadable

\* A backup with a higher number is older: whatever call fails and wherever the
\* process dies in the middle of a rotation, messages of file k are older than
\* those of every file with a smaller number and those in the buffer.
AgeOrder ==
  /\ \A j, k \in Slots : j < k => \A m \in file[k], n \in file[j] : m < n
  /\ \A m \in OnDisk, n \in buffer : m < n

\* A rotation never removes a file while an older one is kept: what was removed
\* is older than everything that is left, after failed and repeated rotations too,
\* unless a file could not be read and was taken for missing (file_sink.h:123).
OnlyOldestRemoved == unreadable = 0 => \A m \in removed, n \in OnDisk \cup buffer : m < n

\* With force_flush a message whose SinkIt returned is in a file, or its backup
\* was rotated out, and no crash and no fclose that failed takes it away, unless
\* fflush failed, which Write does not look at (file_helper.h:109).
AckedSurvives == force_flush => acked \ unflushed \subseteq OnDisk \cup removed

\* Without force_flush a crash takes the newest messages of its process, never one
\* from the middle, and so does an fclose that failed, since no process has a file
\* after a rotation: a newer one that is on disk is from a later process.
OnlyNewestLost ==
  \A m \in lost \cup dropped, n \in OnDisk \cup removed :
    m < n => \E f \in firsts : m < f /\ f <= n

\* Every message is accounted for, once: returned from SinkIt means in a file, in
\* the buffer, rotated out, lost in a crash, or dropped by an fclose that failed,
\* whose result Close does not look at (file_helper.h:94).
AckedOnce ==
  /\ acked = OnDisk \cup buffer \cup removed \cup lost \cup dropped
  /\ removed \cap (OnDisk \cup buffer) = {}
  /\ lost \cap (OnDisk \cup buffer \cup removed) = {}
  /\ dropped \cap (OnDisk \cup buffer \cup removed \cup lost) = {}
  /\ \A j, k \in Slots : j # k => file[j] \cap file[k] = {}

\* max_size bounds what one process adds to a file, however many of its calls
\* failed before: current_size_ starts from 0 in every process, so a file may have
\* that much of each process that appended to it (file_sink.h:72).
GrowthPerProcess ==
  \A k \in Slots : \A f \in firsts : \A s \in Sizes :
    LET own == {m \in file[k] \cup (IF k = 0 THEN buffer ELSE {}) :
                  m >= f /\ \A g \in firsts : g <= f \/ g > m}
    IN  (\A l \in Sizes : s <= l) => Cardinality(own) * s <= MaxSize

\* "@brief reopen file" (file_helper.h:76): after a rotation there is a file to
\* write the message to.
RotationReopens == pc = "write" => fd # "rotated"

=============================================================================
