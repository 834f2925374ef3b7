---------------------------- MODULE MemoryWriter ----------------------------
(* The life of memory writers (BasicMemoryWriter, common/util/format.h):    *)
(* they are constructed, written to, moved as part of messages and          *)
(* destroyed, and the allocator may refuse.  Every call is one step: a      *)
(* writer belongs to one thread.                                            *)
EXTENDS FieldLayout

CONSTANTS Writers,     \* the objects
          Statements,  \* what the program writes
          Codes, Messages, Descriptions,  \* system errors, as they are reported
          CodeRange,   \* number of values of an error code
          MaxCalls     \* bound on the calls that write or move

\* The text of a floating-point number, which snprintf made, begins with no blank.
ASSUME StatementAssumption ==
  \A st \in Statements :
    /\ st.op \in {"text", "one", "str", "char", "int", "double"}
    /\ st.num \in -MaxNumber..MaxNumber /\ st.spec \in Specs
    /\ st.str \in Seq(STRING) /\ \A i \in 1..Len(st.str) : st.str[i] # JUNK
    /\ st.op \in {"one", "char"} => Len(st.str) = 1
    /\ st.op = "double" => st.str # <<>> /\ st.str[1] # " "
ASSUME ErrorAssumption ==
  /\ CodeRange \in 1..(MaxNumber + 1)
  /\ Codes \subseteq -(CodeRange \div 2)..((CodeRange \div 2) - 1)
  /\ Messages \subseteq Seq(STRING) /\ Descriptions \subseteq Seq(STRING)
\* An object has room for an error without its message.
ASSUME RoomAssumption == INLINE_BUFFER_SIZE >= 12
ASSUME CallAssumption == MaxCalls \in Nat

VARIABLES buf,     \* the buffer of every writer
          status,  \* "none", "live" or "moved": moved from
          heap,    \* the blocks that are allocated
          want,    \* the text every writer should hold
          lost,    \* a statement the writer is known to get wrong was written
          last,    \* how the last call went
          calls
vars == <<buf, status, heap, want, lost, last, calls>>

Call(op) == [op |-> op, error |-> "", faults |-> {}, stale |-> FALSE, code |-> 0]

Init ==
  /\ buf = [w \in Writers |-> NewBuffer]
  /\ status = [w \in Writers |-> "none"]
  /\ heap = {}
  /\ want = [w \in Writers |-> <<>>]
  /\ lost = [w \in Writers |-> FALSE]
  /\ last = Call("start")
  /\ calls = 0

\* After the last of these calls, writers are only destroyed.
More == calls < MaxCalls
Count == More /\ calls' = calls + 1

-----------------------------------------------------------------------------
Construct(w) ==
  /\ More /\ status[w] = "none"
  /\ status' = [status EXCEPT ![w] = "live"]
  /\ buf' = [buf EXCEPT ![w] = NewBuffer]
  /\ want' = [want EXCEPT ![w] = <<>>]
  /\ lost' = [lost EXCEPT ![w] = FALSE]
  /\ last' = Call("construct")
  /\ UNCHANGED <<heap, calls>>

\* The statement st on writer w.  A call that throws has written some of it: the
\* text of the writer is then what it is.
Insert(w, st) ==
  LET m == Write(Enter(buf[w], heap), st)
      threw == m.error # ""
  IN  /\ Count /\ status[w] = "live"
      /\ buf' = [buf EXCEPT ![w] = Leave(m)]
      /\ heap' = m.heap
      /\ want' = [want EXCEPT ![w] = IF threw THEN Content(Leave(m))
                                     ELSE @ \o Wanted(st)]
      /\ lost' = [lost EXCEPT ![w] = ~threw /\ (@ \/ LosesNumber(buf[w], st)
                                                  \/ WritesFreed(buf[w], st))]
      /\ last' = [Call("insert") EXCEPT !.error = m.error, !.faults = m.faults,
                     !.stale = ~threw /\ WritesFreed(buf[w], st)]
      /\ UNCHANGED status

\* c_str puts a NUL behind the content, which may need a growth.
CStr(w) ==
  LET r == Reserve(Enter(buf[w], heap), buf[w].size + 1)
      m == Put(r, Pointer(r, r.size), <<NUL>>)
  IN  /\ Count /\ status[w] = "live"
      /\ buf' = [buf EXCEPT ![w] = Leave(m)]
      /\ heap' = m.heap
      /\ last' = [Call("c_str") EXCEPT !.error = m.error, !.faults = m.faults]
      /\ UNCHANGED <<status, want, lost>>

Clear(w) ==
  /\ More /\ status[w] = "live"
  /\ buf' = [buf EXCEPT ![w] = Leave(Cleared(Enter(buf[w], heap)))]
  /\ want' = [want EXCEPT ![w] = <<>>]
  /\ lost' = [lost EXCEPT ![w] = FALSE]
  /\ last' = Call("clear")
  /\ UNCHANGED <<status, heap, calls>>

\* Writer v moves into w, which is new or frees its own storage first.  A writer
\* that was moved from is assigned to or destroyed, as in the messages.
Move(w, v) ==
  /\ Count /\ w # v /\ status[v] = "live"
  /\ heap' = IF status[w] = "none" THEN heap ELSE Freed(buf[w], heap)
  /\ buf' = [buf EXCEPT ![w] = MovedTo(buf[v]), ![v] = MovedFrom(buf[v])]
  /\ status' = [status EXCEPT ![w] = "live", ![v] = "moved"]
  /\ want' = [want EXCEPT ![w] = want[v], ![v] = <<>>]
  /\ lost' = [lost EXCEPT ![w] = lost[v], ![v] = FALSE]
  /\ last' = Call("move")

Destroy(w) ==
  /\ status[w] # "none"
  /\ heap' = Freed(buf[w], heap)
  /\ buf' = [buf EXCEPT ![w] = NewBuffer]
  /\ status' = [status EXCEPT ![w] = "none"]
  /\ want' = [want EXCEPT ![w] = <<>>]
  /\ lost' = [lost EXCEPT ![w] = FALSE]
  /\ last' = Call("destroy")
  /\ UNCHANGED calls

-----------------------------------------------------------------------------
(* Describing a system error, which must not throw: when the description    *)
(* cannot be had for want of memory the code of the error stands for it.    *)
SEP == <<":", " ">>
ERROR == <<"e", "r", "r", "o", "r", " ">>

\* What stands before the description or the code.
Named(m, message) == AppendChars(AppendChars(m, message), SEP)

\* Slip: the separator and the word are not counted.
FormatErrorCodeLoose(m, code, message) ==
  LET out   == Cleared([m EXCEPT !.error = ""])
      size  == CountDigits(code % CodeRange)
      named == IF Len(message) <= INLINE_BUFFER_SIZE - size
               THEN Named(out, message) ELSE out
  IN  WriteInt(AppendChars(named, ERROR), code, NoSpec)

\* The message is left out when it would not fit the cells inside the object;
\* the digits counted are those of the code taken as unsigned.
FormatErrorCode(m, code, message) ==
  LET out   == Cleared([m EXCEPT !.error = ""])
      size  == Len(SEP) + Len(ERROR) + CountDigits(code % CodeRange)
      named == IF Len(message) <= INLINE_BUFFER_SIZE - size
               THEN Named(out, message) ELSE out
  IN  WriteInt(AppendChars(named, ERROR), code, NoSpec)

\* safe_strerror takes a text that fills the room for one that was cut.
Truncated(text, room) == Len(text) >= room - 1

\* A text that does not fit its buffer gets one twice as large.
Doubled(room, text) ==
  IF Truncated(text, room.size) THEN Resize(room, 2 * room.size) ELSE room

\* That is done often enough: the text fits after fewer rounds than it has characters.
RoomFor(text, first) ==
  LET own[k \in 0..Len(text)] == IF k = 0 THEN first ELSE Doubled(own[k - 1], text)
  IN  own[Len(text)]

\* The system's text goes through a buffer of its own, which is gone before the
\* code is written in its stead.
FormatSystemError(m, code, message, text) ==
  LET first == Resize([Enter(NewBuffer, m.heap) EXCEPT !.avail = m.avail],
                      INLINE_BUFFER_SIZE)
      room == RoomFor(text, first)
      said == AppendChars(Named([m EXCEPT !.heap = room.heap, !.error = room.error],
                                message), text)
      done == [said EXCEPT !.heap = Freed(room, @)]
  IN  IF done.error = "" THEN done ELSE FormatErrorCode(done, code, message)

CodeText(code, message) ==
  LET digits == Wanted([op |-> "int", num |-> code, str |-> <<>>,
                        spec |-> NoSpec])
      room   == Len(SEP \o ERROR \o Numeral(code % CodeRange, 10))
  IN  IF Len(message) + room <= INLINE_BUFFER_SIZE
      THEN message \o SEP \o ERROR \o digits ELSE ERROR \o digits

\* The memory may be at its end at any time, which is the case that matters here.
DescribeError(w, code, message, text, avail) ==
  LET m == FormatSystemError([Enter(NewBuffer, heap) EXCEPT !.avail = avail],
                             code, message, text)
      coded == Content(Leave(m)) # message \o SEP \o text
  IN  /\ Count /\ status[w] = "none"
      /\ status' = [status EXCEPT ![w] = "live"]
      /\ buf' = [buf EXCEPT ![w] = Leave(m)]
      /\ heap' = m.heap
      /\ want' = [want EXCEPT ![w] = IF m.error # "" THEN Content(Leave(m))
                                     ELSE IF coded THEN CodeText(code, message)
                                     ELSE message \o SEP \o text]
      /\ lost' = [lost EXCEPT ![w] = FALSE]
      /\ last' = [Call("describe") EXCEPT !.error = m.error, !.faults = m.faults,
                     !.code = IF m.error = "" THEN 0 ELSE code]

\* An exception does not leave format_error_code: the process ends.
Terminated == last.op = "describe" /\ last.error # ""

Next == ~Terminated /\ \E w \in Writers :
  \/ Construct(w) \/ CStr(w) \/ Clear(w) \/ Destroy(w)
  \/ \E st \in Statements : Insert(w, st)
  \/ \E v \in Writers : Move(w, v)
  \/ \E code \in Codes, message \in Messages, text \in Descriptions,
        avail \in {Blocks, {}} : DescribeError(w, code, message, text, avail)

Spec == Init /\ [][Next]_vars

-----------------------------------------------------------------------------
\* The fields have their types, and a writer in use never holds more than the
\* storage its pointer leads to.
TypeOK ==
  /\ heap \subseteq Blocks
  /\ calls \in 0..MaxCalls
  /\ \A w \in Writers :
       /\ status[w] \in {"none", "live", "moved"}
       /\ buf[w].ptr \in Blocks \cup {data_}
       /\ buf[w].size \in Nat /\ buf[w].capacity \in Nat
       /\ status[w] = "live" =>
            /\ buf[w].size <= buf[w].capacity
            /\ DOMAIN buf[w].cells = 0..(buf[w].capacity - 1)

\* Every allocated block belongs to exactly one writer, whatever was grown, moved
\* or refused in between: none is leaked, none is given back twice
\* (format.h:378-431 and 441-459).
OneOwner ==
  /\ heap = {buf[w].ptr : w \in Writers} \ {data_}
  /\ \A w, v \in Writers : buf[w].ptr = buf[v].ptr => w = v \/ buf[w].ptr = data_

\* A writer holds the text of its statements in order, across growth, c_str and
\* moves, except after one of the two statements known to go wrong, and after
\* those it never does (format.h:1994-2404).
TextAsWanted ==
  \A w \in Writers :
    status[w] = "live" => ((Content(buf[w]) = want[w]) <=> ~lost[w])

\* No call writes outside the storage or through a pointer into storage that was
\* replaced, but for the padding on the right of format.h:2069-2076.
OnlyKnownFaults == (last.faults # {}) <=> last.stale

\* A system error is described without an exception, with the memory at its end
\* too: format_error_code is noexcept.  The exception are codes whose sign makes
\* them longer than the unsigned that is counted (format.cc:189-205).
ErrorsAreDescribed ==
  last.op = "describe" /\ last.error # "" =>
    /\ last.code < 0
    /\ Len(Numeral(-last.code, 10)) = Len(Numeral(last.code % CodeRange, 10))

\* A call that throws leaves the text written before it in place.
FailureKeepsText ==
  [][ last'.error # "" =>
        \A w \in Writers : status[w] = "live" =>
          /\ buf[w].size <= buf'[w].size
          /\ SubSeq(Content(buf'[w]), 1, buf[w].size) = Content(buf[w]) ]_vars
=============================================================================
