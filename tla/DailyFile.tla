--------------------------------- MODULE DailyFile ---------------------------------
(***************************************************************************)
(* DailyFileSink of src/common/log/sinks/file_sink.h: a file sink that     *)
(* reads the clock up to three times for a message - to see if it has to   *)
(* rotate, to name the file, and to compute the next rotation - while time *)
(* goes on and summer time comes and goes.                                 *)
(*                                                                         *)
(* An instant is a number of hours; the hour stands for every unit the     *)
(* code reads (tm_hour and tm_min), a day has Day of them.                 *)
(***************************************************************************)
EXTENDS Integers, FiniteSets

CONSTANTS
  Day,           \* hours(24)
  RotationHour,  \* rotation_h_, rotation_m_
  Summer,        \* the instants with summer time, one hour ahead
  MaxTime,       \* bound: the last instant
  MaxDelay,      \* bound: hours that pass inside one call
  MaxProcesses,  \* bound: processes, one after the other
  MaxFaults      \* bound: failures of fopen

ASSUME ParameterAssumption ==
  /\ Day \in Nat \ {0, 1}
  /\ RotationHour \in 0..(Day - 1)
  /\ {MaxTime, MaxDelay, MaxProcesses, MaxFaults} \subseteq Nat
  /\ MaxTime >= 2 * Day
  /\ Summer \subseteq 0..MaxTime

VARIABLES
  now,       \* system_clock
  pc,        \* "down", "idle" or where the constructor or SinkIt is
  tp,        \* rotation_tp_
  fd,        \* fd_: "open" or "null"
  named,     \* the instant in the name of the file that was opened last
  checked,   \* the instant SinkIt compared with rotation_tp_
  delay,     \* hours that passed in this call
  processes, faults

clockVars == <<now, delay>>
sinkVars == <<tp, fd, named, checked>>
boundVars == <<processes, faults>>
vars == <<clockVars, pc, sinkVars, boundVars>>

Init ==
  /\ now \in Day..(2 * Day) /\ pc = "down"
  /\ tp = 0 /\ fd = "null" /\ named = 0 /\ checked = 0
  /\ delay = 0 /\ processes = 0 /\ faults = 0

-----------------------------------------------------------------------------
(* Local time and the next rotation                                        *)

Ahead(summer) == IF summer THEN 1 ELSE 0

\* localtime: hours of local time since the first local day.
LocalTime(t) == t + Ahead(t \in Summer)
Date(t) == LocalTime(t) \div Day

\* mktime takes the date and hour in the zone tm_isdst names.
Mktime(date, hour, summer) == date * Day + hour - Ahead(summer)

\* Slip: the rotation time itself counts as the next one.
NextRotationNow(t) ==
  LET r == Mktime(Date(t), RotationHour, t \in Summer)
  IN  IF r >= t THEN r ELSE r + Day

\* Slip: always the rotation time of tomorrow.
NextRotationTomorrow(t) == Mktime(Date(t), RotationHour, t \in Summer) + Day

\* _NextRotationTp: today's rotation time, or 24 hours after it.
NextRotation(t) ==
  LET r == Mktime(Date(t), RotationHour, t \in Summer)
  IN  IF r > t THEN r ELSE r + Day

-----------------------------------------------------------------------------

\* Time goes on between calls, and up to MaxDelay hours inside one.  A clock that is
\* set back is not modelled.
Tick ==
  /\ now < MaxTime
  /\ now' = now + 1
  /\ \/ pc \in {"down", "idle"} /\ UNCHANGED delay
     \/ pc \notin {"down", "idle"} /\ delay < MaxDelay /\ delay' = delay + 1
  /\ UNCHANGED <<pc, sinkVars, boundVars>>

\* FileHelper::Open of the file CalcFilename names: fopen may fail, which Open
\* does not report.
Open ==
  /\ named' = now
  /\ \/ fd' = "open" /\ UNCHANGED faults
     \/ fd' = "null" /\ faults < MaxFaults /\ faults' = faults + 1

\* The constructor: the next rotation, then the file.
Construct ==
  /\ pc = "down"
  /\ processes < MaxProcesses
  /\ processes' = processes + 1
  /\ tp' = NextRotation(now)
  /\ delay' = 0
  /\ pc' = "opening"
  /\ UNCHANGED <<now, fd, named, checked, faults>>

OpenFirst ==
  /\ pc = "opening"
  /\ Open
  /\ pc' = "idle"
  /\ UNCHANGED <<clockVars, tp, checked, processes>>

\* SinkIt: past the rotation time the file is closed.
SinkIt ==
  /\ pc = "idle"
  /\ checked' = now
  /\ delay' = 0
  /\ IF now >= tp THEN fd' = "null" /\ pc' = "rotate"
                  ELSE UNCHANGED fd /\ pc' = "write"
  /\ UNCHANGED <<now, tp, named, boundVars>>

\* Then a new file is named and opened ...
Rotate ==
  /\ pc = "rotate"
  /\ Open
  /\ pc' = "next"
  /\ UNCHANGED <<clockVars, tp, checked, processes>>

\* ... and after that the next rotation is computed.
NextRotationTp ==
  /\ pc = "next"
  /\ tp' = NextRotation(now)
  /\ pc' = "write"
  /\ UNCHANGED <<clockVars, fd, named, checked, boundVars>>

\* FileHelper::Write: without a file the process ends.
Write ==
  /\ pc = "write"
  /\ pc' = IF fd = "open" THEN "idle" ELSE "down"
  /\ UNCHANGED <<clockVars, sinkVars, boundVars>>

\* The process ends, by itself or not.
Stop ==
  /\ pc # "down"
  /\ pc' = "down"
  /\ fd' = "null"
  /\ UNCHANGED <<clockVars, tp, named, checked, boundVars>>

Finished == pc = "down" /\ processes = MaxProcesses /\ now = MaxTime /\ UNCHANGED vars

Next ==
  \/ Tick \/ Construct \/ OpenFirst
  \/ SinkIt \/ Rotate \/ NextRotationTp \/ Write
  \/ Stop \/ Finished

Spec == Init /\ [][Next]_vars

-----------------------------------------------------------------------------
(* Properties                                                              *)

\* Every variable has its type.
TypeOK ==
  /\ now \in 0..MaxTime
  /\ pc \in {"down", "opening", "idle", "rotate", "next", "write"}
  /\ tp \in 0..(MaxTime + Day)
  /\ fd \in {"open", "null"}
  /\ named \in 0..MaxTime /\ checked \in 0..MaxTime
  /\ delay \in 0..MaxDelay
  /\ processes \in 0..MaxProcesses /\ faults \in 0..MaxFaults

\* A rotation moves on: the next rotation time lies after the one that was due and
\* after the clock that was compared with it, so one rotation time never rotates
\* twice, however much time goes by in the call and whatever the zone does meanwhile.
RotationAdvances ==
  [][pc = "next" /\ pc' = "write" => tp' > tp /\ tp' > checked]_vars

\* When a message is written, its file was named less than a day and the time of
\* two calls ago - the one that named it and the one that writes - with summer time
\* coming or going and however late the rotation was.
FileAge == pc = "write" /\ fd = "open" => now - named < Day + 2 * MaxDelay
=============================================================================
