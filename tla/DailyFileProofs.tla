------------------------------ MODULE DailyFileProofs ------------------------------
(***************************************************************************)
(* Proofs about DailyFile, for days of any length, any rotation hour and   *)
(* any summer time.                                                        *)
(***************************************************************************)
EXTENDS DailyFile, TLAPS

\* What the phases of a call know of the clock, the file and the next rotation.
Phases ==
  /\ named <= now
  /\ pc = "opening" => tp <= now + Day
  /\ pc = "idle" /\ fd = "open" => tp <= named + Day + MaxDelay
  /\ pc \in {"rotate", "next", "write"} => now = checked + delay
  /\ pc \in {"rotate", "next"} => tp <= checked
  /\ pc = "next" => checked <= named
  /\ pc = "write" /\ fd = "open" => /\ checked < tp \/ checked <= named
                           /\ tp <= named + Day + MaxDelay

IInv == TypeOK /\ Phases

-----------------------------------------------------------------------------

\* The constants, one by one.
LEMMA Constants ==
  /\ Day \in Nat /\ Day > 1
  /\ RotationHour \in 0..(Day - 1)
  /\ MaxTime \in Nat /\ MaxDelay \in Nat /\ MaxProcesses \in Nat /\ MaxFaults \in Nat
  /\ MaxTime >= 2 * Day
  BY ParameterAssumption

\* A number lies in the day \div puts it in.
LEMMA DayOf ==
  ASSUME NEW x \in Int, NEW d \in Nat, d > 0
  PROVE  /\ x \div d \in Int
         /\ (x \div d) * d <= x
         /\ x < (x \div d) * d + d
  OBVIOUS

\* _NextRotationTp returns an instant in the 24 hours after the clock it read, in
\* summer and in winter.
THEOREM NextRotationBounds ==
  ASSUME NEW t \in Nat
  PROVE  /\ NextRotation(t) \in Nat
         /\ t < NextRotation(t)
         /\ NextRotation(t) <= t + Day
  <1> DEFINE a == Ahead(t \in Summer)
             d == LocalTime(t) \div Day
             r == d * Day + RotationHour - a
  <1>1. a \in {0, 1} /\ LocalTime(t) = t + a
    BY DEF Ahead, LocalTime
  <1>2. Day \in Nat /\ Day > 0 /\ RotationHour \in 0..(Day - 1)
    BY Constants
  <1>3. d \in Int /\ d * Day <= t + a /\ t + a < d * Day + Day
    BY <1>1, <1>2, DayOf
  <1>4. d * Day \in Int
    BY <1>2, <1>3
  <1>5. NextRotation(t) = IF r > t THEN r ELSE r + Day
    BY DEF NextRotation, Mktime, Date
  <1> HIDE DEF a, d
  <1> QED
    BY <1>1, <1>2, <1>3, <1>4, <1>5

-----------------------------------------------------------------------------
(* The inductive invariant                                                 *)

\* A sink that was not constructed yet has no file and no rotation time.
LEMMA InitHolds == Init => IInv
  BY Constants DEF Init, IInv, TypeOK, Phases

\* Every step keeps the types; only a computed rotation time needs a bound.
LEMMA StepTypes == TypeOK /\ [Next]_vars => TypeOK'
  <1> SUFFICES ASSUME TypeOK, [Next]_vars PROVE TypeOK'
    OBVIOUS
  <1> USE Constants DEF TypeOK
  <1>1. CASE Tick
    BY <1>1 DEF Tick, sinkVars, boundVars
  <1>2. CASE Construct
    <2>1. NextRotation(now) \in 0..(MaxTime + Day)
      BY NextRotationBounds
    <2> QED
      BY <1>2, <2>1 DEF Construct
  <1>3. CASE OpenFirst
    BY <1>3 DEF OpenFirst, Open, clockVars
  <1>4. CASE SinkIt
    BY <1>4 DEF SinkIt, boundVars
  <1>5. CASE Rotate
    BY <1>5 DEF Rotate, Open, clockVars
  <1>6. CASE NextRotationTp
    <2>1. NextRotation(now) \in 0..(MaxTime + Day)
      BY NextRotationBounds
    <2> QED
      BY <1>6, <2>1 DEF NextRotationTp, clockVars, boundVars
  <1>7. CASE Write
    BY <1>7 DEF Write, clockVars, sinkVars, boundVars
  <1>8. CASE Stop
    BY <1>8 DEF Stop, clockVars, boundVars
  <1>9. CASE UNCHANGED vars
    BY <1>9 DEF vars, clockVars, sinkVars, boundVars
  <1> QED
    BY <1>1, <1>2, <1>3, <1>4, <1>5, <1>6, <1>7, <1>8, <1>9 DEF Next, Finished

\* Every step keeps what the phases know.
LEMMA StepPhases == IInv /\ [Next]_vars => Phases'
  <1> SUFFICES ASSUME IInv, [Next]_vars PROVE Phases'
    OBVIOUS
  <1> USE Constants DEF IInv, TypeOK, Phases
  <1>1. CASE Tick
    BY <1>1 DEF Tick, sinkVars, boundVars
  <1>2. CASE Construct
    <2>1. NextRotation(now) <= now + Day
      BY NextRotationBounds
    <2> QED
      BY <1>2, <2>1 DEF Construct
  <1>3. CASE OpenFirst
    BY <1>3 DEF OpenFirst, Open, clockVars
  <1>4. CASE SinkIt
    BY <1>4 DEF SinkIt, boundVars
  <1>5. CASE Rotate
    BY <1>5 DEF Rotate, Open, clockVars
  <1>6. CASE NextRotationTp
    <2>1. NextRotation(now) \in Nat /\ NextRotation(now) <= now + Day
      BY NextRotationBounds
    <2>2. now <= named + MaxDelay
      BY <1>6 DEF NextRotationTp
    <2> QED
      BY <1>6, <2>1, <2>2 DEF NextRotationTp, clockVars, boundVars
  <1>7. CASE Write
    BY <1>7 DEF Write, clockVars, sinkVars, boundVars
  <1>8. CASE Stop
    BY <1>8 DEF Stop, clockVars, boundVars
  <1>9. CASE UNCHANGED vars
    BY <1>9 DEF vars, clockVars, sinkVars, boundVars
  <1> QED
    BY <1>1, <1>2, <1>3, <1>4, <1>5, <1>6, <1>7, <1>8, <1>9 DEF Next, Finished

\* The invariant holds in every state of every behaviour.
THEOREM DailyInvariant == Spec => []IInv
  <1>1. Init => IInv
    BY InitHolds
  <1>2. IInv /\ [Next]_vars => IInv'
    BY StepTypes, StepPhases DEF IInv
  <1> QED
    BY <1>1, <1>2, PTL DEF Spec

-----------------------------------------------------------------------------
(* The properties                                                          *)

\* Every variable keeps its type.
THEOREM DailyTypes == Spec => []TypeOK
  <1>1. IInv => TypeOK
    BY DEF IInv
  <1> QED
    BY <1>1, DailyInvariant, PTL

\* At every write the file was named less than a day and the time of two calls ago.
THEOREM DailyFileAge == Spec => []FileAge
  <1>1. IInv => FileAge
    BY Constants DEF IInv, TypeOK, Phases, FileAge
  <1> QED
    BY <1>1, DailyInvariant, PTL

\* The rotation time a rotation computes lies after the one that was due.
THEOREM DailyRotationAdvances == Spec => RotationAdvances
  <1>1. IInv /\ [Next]_vars =>
          [pc = "next" /\ pc' = "write" => tp' > tp /\ tp' > checked]_vars
    <2> SUFFICES ASSUME IInv, Next, pc = "next", pc' = "write"
                 PROVE  tp' > tp /\ tp' > checked
      OBVIOUS
    <2>1. NextRotationTp \/ UNCHANGED vars
      BY DEF Next, Tick, Construct, OpenFirst, SinkIt, Rotate, Write, Stop, Finished, IInv, TypeOK
    <2>2. NextRotationTp
      BY <2>1 DEF vars
    <2>3. now < NextRotation(now) /\ NextRotation(now) \in Nat
      BY NextRotationBounds DEF IInv, TypeOK
    <2> QED
      BY <2>2, <2>3, Constants DEF NextRotationTp, IInv, TypeOK, Phases
  <1> QED
    BY <1>1, DailyInvariant, PTL DEF Spec, RotationAdvances

=============================================================================
