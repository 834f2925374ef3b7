SPECIFICATION FairSpec
CONSTANTS
  t1 = t1  t2 = t2  g1 = g1  g2 = g2  s1 = s1  s2 = s2
  Threads = {t1, t2}
  Loggers = {g1, g2}
  Sinks = {s1, s2}
  SinksOf <- MCSinksOf
  Styles = {"stream", "message", "format", "force"}
  MessageLevels = {3}
  LoggerLevels = {4}
  MaxCalls <- MCMaxCalls
  MaxSets = 1
  MaxFaults = 1
INVARIANTS
  TypeOK
  WrittenOnce
  WrittenAsSaid
  NoOverlap
PROPERTIES
  CallsReturn
CHECK_DEADLOCK FALSE
