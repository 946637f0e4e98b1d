\* A timeout of three instants, callbacks up to two instants late.
CONSTANTS
  Timeout = 3
  Lateness = 2
  MaxTime = 12
SPECIFICATION Spec
INVARIANTS
  FiresOnSilenceOnly
  SilenceIsCutOff
  EndNamesItsCause
  NoTimerAfterStop
