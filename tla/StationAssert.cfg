SPECIFICATION StationSpec
CONSTANTS
  MaxAge = 3
INVARIANTS
  TimerNotNull
CHECK_DEADLOCK FALSE
