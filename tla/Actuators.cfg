SPECIFICATION HaltFairSpec
CONSTANTS
  Levels = {0, 1}
INVARIANTS
  TypeOK
  NotHeldUnderCurrent
  HaltIsFinal
PROPERTIES
  OutputsSettle
  FanFollows
