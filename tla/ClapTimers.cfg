SPECIFICATION FairTimersSpec
CONSTANTS
  ClapSpace = 5
  Debounce = 2
  CntMax = 3
  TickMax = 13
  SleepTimes = {0, 5}
INVARIANTS
  TypeOK
  GestureCoherent
  GateWillReopen
  ClapsApart
  ListInOrder
PROPERTIES
  ImplementsDoubleClap
  CallbacksOnTime
  NoiseCannotHoldGesture
