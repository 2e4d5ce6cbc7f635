SPECIFICATION HaltSpec
CONSTANTS
  Levels = {0, 1}
INVARIANTS
  StopHonoured
