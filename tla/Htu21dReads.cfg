SPECIFICATION Spec
CONSTANTS
  Delay = 4
  Conversion <- LongestConversion
INVARIANTS
  ReadsTemperature
