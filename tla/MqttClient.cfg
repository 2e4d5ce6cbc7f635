SPECIFICATION FairSpec
CONSTANTS
  KeepAlive = 4
  CmdTimeout = 2
  SendTime = 1
  RetryTime = 1
  MaxSends = 2
  Latency = 1
  MaxSockets = 2
INVARIANTS
  TypeOK
  NoticedInTime
  SpinBounded
  ConnectedIsServed
PROPERTIES
  NoFalseAlarm
  Recovers
