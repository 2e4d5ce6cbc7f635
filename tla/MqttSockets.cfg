SPECIFICATION Spec
CONSTANTS
  KeepAlive = 4
  CmdTimeout = 2
  SendTime = 1
  RetryTime = 1
  MaxSends = 1
  Latency = 1
  MaxSockets = 2
INVARIANTS
  SocketsReleased
