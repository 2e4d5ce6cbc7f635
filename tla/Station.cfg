SPECIFICATION StationFairSpec
CONSTANTS
  MaxAge = 3
INVARIANTS
  TypeOK
  NoRequestForgotten
  ReadingIsFresh
  MailboxReady
  SafeOnceStarted
PROPERTIES
  BootRequestServed
CHECK_DEADLOCK FALSE
