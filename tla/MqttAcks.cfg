SPECIFICATION FairSpec
CONSTANTS
  m1 = m1
  m2 = m2
  n1 = n1
  n2 = n2
  t1 = t1
  Messages <- MCMessages
  Incoming <- MCIncoming
  Topics = {t1}
  QoS <- MCQoS
  None = None
  BrokerId = 2
  MaxAcks = 1
  MaxExchanges = 3
  MaxPacketId = 2
  Capacity = 2
  MaxFaults = 1
INVARIANTS
  TypeOK
  CountIsLength
  NothingLost
PROPERTIES
  PublishedOnce
  ReceivedOnce
  Drains
CHECK_DEADLOCK FALSE
