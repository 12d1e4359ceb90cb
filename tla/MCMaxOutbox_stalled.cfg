SPECIFICATION Spec
CONSTANTS
  s1 = s1
  s2 = s2
  Senders <- MCSenders
  Messages <- MCMessages
  MaxAttempts = 2
  LockTimeout = 1
  HoldLimit = 2
  BaseDelay = 1
  MaxDelay = 2
  MaxFaults = 1
INVARIANTS
  SentWasDelivered
PROPERTIES
  EveryMessageEnds
