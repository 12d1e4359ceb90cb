SPECIFICATION Spec
CONSTANTS
  b1 = b1
  b2 = b2
  NoBox = NoBox
  Boxes <- MCBoxes
  ConfigBox = NoBox
  ApiBox = b1
  ConfigFrom = 0
  Parts = 2
  EventLimit = 2
  MaxEvents = 3
  MaxRequests = 2
  MaxTokens = 2
  MaxFaults = 1
INVARIANTS
  StagedBehindCursor
PROPERTIES
  PauseIsObeyed
  EveryEventStaged
