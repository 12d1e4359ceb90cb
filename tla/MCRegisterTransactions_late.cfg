SPECIFICATION TxSpec
CONSTANTS
  Null = Null
  a = a
  b = b
  cement = cement
  DayOf <- MCDayOf
  RowsOf <- MCRowsOf
  Revised <- MCRevised
  Batches <- LateBatches
  Existing <- LateExisting
PROPERTIES ClosedRowsStand
