SPECIFICATION TxSpec
CONSTANTS
  Null = Null
  a = a
  b = b
  cement = cement
  DayOf <- MCDayOf
  RowsOf <- MCRowsOf
  Revised <- MCRevised
  Batches <- OfficeBatches
  Existing <- OfficeExisting
INVARIANTS
  BalancesMatchRows
  CommittedValuesReplayed
  NegativeStockDisabled
PROPERTIES
  ClosedRowsStand
  EveryRequestEnds
