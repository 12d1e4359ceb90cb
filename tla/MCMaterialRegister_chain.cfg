SPECIFICATION Spec
CONSTANTS
  Null = Null
  a = a
  b = b
  cement = cement
  DayOf <- MCDayOf
  Days <- MCDays
  Documents <- ChainDocuments
  Bodies <- ChainBodies
  VatFlags = {TRUE, FALSE}
  MaxClosures = 0
INVARIANTS
  LedgerMatchesDocuments
  NoNegativeBalance
  DepletionIsExact
  ConservedWithoutShortages
  ReceiptsResolveShortages
