SPECIFICATION Spec
CONSTANTS
  Null = Null
  a = a
  b = b
  cement = cement
  DayOf <- MCDayOf
  Days <- MCDays
  Documents <- PeriodDocuments
  Bodies <- PeriodBodies
  VatFlags = {TRUE}
  MaxClosures = 2
INVARIANTS
  CutoffIsLatestClosure
PROPERTIES
  ClosedValuesFrozen
  RegisterIsBook
