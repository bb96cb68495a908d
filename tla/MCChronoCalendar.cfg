SPECIFICATION Spec
CONSTANTS
  Years <- EpochAndCentury
  Spans <- BothWays
INVARIANTS
  TypeOK
  DayIsRight
  TodayIsRight
  OrderIsTime
  DayIsReadBack
  FeesAddUp
PROPERTIES
  MoreDaysIsCloseToExact
