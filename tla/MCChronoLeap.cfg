SPECIFICATION Spec
CONSTANTS
  Years <- LeapYears
  Spans = {30}
PROPERTIES
  MoreDaysAddsDays
