SPECIFICATION Spec
CONSTANTS
  Years <- ThisYear
  Spans = {30}
INVARIANTS
  YearIsReadBack
