\* Files of up to 16 bytes in chunks of up to 5; the years 1371 to 1473.
SPECIFICATION Spec
CONSTANTS
  MaxSize = 16
  MaxChunk = 5
  FirstYear = 1371
  LastYear = 1473
  Blank = Blank
  Junk = Junk
  Whole = Whole
  Unsatisfiable = Unsatisfiable
INVARIANTS
  PlanPartitionsFile
  RangesServeTheirBytes
  MonthsFollowOneAnother
  DatesConvertBack
