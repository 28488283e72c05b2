\* The years about the leap year 2024.
SPECIFICATION Spec
CONSTANTS
  MaxSize = 0
  MaxChunk = 1
  FirstYear = 1402
  LastYear = 1404
  Blank = Blank
  Junk = Junk
  Whole = Whole
  Unsatisfiable = Unsatisfiable
INVARIANT ConversionsRoundTrip
