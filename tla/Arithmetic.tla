------------------------------ MODULE Arithmetic ------------------------------
(***************************************************************************)
(* What the pure algorithms are to compute: ChunkPlan and ByteRanges for   *)
(* every file, chunk length and header up to a bound, and Calendar for     *)
(* every day of some years.                                                *)
(***************************************************************************)
EXTENDS ByteRanges, Calendar

CONSTANTS MaxSize, MaxChunk, FirstYear, LastYear

\* Both conversions are modelled from the year 979 on.
ASSUME YearsAssumption == FirstYear \in Int /\ LastYear \in Int /\ FirstYear > 979

VARIABLE case    \* what is looked at: a plan of a file, or a month

Plans == [kind : {"plan"}, size : 0 .. MaxSize, chunkSize : 1 .. MaxChunk]
Months == [kind : {"month"}, year : FirstYear .. LastYear, month : 1 .. 12]

-------------------------------------------------------------------------------
\* The bytes of a chunk.
BytesOf(i) ==
  OffsetOf(i, case.chunkSize)
    .. OffsetOf(i, case.chunkSize) + SizeOf(case.size, case.chunkSize, i) - 1

\* What uploads and downloads take for granted: every byte of the file is in
\* exactly one chunk, no chunk exceeds chunk_size (put_chunk would refuse it as
\* too large), only the empty file has an empty chunk, and create_session's
\* plan.validate() never raises.
PlanPartitionsFile ==
  case.kind = "plan" =>
    LET indices == Indices(case.size, case.chunkSize) IN
    /\ Validates(case.size, case.chunkSize)
    /\ \A b \in 0 .. case.size - 1 :
         \E i \in indices : b \in BytesOf(i) /\ \A j \in indices : b \in BytesOf(j) => j = i
    /\ \A i \in indices :
         /\ BytesOf(i) \subseteq 0 .. case.size - 1
         /\ SizeOf(case.size, case.chunkSize, i) <= case.chunkSize
         /\ case.size > 0 => SizeOf(case.size, case.chunkSize, i) > 0

-------------------------------------------------------------------------------
\* The bytes that a header asks for, as RFC 9110 has it.
Requested(header) ==
  LET file == 0 .. case.size - 1 IN
  IF header = Whole THEN file
  ELSE IF header = Junk \/ header.start = Junk \/ header.end = Junk THEN {}
  ELSE IF header.start # Blank
    THEN {b \in file : b >= header.start /\ (header.end = Blank \/ b <= header.end)}
  ELSE IF header.end # Blank THEN {b \in file : b >= case.size - header.end}
  ELSE {}

\* Whatever a client asks for, it is answered with exactly those bytes, in
\* order, and with their number as Content-Length; 416 means that there are none.
RangesServeTheirBytes ==
  case.kind = "plan" =>
    \A header \in Headers(-1 .. MaxSize + 1) :
      LET r == Response(header, case.size, case.chunkSize)
          bytes == Requested(header) IN
      /\ ToSet(r.body) = bytes
      /\ \A k \in DOMAIN r.body : k > 1 => r.body[k] > r.body[k - 1]
      /\ r.length = Len(r.body)
      /\ r.status = 416 <=> (bytes = {} /\ header # Whole)
      /\ r.status = 200 <=> header = Whole

-------------------------------------------------------------------------------
Dates == {<<case.year, case.month, d>> : d \in 1 .. DaysInMonth(case.year, case.month)}

FirstOfNext ==
  IF case.month = 12 THEN <<case.year + 1, 1, 1>> ELSE <<case.year, case.month + 1, 1>>

\* The days of a month, as the calendar shows them, follow one another, and the
\* next month begins where this one ends, on the week day that is drawn: no day
\* is missing from the calendar and none is there twice.
MonthsFollowOneAnother ==
  case.kind = "month" =>
    LET first == DayNumber(JalaliToGregorian(<<case.year, case.month, 1>>))
        days == DaysInMonth(case.year, case.month) IN
    /\ \A date \in Dates : DayNumber(JalaliToGregorian(date)) = first + date[3] - 1
    /\ DayNumber(JalaliToGregorian(FirstOfNext)) = first + days
    /\ FirstWeekDay(FirstOfNext[1], FirstOfNext[2])
         = (FirstWeekDay(case.year, case.month) + days) % 7

\* From 1 March of a leap year to the end of the next February.
InLeapTail(date) ==
  IF date[2] > 2 THEN IsGregorianLeap(date[1]) ELSE IsGregorianLeap(date[1] - 1)

\* "Today" is the day that reminders and notes are filed under: converting a date
\* there and back gives the date again or, for a year after each 29 February,
\* the day before.
DatesConvertBack ==
  case.kind = "month" =>
    \A date \in Dates :
      LET g == JalaliToGregorian(date)
          back == GregorianToJalali(g) IN
      IF InLeapTail(g)
        THEN DayNumber(JalaliToGregorian(back)) = DayNumber(g) - 1
        ELSE back = date

\* test_jalali_conversions_roundtrip: "Roundtrip across various dates".  It
\* fails for the dates of InLeapTail.
ConversionsRoundTrip ==
  case.kind = "month" =>
    \A date \in Dates : GregorianToJalali(JalaliToGregorian(date)) = date
===============================================================================
