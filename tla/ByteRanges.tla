------------------------------ MODULE ByteRanges ------------------------------
(***************************************************************************)
(* How a Range header becomes a status, a length and a body: the parsing,  *)
(* the window of chunks and the trimming of services/download.py, and the  *)
(* response of routes/files.py.  A byte of a file is its offset.           *)
(***************************************************************************)
EXTENDS ChunkPlan, SequencesExt

CONSTANTS Blank, Junk, Whole, Unsatisfiable

\* A header after "bytes=" and its split at the first "-": each side is a number,
\* blank, or something else.  Several ranges are Junk; no header, or one of
\* another unit, is Whole.
Headers(numbers) ==
  [start : (numbers \intersect Nat) \union {Blank, Junk},
   end : numbers \union {Blank, Junk}] \union {Whole, Junk}

ByteRange(first, last) == [start |-> first, end |-> last]

\* "No range" and "no such range" are not ranges.
ASSUME RangesAssumption ==
  /\ Whole # Unsatisfiable
  /\ Whole \notin [start : Int, end : Int]
  /\ Unsatisfiable \notin [start : Int, end : Int]

\* Mutant: a range past the end of the file is taken as it is.
LastAsked(end, size) == IF end = Blank THEN size - 1 ELSE end

LastByte(end, size) ==
  IF end = Blank \/ end > size - 1 THEN size - 1 ELSE end

SuffixRange(suffix, size) ==
  IF suffix <= 0 \/ size = 0 THEN Unsatisfiable
  ELSE ByteRange(IF suffix > size THEN 0 ELSE size - suffix, size - 1)

\* parse_range_header
ParseRange(header, size) ==
  IF header = Whole THEN Whole
  ELSE IF header = Junk \/ header.start = Junk \/ header.end = Junk THEN Unsatisfiable
  ELSE IF header.start = Blank
    THEN IF header.end = Blank THEN Unsatisfiable ELSE SuffixRange(header.end, size)
  ELSE IF header.start >= size \/ LastByte(header.end, size) < header.start
    THEN Unsatisfiable
  ELSE ByteRange(header.start, LastByte(header.end, size))

\* plan_chunk_window, as far as stream uses it
FirstIndex(range, chunkSize) == range.start \div chunkSize
LastIndex(range, chunkSize) == range.end \div chunkSize

Chunk(size, chunkSize, index) ==
  [k \in 1 .. SizeOf(size, chunkSize, index) |-> OffsetOf(index, chunkSize) + k - 1]

\* The two ends that stream keeps of one decrypted chunk, as the absolute
\* offsets of the window and of the chunk give them.
Trimmed(range, size, chunkSize, index) ==
  LET chunkStart == OffsetOf(index, chunkSize)
      chunkEnd == chunkStart + SizeOf(size, chunkSize, index) - 1
      trimFrom == (IF range.start > chunkStart THEN range.start ELSE chunkStart) - chunkStart
      trimTo == (IF range.end < chunkEnd THEN range.end ELSE chunkEnd) - chunkStart + 1
  IN SubSeq(Chunk(size, chunkSize, index), trimFrom + 1, trimTo)

\* stream, without a fault
Stream(range, size, chunkSize) ==
  IF size = 0 THEN <<>>
  ELSE LET window == IF range = Whole THEN ByteRange(0, size - 1) ELSE range
           first == FirstIndex(window, chunkSize)
       IN FlattenSeq([k \in 1 .. LastIndex(window, chunkSize) - first + 1 |->
                        Trimmed(window, size, chunkSize, first + k - 1)])

\* download_content: status, Content-Length and body
Response(header, size, chunkSize) ==
  LET range == ParseRange(header, size) IN
  IF range = Unsatisfiable THEN [status |-> 416, length |-> 0, body |-> <<>>]
  ELSE [status |-> IF range = Whole THEN 200 ELSE 206,
        length |-> IF range = Whole THEN size ELSE range.end - range.start + 1,
        body |-> Stream(range, size, chunkSize)]
===============================================================================
