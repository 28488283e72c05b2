------------------------------ MODULE ChunkPlan ------------------------------
(***************************************************************************)
(* How a file of `size` bytes divides into chunks of `chunkSize` bytes     *)
(* (class ChunkPlan of services/upload.py).  Pure operators: every module  *)
(* that speaks of chunk indices or chunk lengths takes them from here.     *)
(***************************************************************************)
EXTENDS Integers, FiniteSetsExt

\* Mutant: the remainder is left to the last full chunk.
TotalChunksFloor(size, chunkSize) ==
  IF size < chunkSize THEN 1 ELSE size \div chunkSize

\* A zero-byte file still has one (empty) chunk.
TotalChunks(size, chunkSize) ==
  IF size = 0 THEN 1 ELSE (size + chunkSize - 1) \div chunkSize

OffsetOf(index, chunkSize) == index * chunkSize

Indices(size, chunkSize) == 0 .. TotalChunks(size, chunkSize) - 1

\* The plaintext length of a chunk; the last one absorbs the remainder.
SizeOf(size, chunkSize, index) ==
  IF size = 0 THEN 0
  ELSE IF index = TotalChunks(size, chunkSize) - 1
  THEN size - OffsetOf(index, chunkSize)
  ELSE chunkSize

\* ChunkPlan.validate: the chunks of a plan sum to the declared size.
Validates(size, chunkSize) ==
  MapThenSumSet(LAMBDA i : SizeOf(size, chunkSize, i), Indices(size, chunkSize)) = size
==============================================================================
