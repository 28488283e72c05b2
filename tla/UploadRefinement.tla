--------------------------- MODULE UploadRefinement ---------------------------
(***************************************************************************)
(* Upload implements ResumableFile.  A file's cells are its plan, its      *)
(* content is what its chunk rows say; rows left behind for a node that is *)
(* gone are not part of any file.                                          *)
(***************************************************************************)
EXTENDS Upload

CONSTANT Empty

ASSUME EmptyAssumption == Empty \notin Bodies

phaseOf(f) ==
  CASE session[f] = NoSession -> "new"
    [] session[f] # NoSession /\ ~Exists(f) -> "removed"
    [] Exists(f) /\ node[f].state = "uploading" -> "open"
    [] Exists(f) /\ node[f].state = "ready" -> "published"

cellsOf(f) == IF session[f] = NoSession THEN {} ELSE Plan(f)

contentOf(f) ==
  [i \in AllIndices |->
     IF Exists(f) /\ RowAt(f, i) # {}
     THEN (CHOOSE r \in RowAt(f, i) : TRUE).body ELSE Empty]

File == INSTANCE ResumableFile WITH
  CellIds <- AllIndices,
  phase <- [f \in Files |-> phaseOf(f)],
  cells <- [f \in Files |-> cellsOf(f)],
  content <- [f \in Files |-> contentOf(f)]

\* The pipeline keeps the promise: every step of it is a step of ResumableFile
\* or changes nothing a client of the drive can see.
ImplementsResumableFile == File!Spec
===============================================================================
