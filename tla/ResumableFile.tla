---------------------------- MODULE ResumableFile ----------------------------
(***************************************************************************)
(* What the upload pipeline promises its clients, with no sessions, slots, *)
(* messages or requests in it: a file is a fixed number of write-once      *)
(* cells; it is published only when every cell is written; from then on it *)
(* never changes, until it is removed as a whole.                          *)
(*                                                                         *)
(* Upload implements this specification (UploadRefinement) as long as no   *)
(* client overwrites.                                                      *)
(***************************************************************************)
EXTENDS Integers

CONSTANTS Files, CellIds, Bodies, Empty

VARIABLES
  phase,    \* "new", "open", "published" or "removed"
  cells,    \* the indices of the file
  content   \* what each index holds, Empty if nothing yet

absVars == <<phase, cells, content>>

Init ==
  /\ phase = [f \in Files |-> "new"]
  /\ cells = [f \in Files |-> {}]
  /\ content = [f \in Files |-> [i \in CellIds |-> Empty]]

Open(f) ==
  /\ phase[f] = "new"
  /\ phase' = [phase EXCEPT ![f] = "open"]
  /\ \E S \in SUBSET CellIds : S # {} /\ cells' = [cells EXCEPT ![f] = S]
  /\ UNCHANGED content

Write(f, i, b) ==
  /\ phase[f] = "open"
  /\ i \in cells[f]
  /\ content[f][i] = Empty
  /\ content' = [content EXCEPT ![f][i] = b]
  /\ UNCHANGED <<phase, cells>>

Publish(f) ==
  /\ phase[f] = "open"
  /\ \A i \in cells[f] : content[f][i] # Empty
  /\ phase' = [phase EXCEPT ![f] = "published"]
  /\ UNCHANGED <<cells, content>>

Remove(f) ==
  /\ phase[f] \in {"open", "published"}
  /\ phase' = [phase EXCEPT ![f] = "removed"]
  /\ content' = [content EXCEPT ![f] = [i \in CellIds |-> Empty]]
  /\ UNCHANGED cells

Next ==
  \E f \in Files :
    \/ Open(f) \/ Publish(f) \/ Remove(f)
    \/ \E i \in CellIds, b \in Bodies : Write(f, i, b)

Spec == Init /\ [][Next]_absVars
==============================================================================
