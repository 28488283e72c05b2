----------------------------- MODULE MCArithmetic -----------------------------
(***************************************************************************)
(* Arithmetic for TLC.  There is no behaviour: a state is one plan or one  *)
(* month.                                                                  *)
(***************************************************************************)
EXTENDS Arithmetic

Init == case \in Plans \/ case \in Months
Next == UNCHANGED case
Spec == Init /\ [][Next]_case
===============================================================================
