----------------------------- MODULE MCSessionPool -----------------------------
(***************************************************************************)
(* An instance of SessionPool for TLC, with named accounts.                *)
(***************************************************************************)
EXTENDS SessionPool

CONSTANTS s1, s2, l1, l2

\* A real account takes the place of a fake.
RealForFake == [s \in {s1, s2} |-> IF s = s1 THEN l1 ELSE l2]
===============================================================================
