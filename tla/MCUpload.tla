------------------------------- MODULE MCUpload -------------------------------
(***************************************************************************)
(* Instances of Upload for TLC.                                            *)
(***************************************************************************)
EXTENDS Upload, TLC

\* Clients that declare no digest, and clients that may declare one.
NoDeclaration == {NoDigest}
OneDeclaration == {NoDigest, CHOOSE d \in Digest : TRUE}

NoKeys == {}

\* Model values that the specification treats alike.
Symmetry ==
  Permutations(Files) \union Permutations(Names) \union Permutations(Putters)
    \union Permutations(Finishers) \union Permutations(Bodies)
===============================================================================
