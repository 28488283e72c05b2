-------------------------- MODULE MCUploadRefinement --------------------------
(***************************************************************************)
(* The instances of Upload, with the mapping to ResumableFile.             *)
(***************************************************************************)
EXTENDS MCUpload, UploadRefinement
===============================================================================
