----------------------------- MODULE MCSendFiles -----------------------------
(* Small instances of SendFiles: files of two bytes and of one, which may be *)
(* read as longer or shorter where they change.                              *)
EXTENDS SendFiles, TLC

CONSTANTS f1, f2

MCFileSize == f1 :> 2 @@ f2 :> 1
=============================================================================
