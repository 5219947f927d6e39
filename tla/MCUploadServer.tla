--------------------------- MODULE MCUploadServer ---------------------------
(* Small instances of UploadServer: names that collide with one another and *)
(* with a file of the user, one file that declares no bytes.                *)
EXTENDS UploadServer, TLC

CONSTANTS f1, f2

Name(marks) == [base |-> "note", marks |-> marks, ext |-> "txt"]

\* note.txt and note (1).txt: the second is what the first falls back to.
MCFileName  == f1 :> Name(<< >>) @@ f2 :> Name(<<1>>)
MCFileSize  == f1 :> 2 @@ f2 :> 1
MCShortSize == f1 :> 1 @@ f2 :> 0
MCUserFiles == {Name(<< >>)}

Symmetry == Permutations(Sessions) \cup Permutations(Uploads)
=============================================================================
