----------------------------- MODULE MCTransfer -----------------------------
(* Small instances of Transfer: two files, one of which has to be renamed.   *)
EXTENDS Transfer, TLC

CONSTANTS f1, f2

Name(marks) == [base |-> "note", marks |-> marks, ext |-> "txt"]

MCFileName  == f1 :> Name(<< >>) @@ f2 :> Name(<<1>>)
MCFileSize  == f1 :> 2 @@ f2 :> 1
MCUserFiles == {Name(<< >>)}
=============================================================================
