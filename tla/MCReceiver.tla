----------------------------- MODULE MCReceiver -----------------------------
(* A small instance of Receiver: one text, which a sender may upload twice.  *)
EXTENDS Receiver, TLC

CONSTANTS f1

MCFileName == f1 :> [base |-> "note", marks |-> << >>, ext |-> "TXT"]
MCFileSize == f1 :> 1
=============================================================================
