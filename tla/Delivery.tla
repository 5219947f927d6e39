------------------------------ MODULE Delivery ------------------------------
(***************************************************************************)
(* What a sender and a receiver promise together, without requests, bytes, *)
(* handlers or connections: the files of a share are delivered one by one; *)
(* the sender calls it sent when all of them are; it may give up at any    *)
(* time, and then the file it had in hand may still be delivered, and no   *)
(* other.                                                                  *)
(***************************************************************************)
EXTENDS Naturals

CONSTANTS
  FileIds,    \* files that can be shared
  None        \* no file

VARIABLES
  agreed,     \* files both ends have agreed on
  inHand,     \* the file the sender is busy with, or was last
  delivered,  \* files the receiver has
  verdict     \* what the sender told its user

deliveryVars == <<agreed, inHand, delivered, verdict>>

Init ==
  /\ agreed = {} /\ inHand = None /\ delivered = {} /\ verdict = "none"

Agree(files) ==
  /\ verdict = "none" /\ agreed = {}
  /\ agreed' = files
  /\ UNCHANGED <<inHand, delivered, verdict>>

\* The next file is taken up when the last one is there.
TakeUp(f) ==
  /\ verdict = "none"
  /\ f \in agreed \ delivered
  /\ inHand = None \/ inHand \in delivered
  /\ inHand' = f
  /\ UNCHANGED <<agreed, delivered, verdict>>

Deliver ==
  /\ inHand # None
  /\ delivered' = delivered \cup {inHand}
  /\ UNCHANGED <<agreed, inHand, verdict>>

Succeed ==
  /\ verdict = "none"
  /\ agreed # {} /\ delivered = agreed
  /\ verdict' = "sent"
  /\ UNCHANGED <<agreed, inHand, delivered>>

GiveUp ==
  /\ verdict = "none"
  /\ verdict' = "not sent"
  /\ UNCHANGED <<agreed, inHand, delivered>>

Next ==
  \/ \E files \in SUBSET FileIds : Agree(files)
  \/ \E f \in FileIds : TakeUp(f)
  \/ Deliver
  \/ Succeed
  \/ GiveUp

Spec == Init /\ [][Next]_deliveryVars
=============================================================================
