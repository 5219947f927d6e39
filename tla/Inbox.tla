-------------------------------- MODULE Inbox --------------------------------
(***************************************************************************)
(* What a receiver promises its user, without sessions tables, handlers or *)
(* partial files: a request is accepted or not; only files of an accepted  *)
(* request are ever delivered, each at a path of its own that held nothing *)
(* before, whole, and for good.                                            *)
(***************************************************************************)
EXTENDS Naturals

CONSTANTS
  Sessions,   \* transfer requests
  FileIds,    \* files that can be offered
  FileSize,   \* FileSize[f]: the size a sender declares
  UserFiles   \* paths that are the user's from the start

VARIABLES
  verdict,    \* verdict[s]: what became of request s
  offered,    \* offered[s]: the files it offers
  inbox       \* delivered files: path -> request, file and length

inboxVars == <<verdict, offered, inbox>>

Verdicts == {"none", "asked", "accepted", "refused"}

Init ==
  /\ verdict = [s \in Sessions |-> "none"]
  /\ offered = [s \in Sessions |-> {}]
  /\ inbox   = [p \in {} |-> p]

\* A sender asks to send some files.
Ask(s, files) ==
  /\ verdict[s] = "none"
  /\ verdict' = [verdict EXCEPT ![s] = "asked"]
  /\ offered' = [offered EXCEPT ![s] = files]
  /\ UNCHANGED inbox

\* The answer reaches the sender, or the request comes to nothing.
Settle(s, v) ==
  /\ verdict[s] = "asked"
  /\ verdict' = [verdict EXCEPT ![s] = v]
  /\ UNCHANGED <<offered, inbox>>

\* Several requests can come to nothing at once, when the receiver stops.
SettleAll ==
  /\ verdict' = [s \in Sessions |->
                   IF verdict[s] = "asked" THEN "refused" ELSE verdict[s]]
  /\ UNCHANGED <<offered, inbox>>

\* File f of request s is delivered at path p.
Deliver(s, f, p) ==
  /\ verdict[s] = "accepted"
  /\ f \in offered[s]
  /\ p \notin DOMAIN inbox \cup UserFiles
  /\ inbox' = [q \in DOMAIN inbox \cup {p} |->
                 IF q = p
                 THEN [session |-> s, file |-> f, length |-> FileSize[f]]
                 ELSE inbox[q]]
  /\ UNCHANGED <<verdict, offered>>

Next ==
  \/ \E s \in Sessions : \E files \in SUBSET FileIds : Ask(s, files)
  \/ \E s \in Sessions : \E v \in {"accepted", "refused"} : Settle(s, v)
  \/ SettleAll
  \/ \E s \in Sessions : \E f \in FileIds : \E p \in DOMAIN inbox' :
       Deliver(s, f, p)

Spec == Init /\ [][Next]_inboxVars
=============================================================================
