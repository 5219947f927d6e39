------------------------------ MODULE Transfer ------------------------------
(***************************************************************************)
(* One share, from end to end: the task of send_files on one device        *)
(* (SendFiles) and the server on the other (UploadServer), with a          *)
(* connection between them that carries a request, a body, and a reply,    *)
(* and that may break at any moment.                                       *)
(*                                                                         *)
(* Nothing of either end is restated here.  An action of this module is a  *)
(* step of one end together with what it puts on the connection or takes   *)
(* off it; what SendFiles leaves open about the receiver and UploadServer  *)
(* about the sender is decided by the other end.                           *)
(*                                                                         *)
(* The handler of the upload of file f is called f.                        *)
(***************************************************************************)
EXTENDS UploadServer, FiniteSets

CONSTANTS
  Ours,         \* the session of the share
  Strangers,    \* identifiers that no offered file has
  MaxLength,    \* bound on the length of a file that changes
  Hitches,      \* what can happen to the files that are sent
  Window,       \* bytes that the connection holds
  Troubles      \* which of "break", "stall", "quit" can happen

ASSUME TransferAssumption ==
  /\ Ours \in Sessions
  /\ IsFiniteSet(FileIds) /\ Uploads = FileIds
  /\ FileIds \cap Strangers = {}
  /\ FileSize \in [FileIds -> 0 .. MaxLength] /\ MaxLength \in Nat
  /\ Window \in Nat \ {0}

VARIABLES
  stage,        \* pc of the task
  todo, offered, wanted, file, body, position, base, taken, changed, events,
  link,         \* "up" or, for good, "broken"
  pipe,         \* the body on its way: its file, bytes, whether it has ended
  alive         \* the sender's process runs

Task == INSTANCE SendFiles WITH pc <- stage, Files <- FileIds

taskVars     == <<stage, todo, offered, wanted, file, body, position, base,
                  taken, changed, events>>
networkVars  == <<link, pipe, alive>>
transferVars == <<vars, taskVars, networkVars>>

\* A body of which nothing has been sent.
Fresh(f) == [file |-> f, bytes |-> 0, ended |-> FALSE]

TransferInit ==
  /\ Init
  /\ Task!Init
  /\ link = "up" /\ pipe = Fresh(None) /\ alive = TRUE

-----------------------------------------------------------------------------
(* The sender.                                                             *)

\* What the task does without hearing from the receiver.
TaskAlone ==
  /\ alive
  /\ \/ stage = "idle" /\ Task!Begin
     \/ \E f \in FileIds : Task!StatFile(f)
     \/ Task!Offer
     \/ \E f \in FileIds : Task!NextFile(f)
     \/ Task!Finish
     \/ Task!DropBody
  /\ UNCHANGED <<vars, networkVars>>

\* The head of an upload request is sent with the first of its body.
PostUpload ==
  /\ alive
  /\ Task!OpenFile
  /\ pipe' = IF body' = "open" THEN Fresh(file) ELSE pipe
  /\ UNCHANGED <<vars, link, alive>>

\* Bytes go out while the connection has room for them.
SendBytes(n) ==
  /\ alive /\ link = "up"
  /\ pipe.bytes + n <= Window
  /\ Task!ReadChunk(n)
  /\ pipe' = [pipe EXCEPT !.bytes = @ + n]
  /\ UNCHANGED <<vars, link, alive>>

SendEnd ==
  /\ alive /\ link = "up"
  /\ Task!EndOfFile
  /\ pipe' = [pipe EXCEPT !.ended = TRUE]
  /\ UNCHANGED <<vars, link, alive>>

\* The reply to prepare-upload: the tokens, 403, or none any more.
HearAnswer ==
  /\ alive
  /\ \/ /\ prep[Ours] = "accepted" /\ link = "up"
        /\ Task!AnsweredWith(tokens[Ours])
     \/ /\ prep[Ours] \in {"refused", "dropped"} \/ link = "broken"
        /\ Task!AnsweredWithout
        /\ Task!Emit(Task!Failed)
  /\ UNCHANGED <<vars, networkVars>>

\* Variant: any reply is taken for a success.
RepliedAtAll == link = "up" /\ pc[file] \in Replies

\* The status of an upload is 200.
RepliedOK == link = "up" /\ pc[file] = "OK"

HearSuccess ==
  /\ alive
  /\ stage = "upload"
  /\ RepliedOK
  /\ Task!UploadTaken
  /\ UNCHANGED <<vars, networkVars>>

\* Another status, or no reply will come.
HearFailure ==
  /\ alive
  /\ stage = "upload"
  /\ link = "broken" \/ pc[file] \in Replies \ {"OK"}
  /\ Task!UploadFails
  /\ UNCHANGED <<vars, networkVars>>

\* The cancel request of the task arrives, or does not.
PostCancel ==
  /\ alive
  /\ Task!PostCancel
  /\ \/ link = "up" /\ CancelSession(Ours)
     \/ link = "broken" /\ UNCHANGED vars
  /\ UNCHANGED networkVars

-----------------------------------------------------------------------------
(* The receiver.                                                           *)

\* The request arrives, maybe after the sender has given up on it.
RequestArrives ==
  /\ stage \notin {"idle", "stat"} /\ offered # {}
  /\ PrepareUpload(Ours, offered)
  /\ UNCHANGED <<taskVars, networkVars>>

\* The user answers, the handler replies.
Answer ==
  /\ \/ \E accepted \in BOOLEAN : AnswerRequest(Ours, accepted)
     \/ ReplyPrepare(Ours)
  /\ UNCHANGED <<taskVars, networkVars>>

\* A handler goes with its connection.
LoseHandler ==
  /\ link = "broken"
  /\ DropPrepare(Ours) \/ \E u \in Uploads : DropUpload(u)
  /\ UNCHANGED <<taskVars, networkVars>>

UploadArrives ==
  /\ pipe.file # None
  /\ StartUpload(pipe.file, Ours, pipe.file, pipe.file)
  /\ UNCHANGED <<taskVars, networkVars>>

\* What handlers do without their connection.
ServeAlone(u) ==
  /\ \/ CreateDestination(u)
     \/ CheckSession(u)
     \/ WriteFails(u)
     \/ RemoveFile(u)
     \/ Flush(u)
     \/ AccountFile(u)
     \/ AnnounceCompletion(u)
  /\ UNCHANGED <<taskVars, networkVars>>

ReceiveBytes(u, n) ==
  /\ pipe.file = u /\ n <= pipe.bytes
  /\ ReceiveChunk(u, n)
  /\ pipe' = [pipe EXCEPT !.bytes = @ - n]
  /\ UNCHANGED <<taskVars, link, alive>>

ReceiveEnd(u) ==
  /\ pipe.file = u /\ pipe.bytes = 0 /\ pipe.ended
  /\ StreamEnds(u)
  /\ UNCHANGED <<taskVars, networkVars>>

\* A broken connection, which may lose what it held; or 5 seconds of nothing.
ReceiveBreak(u) ==
  /\ pipe.file = u
  /\ \/ link = "broken"
     \/ pipe.bytes = 0 /\ ~pipe.ended /\ "stall" \in Troubles
  /\ StreamBreaks(u)
  /\ UNCHANGED <<taskVars, networkVars>>

\* Another device, whose request is in the table, cancels without an id.
Stranger(s) ==
  /\ s # Ours
  /\ PrepareUpload(s, {}) \/ CancelAll(s)
  /\ UNCHANGED <<taskVars, networkVars>>

-----------------------------------------------------------------------------
(* What breaks.                                                            *)

Break ==
  /\ "break" \in Troubles /\ link = "up"
  /\ link' = "broken"
  /\ UNCHANGED <<vars, taskVars, pipe, alive>>

\* The picker is left while its task runs: the process ends.
QuitSender ==
  /\ "quit" \in Troubles /\ alive /\ stage # "idle"
  /\ alive' = FALSE /\ link' = "broken"
  /\ UNCHANGED <<vars, taskVars, pipe>>

RestartReceiver ==
  /\ Restart
  /\ link' = "broken"
  /\ UNCHANGED <<taskVars, pipe, alive>>

-----------------------------------------------------------------------------
SenderStep ==
  \/ TaskAlone
  \/ PostUpload
  \/ \E n \in ChunkSizes : SendBytes(n)
  \/ SendEnd
  \/ HearAnswer
  \/ HearSuccess
  \/ HearFailure
  \/ PostCancel

HandlerStep(u) ==
  \/ ServeAlone(u)
  \/ \E n \in ChunkSizes : ReceiveBytes(u, n)
  \/ ReceiveEnd(u)
  \/ ReceiveBreak(u)

TransferNext ==
  \/ SenderStep
  \/ RequestArrives
  \/ Answer
  \/ LoseHandler
  \/ UploadArrives
  \/ \E u \in Uploads : HandlerStep(u)
  \/ \E s \in Sessions : Stranger(s)
  \/ Break
  \/ QuitSender
  \/ RestartReceiver

TransferSpec == TransferInit /\ [][TransferNext]_transferVars

\* The task is polled, and the connection reads its body on; a request that is
\* sent arrives; handlers run, and their 5 s timer fires.  The answer to a
\* request is the user's, who owes none.
TransferFairSpec ==
  /\ TransferSpec
  /\ WF_transferVars(SenderStep)
  /\ WF_transferVars(UploadArrives)
  /\ \A u \in Uploads : WF_transferVars(HandlerStep(u))

-----------------------------------------------------------------------------
(* Properties.                                                             *)

SaidSent == Task!Emitted(Task!SentAll)

\* What the sender calls "Successfully sent" the receiver has: each file it was
\* asked for is announced and on disk with the size declared, and the receiver
\* has called its session complete (send_files against handle_upload, whatever
\* breaks on the way).
SentIsReceived ==
  SaidSent =>
    /\ Sent(Ours, Completed)
    /\ \A f \in wanted :
         /\ Sent(Ours, Received(f))
         /\ \E p \in DOMAIN disk :
              disk[p] = [by |-> f, length |-> FileSize[f]]

\* The other way round: what the receiver calls complete was read to its end by
\* the sender.  It alone may call the share failed, when the last reply is lost
\* or the session had been ended on the way.
ReceivedIsSent ==
  Sent(Ours, Completed) /\ ~TornDown(Ours) =>
    /\ \A f \in offered : f \in taken \/ (f = file /\ pipe.ended)
    /\ link = "up" => ~Task!Emitted(Task!Failed)

\* The share as a whole is a Delivery: a file at a time, success only when all
\* are there, and after a failure at most the file in hand still arrives.
Share == INSTANCE Delivery WITH
  agreed    <- wanted,
  inHand    <- file,
  delivered <- {f \in FileIds : Sent(Ours, Received(f))},
  verdict   <- CASE SaidSent      -> "sent"
                 [] stage = "done" /\ ~SaidSent -> "not sent"
                 [] OTHER         -> "none"

ImplementsDelivery == Share!Spec

\* An accepted share ends: whatever breaks, task and handler never wait for
\* one another for ever (send_files sets no time limit of its own).
ShareEnds ==
  (alive /\ stage \notin {"idle", "ask"}) ~> (stage \in {"ask", "done"} \/ ~alive)

\* Where no connection breaks and every file can be stored, the session of a
\* share that has ended leaves active_sessions, whether it was sent, failed or
\* cancelled: nothing but a broken connection or disk leaves one behind.
SessionsSettle ==
  [](link = "up" /\ \A u \in Uploads : pc[u] # "SERVER_ERROR") =>
    (stage = "done" /\ prep[Ours] = "accepted" ~> Ours \notin active)
=============================================================================
