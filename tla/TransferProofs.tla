--------------------------- MODULE TransferProofs ---------------------------
(***************************************************************************)
(* Theorems about Transfer, for every value of its constants.  Both ends   *)
(* are behaviours of their own modules, so what is proved of them there    *)
(* holds here; the rest is what the connection adds: what one end knows of *)
(* the other.                                                              *)
(***************************************************************************)
EXTENDS Transfer, UploadServerProofs

TaskProofs == INSTANCE SendFilesProofs WITH pc <- stage, Files <- FileIds

taskTuple == <<TaskProofs!sendVars, events>>

-----------------------------------------------------------------------------
(* What the ends know of one another.                                      *)

PipeOK == pipe \in [file : FileIds \cup {None}, bytes : Nat, ended : BOOLEAN]

\* The session of the share has a token for each file the task offered, and
\* the task wants what there is a token for.
Agreed ==
  /\ prep[Ours] = "unused" => tokens[Ours] = {}
  /\ prep[Ours] # "unused" => /\ tokens[Ours] = offered /\ offered # {}
                              /\ stage \notin {"idle", "stat"}
  /\ wanted # {} => wanted = tokens[Ours] /\ prep[Ours] = "accepted"
  /\ stage \in {"next", "open", "upload"} => wanted # {}

\* Each upload is the one of its own file, whose request is on the connection
\* or was; the receiver counts the body as complete only if the sender has
\* sent it to its end.
Matched ==
  /\ \A u \in Uploads : pc[u] # "idle" =>
       /\ query[u] = [session |-> Ours, file |-> u]
       /\ u \in taken
          \/ (u = file /\ pipe.file = u /\ stage \in {"upload", "done"})
  /\ \A u \in Uploads :
       pc[u] \in {"flush"} \cup Stored => u \in taken \/ pipe.ended
  /\ pipe.file # None =>
       pipe.file \in taken
       \/ (pipe.file = file /\ stage \in {"upload", "done"})
  /\ stage = "upload" => pipe.file = file
  /\ stage = "next" => file \in taken \cup {None}

\* What the task takes for confirmed was.
Confirmed ==
  /\ \A f \in taken : pc[f] = "OK"
  /\ SaidSent => wanted # {}

\* A reason to call the share failed while the connection holds: the request
\* was refused, or a file was, or was never sent.
FailedFor(f) ==
  pc[f] \in Replies \ {"OK"} \/ (pc[f] = "idle" /\ pipe.file # f)

FailureHasReason ==
  Task!Emitted(Task!Failed) /\ link = "up" =>
    /\ stage \in {"cancel", "done"}
    /\ prep[Ours] \in {"refused", "dropped"} \/ \E f \in offered : FailedFor(f)

LinkInv == PipeOK /\ Agreed /\ Matched /\ Confirmed /\ FailureHasReason

USE DEF Waiting, Phases, Cleanup, Partial, Stored, Live, Replies, Places

-----------------------------------------------------------------------------
(* Each end behaves as its own module says.                                *)

LEMMA TaskAssumed == TaskProofs!SendAssumption
BY TransferAssumption, ServerAssumption DEF IsFiniteSet, TaskProofs!IsFiniteSet

\* The task of Transfer and the task of the proofs are the same module.
LEMMA SameTotal == Task!Total = TaskProofs!Total
BY DEF Task!Total, Task!MapThenSumSet, Task!MapThenFoldSet,
       TaskProofs!Total, TaskProofs!MapThenSumSet, TaskProofs!MapThenFoldSet

LEMMA SameEvents ==
  /\ Task!NoValidFiles = TaskProofs!NoValidFiles
  /\ Task!AlreadyThere = TaskProofs!AlreadyThere
  /\ Task!NoneWanted = TaskProofs!NoneWanted
  /\ Task!SentAll = TaskProofs!SentAll
  /\ Task!Failed = TaskProofs!Failed
  /\ \A n, t : Task!Progress(n, t) = TaskProofs!Progress(n, t)
  /\ \A e : Task!Emit(e) <=> TaskProofs!Emit(e)
  /\ \A e : Task!Emitted(e) <=> TaskProofs!Emitted(e)
BY DEF Task!NoValidFiles, Task!AlreadyThere, Task!NoneWanted, Task!SentAll,
       Task!Failed, Task!Progress, Task!Emit, Task!Emitted,
       Task!FromTask, Task!AppEvent,
       TaskProofs!NoValidFiles, TaskProofs!AlreadyThere, TaskProofs!NoneWanted,
       TaskProofs!SentAll, TaskProofs!Failed, TaskProofs!Progress,
       TaskProofs!Emit, TaskProofs!Emitted, TaskProofs!FromTask,
       TaskProofs!AppEvent

LEMMA TaskBegins == Task!Init => TaskProofs!Init
BY DEF Task!Init, Task!SendInit, TaskProofs!Init, TaskProofs!SendInit

\* An action of the task is the same action in both instances.
LEMMA SameActions ==
  /\ Task!Begin => TaskProofs!Begin
  /\ \A f : Task!StatFile(f) => TaskProofs!StatFile(f)
  /\ Task!Offer => TaskProofs!Offer
  /\ Task!AnsweredWithout => TaskProofs!AnsweredWithout
  /\ \A ids : Task!AnsweredWith(ids) => TaskProofs!AnsweredWith(ids)
  /\ \A f : Task!NextFile(f) => TaskProofs!NextFile(f)
  /\ Task!OpenFile => TaskProofs!OpenFile
  /\ Task!PostCancel => TaskProofs!PostCancel
  /\ \A n : Task!ReadChunk(n) => TaskProofs!ReadChunk(n)
  /\ Task!EndOfFile => TaskProofs!EndOfFile
  /\ Task!UploadFails => TaskProofs!UploadFails
  /\ Task!UploadTaken => TaskProofs!UploadTaken
  /\ Task!Finish => TaskProofs!Finish
  /\ Task!DropBody => TaskProofs!DropBody
<1>1. Task!Begin => TaskProofs!Begin
  BY DEF Task!Begin, TaskProofs!Begin
<1>2. \A f : Task!StatFile(f) => TaskProofs!StatFile(f)
  BY DEF Task!StatFile, TaskProofs!StatFile
<1>3. Task!Offer => TaskProofs!Offer
  BY SameEvents DEF Task!Offer, TaskProofs!Offer
<1>4. Task!AnsweredWithout => TaskProofs!AnsweredWithout
  BY SameEvents DEF Task!AnsweredWithout, TaskProofs!AnsweredWithout
<1>5. \A ids : Task!AnsweredWith(ids) => TaskProofs!AnsweredWith(ids)
  BY SameEvents DEF Task!AnsweredWith, TaskProofs!AnsweredWith
<1>6. \A f : Task!NextFile(f) => TaskProofs!NextFile(f)
  BY DEF Task!NextFile, Task!Rest, Task!Known,
         TaskProofs!NextFile, TaskProofs!Rest, TaskProofs!Known
<1>7. Task!OpenFile => TaskProofs!OpenFile
  BY SameEvents DEF Task!OpenFile, TaskProofs!OpenFile
<1>8. Task!PostCancel => TaskProofs!PostCancel
  BY DEF Task!PostCancel, TaskProofs!PostCancel
<1>9. \A n : Task!ReadChunk(n) => TaskProofs!ReadChunk(n)
  BY SameEvents, SameTotal DEF Task!ReadChunk, TaskProofs!ReadChunk
<1>10. Task!EndOfFile => TaskProofs!EndOfFile
  BY DEF Task!EndOfFile, TaskProofs!EndOfFile
<1>11. Task!UploadFails => TaskProofs!UploadFails
  BY SameEvents DEF Task!UploadFails, TaskProofs!UploadFails
<1>12. Task!UploadTaken => TaskProofs!UploadTaken
  BY SameEvents, SameTotal
     DEF Task!UploadTaken, Task!NextBase, TaskProofs!UploadTaken,
         TaskProofs!NextBase
<1>13. Task!Finish => TaskProofs!Finish
  BY SameEvents DEF Task!Finish, TaskProofs!Finish
<1>14. Task!DropBody => TaskProofs!DropBody
  BY DEF Task!DropBody, TaskProofs!DropBody
<1> QED
  BY <1>1, <1>2, <1>3, <1>4, <1>5, <1>6, <1>7, <1>8, <1>9, <1>10, <1>11,
     <1>12, <1>13, <1>14

\* The parts that make both ends behave need one another: what the receiver
\* stores is what the task offered, what the task may want is what it stored.
PairInv == TypeOK /\ TaskProofs!ShapeInv /\ PipeOK /\ Agreed

LEMMA AgreedMeansOffered == PairInv => tokens[Ours] \subseteq offered
BY TransferAssumption DEF PairInv, Agreed

\* A step of the two is a step of the task or leaves it alone ...
LEMMA TaskOfStep ==
  ASSUME PairInv, [TransferNext]_transferVars
  PROVE  [TaskProofs!Next]_taskTuple
<1> USE SameActions DEF TaskProofs!Next, TaskProofs!SendNext,
        TaskProofs!TaskStep, TaskProofs!AnswerStep, TaskProofs!UploadStep
<1>1. CASE TaskAlone
  BY <1>1 DEF TaskAlone
<1>2. CASE PostUpload
  BY <1>2 DEF PostUpload
<1>3. CASE \E n \in ChunkSizes : SendBytes(n)
  BY <1>3 DEF SendBytes
<1>4. CASE SendEnd
  BY <1>4 DEF SendEnd
<1>5. CASE HearAnswer
  <2>1. tokens[Ours] \in SUBSET (offered \cup Strangers)
    BY AgreedMeansOffered
  <2> QED
    BY <1>5, <2>1 DEF HearAnswer
<1>6. CASE HearSuccess \/ HearFailure
  BY <1>6 DEF HearSuccess, HearFailure
<1>7. CASE PostCancel
  BY <1>7 DEF PostCancel
<1>8. CASE UNCHANGED taskVars
  BY <1>8 DEF taskVars, taskTuple, TaskProofs!sendVars
<1>9. ASSUME NEW u \in Uploads, HandlerStep(u)
      PROVE  UNCHANGED taskVars
  BY <1>9 DEF HandlerStep, ServeAlone, ReceiveBytes, ReceiveEnd, ReceiveBreak
<1>10. ASSUME RequestArrives \/ Answer \/ LoseHandler \/ UploadArrives
              \/ (\E s \in Sessions : Stranger(s)) \/ Break \/ QuitSender
              \/ RestartReceiver \/ UNCHANGED transferVars
       PROVE  UNCHANGED taskVars
  BY <1>10 DEF RequestArrives, Answer, LoseHandler, UploadArrives, Stranger,
               Break, QuitSender, RestartReceiver, transferVars
<1> QED
  BY <1>1, <1>2, <1>3, <1>4, <1>5, <1>6, <1>7, <1>8, <1>9, <1>10
     DEF TransferNext, SenderStep

\* ... and a step of the server or leaves that alone.
LEMMA ServerOfStep ==
  ASSUME PairInv, [TransferNext]_transferVars
  PROVE  [Next]_vars
<1> USE TransferAssumption DEF Next, UploadStep
<1>1. CASE TaskAlone \/ PostUpload \/ (\E n \in ChunkSizes : SendBytes(n))
           \/ SendEnd \/ HearAnswer \/ HearSuccess \/ HearFailure
  BY <1>1 DEF TaskAlone, PostUpload, SendBytes, SendEnd, HearAnswer,
              HearSuccess, HearFailure
<1>2. CASE PostCancel
  BY <1>2 DEF PostCancel
<1>3. CASE RequestArrives
  <2>1. offered \in SUBSET FileIds
    BY DEF PairInv, TaskProofs!ShapeInv, TaskProofs!TypeOK
  <2> QED
    BY <1>3, <2>1 DEF RequestArrives
<1>4. CASE Answer \/ LoseHandler
  BY <1>4 DEF Answer, LoseHandler
<1>5. CASE UploadArrives
  <2>1. /\ pipe.file \in Uploads
        /\ StartUpload(pipe.file, Ours, pipe.file, pipe.file)
    BY <1>5 DEF UploadArrives, PairInv, PipeOK
  <2> QED
    BY <2>1
<1>6. ASSUME NEW u \in Uploads, HandlerStep(u)
      PROVE  [Next]_vars
  BY <1>6 DEF HandlerStep, ServeAlone, ReceiveBytes, ReceiveEnd, ReceiveBreak
<1>7. CASE \E s \in Sessions : Stranger(s)
  BY <1>7 DEF Stranger
<1>8. CASE Break \/ QuitSender \/ UNCHANGED transferVars
  BY <1>8 DEF Break, QuitSender, transferVars
<1>9. CASE RestartReceiver
  BY <1>9 DEF RestartReceiver
<1> QED
  BY <1>1, <1>2, <1>3, <1>4, <1>5, <1>6, <1>7, <1>8, <1>9
     DEF TransferNext, SenderStep

LEMMA PipeStep == PairInv /\ [TransferNext]_transferVars => PipeOK'
<1> SUFFICES ASSUME PairInv, [TransferNext]_transferVars PROVE PipeOK'
  OBVIOUS
<1> USE DEF PipeOK
<1>0. PipeOK
  BY DEF PairInv
<1>1. CASE UNCHANGED pipe
  BY <1>0, <1>1
<1>2. CASE PostUpload
  <2>1. file \in FileIds \cup {None}
    BY DEF PairInv, TaskProofs!ShapeInv, TaskProofs!TypeOK
  <2> QED
    BY <1>0, <1>2, <2>1 DEF PostUpload, Fresh
<1>3. ASSUME NEW n \in ChunkSizes, SendBytes(n)
      PROVE  PipeOK'
  BY <1>0, <1>3, ServerAssumption DEF SendBytes
<1>4. CASE SendEnd
  BY <1>0, <1>4 DEF SendEnd
<1>5. ASSUME NEW u \in Uploads, NEW n \in ChunkSizes, ReceiveBytes(u, n)
      PROVE  PipeOK'
  <2>1. n \in Nat
    BY ServerAssumption
  <2> QED
    BY <1>0, <1>5, <2>1 DEF ReceiveBytes
<1>6. ASSUME TaskAlone \/ HearAnswer \/ HearSuccess \/ HearFailure
             \/ PostCancel \/ RequestArrives \/ Answer \/ LoseHandler
             \/ UploadArrives \/ (\E s \in Sessions : Stranger(s)) \/ Break
             \/ QuitSender \/ RestartReceiver \/ UNCHANGED transferVars
      PROVE  UNCHANGED pipe
  BY <1>6 DEF TaskAlone, HearAnswer, HearSuccess, HearFailure, PostCancel,
     RequestArrives, Answer, LoseHandler, UploadArrives, Stranger, Break,
     QuitSender, RestartReceiver, transferVars, networkVars
<1>7. ASSUME NEW u \in Uploads,
             ServeAlone(u) \/ ReceiveEnd(u) \/ ReceiveBreak(u)
      PROVE  UNCHANGED pipe
  BY <1>7 DEF ServeAlone, ReceiveEnd, ReceiveBreak, networkVars
<1> QED
  BY <1>1, <1>2, <1>3, <1>4, <1>5, <1>6, <1>7
     DEF TransferNext, SenderStep, HandlerStep

LEMMA AgreedStep == PairInv /\ [TransferNext]_transferVars => Agreed'
<1> SUFFICES ASSUME PairInv, [TransferNext]_transferVars PROVE Agreed'
  OBVIOUS
<1> USE TransferAssumption DEF Agreed, vars, taskVars
<1>0. Agreed /\ TypeOK /\ prep \in [Sessions -> Phases]
      /\ tokens \in [Sessions -> SUBSET FileIds]
  BY DEF PairInv, TypeOK
<1>1. CASE TaskAlone
  BY <1>0, <1>1 DEF TaskAlone, Task!Begin, Task!StatFile, Task!Offer,
     Task!NextFile, Task!Finish, Task!DropBody
<1>2. CASE PostUpload
  BY <1>0, <1>2 DEF PostUpload, Task!OpenFile
<1>3. CASE (\E n \in ChunkSizes : SendBytes(n)) \/ SendEnd
  BY <1>0, <1>3 DEF SendBytes, SendEnd, Task!ReadChunk, Task!EndOfFile
<1>4. CASE HearAnswer
  BY <1>0, <1>4 DEF HearAnswer, Task!AnsweredWith, Task!AnsweredWithout
<1>5. CASE HearSuccess \/ HearFailure
  BY <1>0, <1>5 DEF HearSuccess, HearFailure, Task!UploadTaken,
                    Task!UploadFails
<1>6. CASE PostCancel
  BY <1>0, <1>6 DEF PostCancel, Task!PostCancel, CancelSession
<1>7. CASE RequestArrives
  <2>1. /\ prep[Ours] = "unused" /\ prep'[Ours] = "waiting"
        /\ tokens'[Ours] = offered /\ UNCHANGED taskVars
        /\ offered # {} /\ stage \notin {"idle", "stat"}
    BY <1>0, <1>7 DEF RequestArrives, PrepareUpload
  <2> QED
    BY <1>0, <2>1
<1>8. ASSUME UNCHANGED <<tokens, taskVars>>,
             prep'[Ours] = "unused" <=> prep[Ours] = "unused",
             prep[Ours] = "accepted" => prep'[Ours] = "accepted"
      PROVE  Agreed'
  BY <1>0, <1>8
<1>9. CASE Answer \/ LoseHandler
  <2>1. UNCHANGED <<tokens, taskVars>>
    BY <1>9 DEF Answer, LoseHandler, AnswerRequest, ReplyPrepare,
                DropPrepare, DropUpload, sessionVars
  <2>2. prep' = prep
        \/ (prep[Ours] \in Waiting
            /\ \E p \in Phases \ {"unused"} : prep' = [prep EXCEPT ![Ours] = p])
    BY <1>9 DEF Answer, LoseHandler, AnswerRequest, ReplyPrepare,
                DropPrepare, DropUpload, sessionVars
  <2>3. prep'[Ours] = prep[Ours]
        \/ (prep[Ours] \in Waiting /\ prep'[Ours] # "unused")
    BY <1>0, <2>2
  <2> QED
    BY <1>8, <2>1, <2>3
<1>10. CASE UploadArrives
  BY <1>8, <1>10 DEF UploadArrives, StartUpload, sessionVars
<1>11. ASSUME NEW u \in Uploads, HandlerStep(u)
       PROVE  UNCHANGED <<prep, tokens, taskVars>>
  BY <1>11 DEF HandlerStep, ServeAlone, ReceiveBytes, ReceiveEnd, ReceiveBreak,
     CreateDestination, CheckSession, ReceiveChunk, WriteFails, StreamEnds,
     StreamBreaks, RemoveFile, Flush, AccountFile, AnnounceCompletion,
     sessionVars
<1>12. ASSUME NEW s \in Sessions, Stranger(s)
       PROVE  Agreed'
  <2>1. /\ UNCHANGED taskVars
        /\ tokens'[Ours] = tokens[Ours] /\ prep'[Ours] = prep[Ours]
    BY <1>0, <1>12 DEF Stranger, PrepareUpload, CancelAll
  <2> QED
    BY <1>0, <2>1
<1>13. CASE Break \/ QuitSender \/ UNCHANGED transferVars
  BY <1>0, <1>13 DEF Break, QuitSender, transferVars
<1>14. CASE RestartReceiver
  <2>1. /\ UNCHANGED <<tokens, taskVars>>
        /\ prep'[Ours] = IF prep[Ours] \in Waiting THEN "dropped"
                                                   ELSE prep[Ours]
    BY <1>14 DEF RestartReceiver, Restart
  <2> QED
    BY <1>8, <2>1
<1> QED
  BY <1>1, <1>2, <1>3, <1>4, <1>5, <1>6, <1>7, <1>8, <1>9, <1>10, <1>11,
     <1>12, <1>13, <1>14
     DEF TransferNext, SenderStep

LEMMA PairAlways == TransferSpec => []PairInv
<1>1. TransferInit => PairInv
  <2> SUFFICES ASSUME TransferInit PROVE PairInv
    OBVIOUS
  <2>1. TypeOK
    BY TypeInit DEF TransferInit
  <2>2. TaskProofs!ShapeInv
    BY TaskAssumed, TaskBegins, TaskProofs!ShapeInit DEF TransferInit
  <2>3. Agreed
    BY TransferAssumption
       DEF TransferInit, Init, Task!Init, Task!SendInit, Agreed
  <2>4. PipeOK
    BY DEF TransferInit, Fresh, PipeOK
  <2> QED
    BY <2>1, <2>2, <2>3, <2>4 DEF PairInv
<1>2. PairInv /\ [TransferNext]_transferVars => PairInv'
  <2> SUFFICES ASSUME PairInv, [TransferNext]_transferVars PROVE PairInv'
    OBVIOUS
  <2>1. TypeOK'
    BY ServerOfStep, TypeStep DEF PairInv
  <2>2. TaskProofs!ShapeInv'
    BY TaskAssumed, TaskOfStep, TaskProofs!ShapeStep DEF PairInv, taskTuple
  <2> QED
    BY <2>1, <2>2, PipeStep, AgreedStep DEF PairInv
<1> QED
  BY <1>1, <1>2, PTL DEF TransferSpec

\* Whatever the connection does, the receiver is an UploadServer and the
\* sender is a SendFiles: Transfer restates nothing of either.
THEOREM BothEndsBehave == TransferSpec => Spec /\ TaskProofs!Spec
<1>1. TransferInit => Init /\ TaskProofs!Init
  BY TaskBegins DEF TransferInit
<1>2. PairInv /\ [TransferNext]_transferVars =>
        [Next]_vars /\ [TaskProofs!Next]_<<TaskProofs!sendVars, events>>
  BY ServerOfStep, TaskOfStep DEF taskTuple
<1> QED
  BY <1>1, <1>2, PairAlways, PTL DEF TransferSpec, Spec, TaskProofs!Spec

-----------------------------------------------------------------------------
(* What one end knows of the other.                                        *)

EndsInv == /\ PairInv /\ FilesInv /\ AccountsInv
           /\ TaskProofs!SendInv /\ TaskProofs!ProgressInv

LEMMA EndsAlways == TransferSpec => []EndsInv
<1>1. Spec => []FilesInv
  BY FilesAlways
<1>2. Spec => []AccountsInv
  BY AccountsAlways
<1>3. TaskProofs!Spec => []TaskProofs!SendInv
  BY TaskAssumed, TaskProofs!SendAlways
<1>4. TaskProofs!Spec => []TaskProofs!ProgressInv
  BY TaskAssumed, TaskProofs!ProgressAlways
<1> QED
  BY <1>1, <1>2, <1>3, <1>4, PairAlways, BothEndsBehave, PTL DEF EndsInv

\* The sender does nothing to uploads.
LEMMA SenderMoves ==
  ASSUME SenderStep
  PROVE  UNCHANGED <<pc, query, prep, tokens>> /\ link' = link
BY DEF SenderStep, TaskAlone, PostUpload, SendBytes, SendEnd, HearAnswer,
       HearSuccess, HearFailure, PostCancel, CancelSession, vars, uploadVars,
       networkVars

\* The receiver does nothing to the task; an upload begins with the request
\* on the connection, is read to the end only when the sender is at the end,
\* and once it has replied stands still.
LEMMA ReceiverMoves ==
  ASSUME PairInv, [TransferNext]_transferVars, ~SenderStep
  PROVE  /\ UNCHANGED taskVars
         /\ pipe'.file = pipe.file /\ pipe'.ended = pipe.ended
         /\ link' = "up" => link = "up"
         /\ \A u \in Uploads :
              /\ pc[u] = "idle" /\ pc'[u] # "idle" =>
                   u = pipe.file /\ query'[u] = [session |-> Ours, file |-> u]
              /\ pc'[u] \in {"flush"} \cup Stored =>
                   \/ pc[u] \in {"flush"} \cup Stored
                   \/ pipe.file = u /\ pipe.ended
              /\ pc[u] \in Replies => pc'[u] = pc[u]
<1> DEFINE Alone(u) == pc'[u] = pc[u]
           Good(u) ==
             /\ pc[u] = "idle" /\ pc'[u] # "idle" =>
                  u = pipe.file /\ query'[u] = [session |-> Ours, file |-> u]
             /\ pc'[u] \in {"flush"} \cup Stored =>
                  \/ pc[u] \in {"flush"} \cup Stored
                  \/ pipe.file = u /\ pipe.ended
             /\ pc[u] \in Replies => pc'[u] = pc[u]
           Kept == UNCHANGED taskVars
           Piped == pipe'.file = pipe.file /\ pipe'.ended = pipe.ended
           Linked == link' = "up" => link = "up"
           Goal == Kept /\ Piped /\ Linked /\ \A u \in Uploads : Good(u)
<1>0. /\ PipeOK /\ pc \in [Uploads -> Places]
      /\ query \in [Uploads -> Query \cup {None}]
  BY DEF PairInv, TypeOK
<1>1. \A u \in Uploads : Alone(u) => Good(u)
  OBVIOUS
<1>2. ASSUME NEW v \in Uploads, HandlerStep(v)
      PROVE  Goal
  <2>1. Kept
    BY <1>2 DEF HandlerStep, ServeAlone, ReceiveBytes, ReceiveEnd, ReceiveBreak
  <2>2. Piped /\ Linked
    <3>1. CASE \E n \in ChunkSizes : ReceiveBytes(v, n)
      BY <1>0, <3>1 DEF ReceiveBytes, PipeOK
    <3>2. CASE ServeAlone(v) \/ ReceiveEnd(v) \/ ReceiveBreak(v)
      BY <3>2 DEF ServeAlone, ReceiveEnd, ReceiveBreak, networkVars
    <3> QED
      BY <1>2, <3>1, <3>2 DEF HandlerStep
  <2>3. \A u \in Uploads \ {v} : Alone(u)
    BY <1>0, <1>2 DEF HandlerStep, ServeAlone, ReceiveBytes, ReceiveEnd,
       ReceiveBreak, CreateDestination, CheckSession, ReceiveChunk, WriteFails,
       StreamEnds, StreamBreaks, RemoveFile, Flush, AccountFile,
       AnnounceCompletion, Goto
  <2>4. Good(v)
    <3>1. CASE ServeAlone(v)
      BY <1>0, <3>1 DEF ServeAlone, CreateDestination, CheckSession,
         WriteFails, RemoveFile, Flush, AccountFile, AnnounceCompletion, Goto
    <3>2. CASE \E n \in ChunkSizes : ReceiveBytes(v, n)
      BY <1>0, <3>2 DEF ReceiveBytes, ReceiveChunk, Goto
    <3>3. CASE ReceiveEnd(v) \/ ReceiveBreak(v)
      BY <1>0, <3>3 DEF ReceiveEnd, ReceiveBreak, StreamEnds, StreamBreaks, Goto
    <3> QED
      BY <1>2, <3>1, <3>2, <3>3 DEF HandlerStep
  <2> HIDE DEF Kept, Piped, Linked, Good, Alone
  <2> QED
    BY <1>1, <2>1, <2>2, <2>3, <2>4
<1>3. ASSUME UploadArrives
      PROVE  Goal
  <2>1. Kept /\ Piped /\ Linked
    BY <1>3 DEF UploadArrives, networkVars
  <2>2. \A u \in Uploads \ {pipe.file} : Alone(u)
    BY <1>0, <1>3 DEF UploadArrives, StartUpload, Goto
  <2>3. ASSUME NEW v \in Uploads, v = pipe.file
        PROVE  Good(v)
    <3>1. LookUp(Ours, v, v) \notin {"flush"} \cup Stored
      BY DEF LookUp
    <3> QED
      BY <1>0, <1>3, <2>3, <3>1 DEF UploadArrives, StartUpload, Goto
  <2> HIDE DEF Kept, Piped, Linked, Good, Alone
  <2> QED
    BY <1>1, <2>1, <2>2, <2>3
<1>4. ASSUME LoseHandler
      PROVE  Goal
  <2>1. Kept /\ Piped /\ Linked
    BY <1>4 DEF LoseHandler, networkVars
  <2>2. \A u \in Uploads : Alone(u) \/ (pc[u] \notin Replies \cup {"idle"}
                                        /\ pc'[u] = "dropped")
    BY <1>0, <1>4 DEF LoseHandler, DropPrepare, DropUpload, uploadVars, Goto
  <2>3. \A u \in Uploads : Good(u)
    BY <2>2
  <2> HIDE DEF Kept, Piped, Linked, Good
  <2> QED
    BY <2>1, <2>3
<1>5. ASSUME RestartReceiver
      PROVE  Goal
  <2>1. Kept /\ Piped /\ Linked
    BY <1>5 DEF RestartReceiver
  <2>2. ASSUME NEW u \in Uploads
        PROVE  Good(u)
    <3>1. pc'[u] = CASE pc[u] \in Live \ Stored -> "dropped"
                     [] pc[u] \in Live \cap Stored -> "cut"
                     [] OTHER -> pc[u]
      BY <1>5 DEF RestartReceiver, Restart
    <3>2. CASE pc[u] \in Live \ Stored
      BY <3>1, <3>2
    <3>3. CASE pc[u] \in Live \cap Stored
      BY <3>1, <3>3
    <3>4. CASE pc[u] \notin Live
      BY <3>1, <3>4
    <3> QED
      BY <3>2, <3>3, <3>4
  <2> HIDE DEF Kept, Piped, Linked, Good
  <2> QED
    BY <2>1, <2>2
<1>6. ASSUME RequestArrives \/ Answer \/ (\E s \in Sessions : Stranger(s))
             \/ Break \/ QuitSender \/ UNCHANGED transferVars
      PROVE  Goal
  <2>1. Kept /\ Piped /\ Linked
    BY <1>6 DEF RequestArrives, Answer, Stranger, Break, QuitSender,
                transferVars, networkVars
  <2>2. pc' = pc
    BY <1>6 DEF RequestArrives, Answer, Stranger, Break, QuitSender,
       transferVars, vars, PrepareUpload, AnswerRequest, ReplyPrepare,
       CancelAll, uploadVars
  <2>3. \A u \in Uploads : Good(u)
    BY <2>2
  <2> HIDE DEF Kept, Piped, Linked, Good
  <2> QED
    BY <2>1, <2>3
<1> HIDE DEF Goal
<1>7. Goal
  BY <1>2, <1>3, <1>4, <1>5, <1>6 DEF TransferNext
<1> QED
  BY <1>7 DEF Goal

\* What sending one more event does to what has been said.
LEMMA Says ==
  ASSUME events \in Seq(TaskProofs!TaskEvent), NEW e, Task!Emit(e)
  PROVE  \A x : Task!Emitted(x)' <=> Task!Emitted(x) \/ x = e
<1>1. /\ DOMAIN events' = 1 .. Len(events) + 1
      /\ \A i \in 1 .. Len(events) : events'[i] = events[i]
      /\ events'[Len(events) + 1] = e
      /\ DOMAIN events = 1 .. Len(events) /\ Len(events) \in Nat
  BY DEF Task!Emit
<1>2. ASSUME NEW x, Task!Emitted(x)
      PROVE  Task!Emitted(x)'
  BY <1>1, <1>2 DEF Task!Emitted
<1>3. Task!Emitted(e)'
  BY <1>1 DEF Task!Emitted
<1>4. ASSUME NEW x, Task!Emitted(x)', x # e
      PROVE  Task!Emitted(x)
  <2>1. PICK i \in DOMAIN events' : events'[i] = x
    BY <1>4 DEF Task!Emitted
  <2>2. i \in 1 .. Len(events)
    BY <1>1, <1>4, <2>1
  <2> QED
    BY <1>1, <2>1, <2>2 DEF Task!Emitted
<1> QED
  BY <1>2, <1>3, <1>4

LEMMA EventsKept ==
  ASSUME UNCHANGED events
  PROVE  \A x : Task!Emitted(x)' <=> Task!Emitted(x)
BY DEF Task!Emitted

\* What PairInv and the rest say of the task, in the words of this module.
LEMMA TaskFacts ==
  ASSUME EndsInv
  PROVE  /\ events \in Seq(TaskProofs!TaskEvent)
         /\ offered \subseteq FileIds
         /\ file \in (wanted \cap offered) \cup {None}
         /\ taken \subseteq wanted \cap offered
         /\ body \in {"none", "open", "ended"}
         /\ stage \in {"idle", "stat", "ask"} =>
              wanted = {} /\ taken = {} /\ file = None
         /\ stage \in {"open", "upload", "cancel"} => file # None
         /\ stage \in {"open", "upload"} \/ body # "none" => file \notin taken
         /\ stage \in {"next", "open", "upload"} =>
              todo \subseteq wanted /\ todo \cap taken = {}
         /\ body # "none" => stage \in {"upload", "done"} /\ file # None
         /\ SaidSent => stage = "done" /\ taken = wanted \cap offered
BY SameEvents
   DEF EndsInv, TaskProofs!SendInv, TaskProofs!ProgressInv,
       TaskProofs!ShapeInv, TaskProofs!TypeOK, TaskProofs!Phases,
       TaskProofs!OnceEach, TaskProofs!EarnedInv, SaidSent

LEMMA SaysNoSuccess ==
  /\ Task!NoValidFiles # Task!SentAll /\ Task!AlreadyThere # Task!SentAll
  /\ Task!NoneWanted # Task!SentAll /\ Task!Failed # Task!SentAll
  /\ \A n, t : Task!Progress(n, t) # Task!SentAll
BY DEF Task!NoValidFiles, Task!AlreadyThere, Task!NoneWanted, Task!Failed,
       Task!SentAll, Task!Progress, Task!FromTask, Task!AppEvent

LEMMA MatchedStep ==
  EndsInv /\ Matched /\ [TransferNext]_transferVars => Matched'
<1> SUFFICES ASSUME EndsInv, Matched, [TransferNext]_transferVars
             PROVE  Matched'
  OBVIOUS
<1>0. PairInv /\ TypeOK /\ PipeOK
  BY DEF EndsInv, PairInv
<1>1. CASE SenderStep
  <2>1. UNCHANGED <<pc, query>>
    BY <1>1, SenderMoves
  <2>2. CASE TaskAlone
    BY <2>1, <2>2, TaskFacts DEF Matched, TaskAlone, Task!Begin, Task!StatFile,
       Task!Offer, Task!NextFile, Task!Finish, Task!DropBody, networkVars
  <2>3. CASE PostUpload
    <3>1. /\ stage = "open" /\ UNCHANGED <<file, taken>>
          /\ \/ stage' = "upload" /\ pipe' = Fresh(file)
             \/ stage' = "cancel" /\ pipe' = pipe
      BY <2>3, TaskFacts DEF PostUpload, Task!OpenFile
    <3>2. CASE stage' = "upload" /\ pipe' = Fresh(file)
      <4>1. pipe'.file = file
        BY <3>2 DEF Fresh
      <4>2. \A u \in Uploads : pc[u] # "idle" => u \in taken
        BY <3>1 DEF Matched
      <4> QED
        BY <2>1, <3>1, <3>2, <4>1, <4>2 DEF Matched
    <3>3. CASE stage' = "cancel" /\ pipe' = pipe
      BY <2>1, <3>1, <3>3 DEF Matched
    <3> QED
      BY <3>1, <3>2, <3>3
  <2>4. CASE (\E n \in ChunkSizes : SendBytes(n)) \/ SendEnd
    <3>1. /\ pipe'.file = pipe.file /\ (pipe.ended => pipe'.ended)
          /\ UNCHANGED <<stage, file, taken>>
      BY <1>0, <2>4 DEF SendBytes, SendEnd, Task!ReadChunk, Task!EndOfFile,
                        PipeOK
    <3> QED
      BY <2>1, <3>1 DEF Matched
  <2>5. CASE HearAnswer
    BY <2>1, <2>5, TaskFacts DEF Matched, HearAnswer, Task!AnsweredWith,
       Task!AnsweredWithout, networkVars
  <2>6. CASE HearSuccess \/ HearFailure
    BY <2>1, <2>6 DEF Matched, HearSuccess, HearFailure, Task!UploadTaken,
       Task!UploadFails, networkVars
  <2>7. CASE PostCancel
    BY <2>1, <2>7 DEF Matched, PostCancel, Task!PostCancel, networkVars
  <2> QED
    BY <1>1, <2>2, <2>3, <2>4, <2>5, <2>6, <2>7 DEF SenderStep
<1>2. CASE ~SenderStep
  <2>1. /\ UNCHANGED <<stage, file, taken>>
        /\ pipe'.file = pipe.file /\ pipe'.ended = pipe.ended
    BY <1>0, <1>2, ReceiverMoves DEF taskVars
  <2>2. ASSUME NEW u \in Uploads, pc'[u] # "idle"
        PROVE  /\ query'[u] = [session |-> Ours, file |-> u]
               /\ u \in taken
                  \/ (u = file /\ pipe.file = u /\ stage \in {"upload", "done"})
    <3>1. CASE pc[u] # "idle"
      <4>1. query'[u] = query[u]
        BY <1>0, <3>1, ServerOfStep, UploadMoves
      <4> QED
        BY <3>1, <4>1 DEF Matched
    <3>2. CASE pc[u] = "idle"
      <4>1. u = pipe.file /\ query'[u] = [session |-> Ours, file |-> u]
        BY <1>0, <1>2, <2>2, <3>2, ReceiverMoves
      <4>2. u # None
        BY TransferAssumption, ServerAssumption
      <4> QED
        BY <4>1, <4>2 DEF Matched
    <3> QED
      BY <3>1, <3>2
  <2>3. ASSUME NEW u \in Uploads, pc'[u] \in {"flush"} \cup Stored
        PROVE  u \in taken \/ pipe.ended
    BY <1>0, <1>2, <2>3, ReceiverMoves DEF Matched
  <2> QED
    BY <2>1, <2>2, <2>3 DEF Matched
<1> QED
  BY <1>1, <1>2

LEMMA ConfirmedStep ==
  EndsInv /\ Agreed /\ Matched /\ Confirmed /\ [TransferNext]_transferVars
    => Confirmed'
<1> SUFFICES ASSUME EndsInv, Agreed, Matched, Confirmed,
                    [TransferNext]_transferVars
             PROVE  Confirmed'
  OBVIOUS
<1>0. PairInv /\ TypeOK
  BY DEF EndsInv, PairInv
<1>1. \A f : f \in taken => f \in Uploads
  BY TaskFacts, TransferAssumption
<1>2. CASE ~SenderStep
  <2>1. UNCHANGED <<taken, wanted, events>>
    BY <1>0, <1>2, ReceiverMoves DEF taskVars
  <2>2. ASSUME NEW f \in taken
        PROVE  pc'[f] = "OK"
    BY <1>0, <1>1, <1>2, ReceiverMoves DEF Confirmed
  <2> QED
    BY <2>1, <2>2, EventsKept DEF Confirmed, SaidSent
<1>3. CASE SenderStep
  <2>1. UNCHANGED pc
    BY <1>3, SenderMoves
  <2>2. \A f \in taken' : pc'[f] = "OK"
    <3>1. CASE taken' = taken
      BY <2>1, <3>1 DEF Confirmed
    <3>2. CASE HearSuccess
      BY <2>1, <3>2 DEF Confirmed, HearSuccess, RepliedOK, Task!UploadTaken
    <3>3. ~HearSuccess => taken' = taken
      BY <1>3 DEF SenderStep, TaskAlone, Task!Begin, Task!StatFile,
         Task!Offer, Task!NextFile, Task!Finish, Task!DropBody, PostUpload,
         Task!OpenFile, SendBytes, Task!ReadChunk, SendEnd, Task!EndOfFile,
         HearAnswer, Task!AnsweredWith, Task!AnsweredWithout, HearFailure,
         Task!UploadFails, PostCancel, Task!PostCancel
    <3> QED
      BY <3>1, <3>2, <3>3
  <2>3. SaidSent' => wanted' # {}
    <3>1. \/ UNCHANGED events
          \/ stage = "next" /\ UNCHANGED wanted
          \/ \E e : Task!Emit(e) /\ e # Task!SentAll
      BY <1>3, SaysNoSuccess DEF SenderStep, TaskAlone, Task!Begin, Task!StatFile,
         Task!Offer, Task!NextFile, Task!Finish, Task!DropBody, PostUpload,
         Task!OpenFile, SendBytes, Task!ReadChunk, SendEnd, Task!EndOfFile,
         HearAnswer, Task!AnsweredWith, Task!AnsweredWithout, HearSuccess,
         Task!UploadTaken, HearFailure, Task!UploadFails, PostCancel,
         Task!PostCancel
    <3>2. SaidSent => wanted' = wanted
      <4>1. SaidSent => stage = "done"
        BY TaskFacts
      <4> QED
        BY <1>3, <4>1 DEF SenderStep, TaskAlone, Task!Begin, Task!StatFile,
         Task!Offer, Task!NextFile, Task!Finish, Task!DropBody, PostUpload,
         Task!OpenFile, SendBytes, Task!ReadChunk, SendEnd, Task!EndOfFile,
         HearAnswer, Task!AnsweredWith, Task!AnsweredWithout, HearSuccess,
         Task!UploadTaken, HearFailure, Task!UploadFails, PostCancel,
         Task!PostCancel
    <3>3. CASE SaidSent
      BY <3>2, <3>3 DEF Confirmed
    <3>4. CASE stage = "next" /\ UNCHANGED wanted
      BY <3>4 DEF Agreed
    <3>5. CASE UNCHANGED events \/ \E e : Task!Emit(e) /\ e # Task!SentAll
      <4>1. SaidSent' => SaidSent
        BY <3>5, EventsKept, Says, TaskFacts DEF SaidSent, Task!SentAll,
           Task!FromTask, Task!AppEvent
      <4> QED
        BY <3>3, <4>1
    <3> QED
      BY <3>1, <3>3, <3>4, <3>5
  <2> QED
    BY <2>2, <2>3 DEF Confirmed
<1> QED
  BY <1>2, <1>3

LEMMA RefusalStands ==
  ASSUME PairInv, [TransferNext]_transferVars,
         prep[Ours] \in {"refused", "dropped"}
  PROVE  prep'[Ours] = prep[Ours]
<1> USE TransferAssumption
<1>0. TypeOK /\ [Next]_vars
  BY ServerOfStep DEF PairInv
<1>1. ASSUME NEW x \in Sessions,
             \/ \E o \in SUBSET FileIds : PrepareUpload(x, o)
             \/ \E accepted \in BOOLEAN : AnswerRequest(x, accepted)
             \/ ReplyPrepare(x) \/ DropPrepare(x)
             \/ CancelSession(x) \/ CancelAll(x)
      PROVE  prep'[Ours] = prep[Ours]
  BY <1>0, <1>1 DEF PrepareUpload, AnswerRequest, ReplyPrepare, DropPrepare,
                    CancelSession, CancelAll, TypeOK
<1>2. ASSUME NEW u \in Uploads,
             \/ UploadStep(u) \/ DropUpload(u)
             \/ \E x \in Sessions : \E f, t \in FileIds : StartUpload(u, x, f, t)
      PROVE  prep' = prep
  BY <1>2 DEF UploadStep, CreateDestination, CheckSession, ReceiveChunk,
     WriteFails, StreamEnds, StreamBreaks, RemoveFile, Flush, AccountFile,
     AnnounceCompletion, DropUpload, StartUpload, sessionVars
<1>3. Restart \/ UNCHANGED vars => prep'[Ours] = prep[Ours]
  BY DEF Restart, vars
<1> QED
  BY <1>0, <1>1, <1>2, <1>3 DEF Next

\* Emitted(Failed) is about the state of the events alone.
LEMMA FailedKept ==
  Task!Emitted(Task!Failed)' <=> \E i \in DOMAIN events' : events'[i] = Task!Failed
BY DEF Task!Emitted, Task!Failed, Task!FromTask, Task!AppEvent

LEMMA FailureStep ==
  EndsInv /\ LinkInv /\ [TransferNext]_transferVars => FailureHasReason'
<1> SUFFICES ASSUME EndsInv, LinkInv, [TransferNext]_transferVars,
                    Task!Emitted(Task!Failed)', link' = "up"
             PROVE  /\ stage' \in {"cancel", "done"}
                    /\ prep'[Ours] \in {"refused", "dropped"}
                       \/ \E f \in offered' : FailedFor(f)'
  BY DEF FailureHasReason, Task!Emitted, Task!Failed, Task!FromTask,
         Task!AppEvent
<1>0. PairInv /\ TypeOK /\ Agreed /\ Matched
  BY DEF EndsInv, PairInv, LinkInv
<1> DEFINE Reason == /\ stage \in {"cancel", "done"}
                     /\ prep[Ours] \in {"refused", "dropped"}
                        \/ \E f \in offered : FailedFor(f)
           Reason1 == /\ stage' \in {"cancel", "done"}
                      /\ prep'[Ours] \in {"refused", "dropped"}
                         \/ \E f \in offered' : FailedFor(f)'
<1>1. CASE ~SenderStep
  <2>1. /\ UNCHANGED <<stage, offered, events>> /\ pipe'.file = pipe.file
        /\ link = "up"
    BY <1>0, <1>1, ReceiverMoves DEF taskVars
  <2>2. Reason
    BY <2>1, EventsKept DEF LinkInv, FailureHasReason
  <2>3. ASSUME NEW f \in offered, FailedFor(f)
        PROVE  FailedFor(f)'
    <3>1. f \in Uploads
      BY TaskFacts, TransferAssumption
    <3> QED
      BY <1>0, <1>1, <2>1, <2>3, <3>1, ReceiverMoves DEF FailedFor
  <2> QED
    BY <1>0, <2>1, <2>2, <2>3, RefusalStands
<1>2. CASE SenderStep
  <2>0. UNCHANGED <<pc, prep>> /\ link = "up"
    BY <1>2, SenderMoves
  <2>1. CASE /\ Task!Emitted(Task!Failed)
             /\ UNCHANGED offered /\ pipe'.file = pipe.file
             /\ stage' \in {"cancel", "done"}
    <3>1. Reason
      BY <2>0, <2>1 DEF LinkInv, FailureHasReason
    <3>2. \A f \in offered : FailedFor(f) => FailedFor(f)'
      BY <2>0, <2>1 DEF FailedFor
    <3> QED
      BY <2>0, <2>1, <3>1, <3>2
  <2>2. CASE HearAnswer
    <3>1. ~Task!Emitted(Task!Failed)
      BY <2>0, <2>2 DEF HearAnswer, Task!AnsweredWith, Task!AnsweredWithout,
                        LinkInv, FailureHasReason
    <3>2. ~(prep[Ours] = "accepted" /\ Task!AnsweredWith(tokens[Ours]))
      <4>1. ASSUME prep[Ours] = "accepted", Task!AnsweredWith(tokens[Ours])
            PROVE  FALSE
        <5>1. tokens[Ours] # {}
          BY <1>0, <4>1 DEF Agreed
        <5> QED
          BY <3>1, <4>1, <5>1, EventsKept DEF Task!AnsweredWith
      <4> QED
        BY <4>1
    <3> QED
      BY <2>0, <2>2, <3>2 DEF HearAnswer, Task!AnsweredWithout
  <2>3. CASE PostUpload
    <3>1. ~Task!Emitted(Task!Failed)
      BY <2>0, <2>3 DEF PostUpload, Task!OpenFile, LinkInv, FailureHasReason
    <3>2. /\ stage = "open" /\ stage' = "cancel" /\ pipe' = pipe
          /\ offered' = offered
      BY <2>3, <3>1, EventsKept, TaskFacts DEF PostUpload, Task!OpenFile
    <3>3. file \in offered /\ file \in Uploads /\ file \notin taken
      BY <3>2, TaskFacts, TransferAssumption
    <3>4. PICK f \in offered : f = file /\ f \in Uploads /\ f # None
      BY <3>3, TransferAssumption, ServerAssumption
    <3>5. pc[f] = "idle"
      BY <1>0, <3>2, <3>3, <3>4 DEF Matched
    <3>6. pipe.file # f
      BY <1>0, <3>2, <3>3, <3>4 DEF Matched
    <3>7. FailedFor(f)'
      BY <2>0, <3>2, <3>5, <3>6 DEF FailedFor
    <3> QED
      BY <3>2, <3>7
  <2>4. CASE HearFailure
    <3>1. /\ stage = "upload" /\ stage' = "done" /\ UNCHANGED <<offered, file>>
          /\ pc[file] \in Replies \ {"OK"}
      BY <2>0, <2>4 DEF HearFailure, Task!UploadFails
    <3>2. file \in offered
      BY <3>1, TaskFacts
    <3> QED
      BY <2>0, <3>1, <3>2 DEF FailedFor
  <2>5. CASE (\E n \in ChunkSizes : SendBytes(n)) \/ SendEnd
    <3>1. /\ UNCHANGED <<stage, offered>> /\ pipe'.file = pipe.file
          /\ Task!Emitted(Task!Failed)
      <4>1. UNCHANGED <<stage, offered>> /\ pipe'.file = pipe.file
        BY <1>0, <2>5 DEF SendBytes, SendEnd, Task!ReadChunk, Task!EndOfFile,
                          PairInv, PipeOK
      <4>2. \/ UNCHANGED events
            \/ \E n, t : Task!Emit(Task!Progress(n, t))
        BY <2>5 DEF SendBytes, SendEnd, Task!ReadChunk, Task!EndOfFile
      <4>3. \A n, t : Task!Progress(n, t) # Task!Failed
        BY DEF Task!Progress, Task!Failed, Task!FromTask, Task!AppEvent
      <4> QED
        BY <4>1, <4>2, <4>3, Says, EventsKept, FailedKept, TaskFacts
    <3> QED
      BY <2>0, <2>1, <3>1 DEF LinkInv, FailureHasReason
  <2>6. CASE TaskAlone
    <3>1. /\ pipe' = pipe
          /\ \/ UNCHANGED events /\ UNCHANGED stage /\ UNCHANGED offered
             \/ stage \notin {"cancel", "done"}
                /\ \/ UNCHANGED events
                   \/ Task!Emit(Task!NoValidFiles) \/ Task!Emit(Task!SentAll)
      BY <2>6 DEF TaskAlone, Task!Begin, Task!StatFile, Task!Offer,
                  Task!NextFile, Task!Finish, Task!DropBody, networkVars
    <3>2. Task!NoValidFiles # Task!Failed /\ Task!SentAll # Task!Failed
      BY DEF Task!NoValidFiles, Task!Failed, Task!SentAll, Task!FromTask,
             Task!AppEvent
    <3>3. Task!Emitted(Task!Failed)
      BY <3>1, <3>2, Says, EventsKept, FailedKept, TaskFacts
    <3>4. stage \in {"cancel", "done"}
      BY <2>0, <3>3 DEF LinkInv, FailureHasReason
    <3> QED
      BY <2>1, <3>1, <3>3, <3>4
  <2>7. CASE HearSuccess
    <3>1. stage = "upload" /\ \E n, t : Task!Emit(Task!Progress(n, t))
      BY <2>7 DEF HearSuccess, Task!UploadTaken
    <3>2. \A n, t : Task!Progress(n, t) # Task!Failed
      BY DEF Task!Progress, Task!Failed, Task!FromTask, Task!AppEvent
    <3>3. Task!Emitted(Task!Failed)
      BY <3>1, <3>2, Says, FailedKept, TaskFacts
    <3> QED
      BY <2>0, <3>1, <3>3 DEF LinkInv, FailureHasReason
  <2>8. CASE PostCancel
    <3>1. stage' = "done" /\ UNCHANGED <<offered, pipe, events>>
      BY <2>8 DEF PostCancel, Task!PostCancel, networkVars
    <3> QED
      BY <2>1, <3>1, EventsKept, FailedKept
  <2> QED
    BY <1>2, <2>2, <2>3, <2>4, <2>5, <2>6, <2>7, <2>8 DEF SenderStep
<1> QED
  BY <1>1, <1>2

LEMMA LinkAlways == TransferSpec => [](EndsInv /\ LinkInv)
<1>1. TransferInit /\ PairInv => LinkInv
  <2> SUFFICES ASSUME TransferInit, PairInv PROVE LinkInv
    OBVIOUS
  <2>1. /\ \A u \in Uploads : pc[u] = "idle"
        /\ taken = {} /\ file = None /\ stage = "idle" /\ pipe.file = None
        /\ events = << >>
    BY DEF TransferInit, Init, Task!Init, Task!SendInit, Fresh
  <2>2. \A e : ~Task!Emitted(e)
    BY <2>1 DEF Task!Emitted
  <2>3. Matched
    BY <2>1 DEF Matched
  <2>4. Confirmed /\ FailureHasReason
    BY <2>1, <2>2 DEF Confirmed, SaidSent, FailureHasReason
  <2> QED
    BY <2>3, <2>4 DEF LinkInv, PairInv
<1>2. EndsInv /\ LinkInv /\ [TransferNext]_transferVars /\ EndsInv'
        => LinkInv'
  BY MatchedStep, ConfirmedStep, FailureStep DEF LinkInv, EndsInv, PairInv
<1> QED
  BY <1>1, <1>2, PairAlways, EndsAlways, PTL DEF TransferSpec

-----------------------------------------------------------------------------
(* What the two promise together.                                          *)

\* An upload under way that is not confirmed is the one of the file in hand.
LEMMA StoredInHand ==
  ASSUME EndsInv, LinkInv, NEW f \in FileIds, Sent(Ours, Received(f))
  PROVE  /\ pc[f] \in Stored
         /\ f \in taken \/ (f = file /\ pipe.ended)
         /\ f \in wanted
<1>1. PICK u \in Uploads :
        pc[u] \in Stored /\ query[u] = [session |-> Ours, file |-> f]
  BY TransferAssumption DEF EndsInv, AccountsInv, ReceivedAreStored
<1>2. query[u] = [session |-> Ours, file |-> u]
  BY <1>1 DEF LinkInv, Matched
<1>3. u = f
  <2>1. query[u].file = f /\ query[u].file = u
    BY <1>1, <1>2
  <2> QED
    BY <2>1
<1>4. f \in taken \/ f = file
  BY <1>1, <1>3 DEF LinkInv, Matched
<1>5. f \in taken \/ pipe.ended
  BY <1>1, <1>3 DEF LinkInv, Matched
<1>6. f # None
  BY ServerAssumption
<1>7. f \in wanted
  BY <1>4, <1>6, TaskFacts
<1> QED
  BY <1>1, <1>3, <1>4, <1>5, <1>7

\* A confirmed file is announced and on disk.
LEMMA TakenIsReceived ==
  ASSUME EndsInv, LinkInv, NEW f \in taken
  PROVE  /\ pc[f] = "OK" /\ f \in FileIds /\ SessionOf(f) = Ours /\ FileOf(f) = f
         /\ Sent(Ours, Received(f))
         /\ \E p \in DOMAIN disk :
              disk[p] = [by |-> f, length |-> FileSize[f]]
<1>1. f \in Uploads /\ f \in FileIds
  BY TaskFacts, TransferAssumption
<1>2. pc[f] = "OK"
  BY DEF LinkInv, Confirmed
<1>3. query[f] = [session |-> Ours, file |-> f]
  BY <1>1, <1>2 DEF LinkInv, Matched
<1>4. SessionOf(f) = Ours /\ FileOf(f) = f
  BY <1>3 DEF SessionOf, FileOf
<1>5. Sent(SessionOf(f), Received(FileOf(f)))
  BY <1>1, <1>2 DEF EndsInv, AccountsInv, ReceivedAreStored
<1>6. /\ Path(f) \in DOMAIN disk
      /\ disk[Path(f)] = [by |-> f, length |-> bytes[f]]
      /\ bytes[f] = Size(f)
  BY <1>1, <1>2, OwnFile DEF EndsInv, FilesInv, CountsBounded
<1>7. Sent(Ours, Received(f))
  BY <1>4, <1>5
<1>8. \E p \in DOMAIN disk : disk[p] = [by |-> f, length |-> FileSize[f]]
  BY <1>4, <1>6 DEF Size
<1> QED
  BY <1>1, <1>2, <1>4, <1>7, <1>8

\* "Successfully sent" is true of the receiver's disk: every file it asked for
\* is announced there and has the size declared, and the receiver has closed
\* the session.
THEOREM SentIsAlwaysReceived == TransferSpec => []SentIsReceived
<1>1. EndsInv /\ LinkInv => SentIsReceived
  <2> SUFFICES ASSUME EndsInv, LinkInv, SaidSent
               PROVE  /\ Sent(Ours, Completed)
                      /\ \A f \in wanted :
                           /\ Sent(Ours, Received(f))
                           /\ \E p \in DOMAIN disk :
                                disk[p] = [by |-> f, length |-> FileSize[f]]
    BY DEF SentIsReceived
  <2>1. /\ wanted # {} /\ wanted = tokens[Ours] /\ wanted = offered
        /\ prep[Ours] = "accepted"
    BY DEF LinkInv, Agreed, Confirmed
  <2>2. taken = wanted
    BY <2>1, TaskFacts
  <2>3. \A f \in wanted : f \in taken /\ f \in FileIds /\ f \in Uploads
    BY <2>1, <2>2, TaskFacts, TransferAssumption
  <2>4. Sent(Ours, Completed)
    <3> SUFFICES ASSUME ~Sent(Ours, Completed) PROVE FALSE
      OBVIOUS
    <3>1. \A f \in wanted : f \notin pending[Ours]
      <4> SUFFICES ASSUME NEW f \in wanted PROVE f \notin pending[Ours]
        OBVIOUS
      <4>1. pc[f] = "OK" /\ SessionOf(f) = Ours /\ FileOf(f) = f
        BY <2>3, TakenIsReceived
      <4>2. Sent(SessionOf(f), Completed) \/ FileOf(f) \notin pending[SessionOf(f)]
        BY <2>3, <4>1 DEF EndsInv, AccountsInv, FilesAccounted
      <4> QED
        BY <4>1, <4>2
    <3>2. pending[Ours] = {}
      BY <2>1, <3>1, TransferAssumption DEF EndsInv, PairInv, TypeOK
    <3>3. PICK u \in Uploads : pc[u] \in {"announce", "cut"}
      BY <2>1, <3>2, TransferAssumption
         DEF EndsInv, AccountsInv, FilesAccounted
    <3>4. u \in taken \/ u = file
      BY <3>3 DEF LinkInv, Matched
    <3>5. u # None
      BY TransferAssumption, ServerAssumption
    <3>6. u \in taken
      BY <2>2, <3>4, <3>5, TaskFacts
    <3> QED
      BY <3>3, <3>6, TakenIsReceived
  <2> QED
    BY <2>2, <2>4, TakenIsReceived
<1> QED
  BY <1>1, LinkAlways, PTL

\* What the receiver calls complete the sender has sent to its end, unless the
\* session was torn down; and while the connection holds the sender knows it.
THEOREM ReceivedIsAlwaysSent == TransferSpec => []ReceivedIsSent
<1>1. EndsInv /\ LinkInv => ReceivedIsSent
  <2> SUFFICES ASSUME EndsInv, LinkInv, Sent(Ours, Completed), ~TornDown(Ours)
               PROVE  /\ \A f \in offered :
                           f \in taken \/ (f = file /\ pipe.ended)
                      /\ link = "up" => ~Task!Emitted(Task!Failed)
    BY DEF ReceivedIsSent
  <2>1. AllReceived(Ours)
    BY TransferAssumption
       DEF EndsInv, AccountsInv, SessionsInv, CompletionIsTruthful
  <2>2. prep[Ours] # "unused"
    BY TransferAssumption
       DEF EndsInv, AccountsInv, SessionsInv, UnusedIsFresh, Sent
  <2>3. /\ tokens[Ours] = offered /\ offered # {} /\ offered \subseteq FileIds
    BY <2>2, TaskFacts DEF LinkInv, Agreed
  <2>4. \A f \in offered : Sent(Ours, Received(f))
    BY <2>1, <2>3 DEF AllReceived
  <2>5. \A f \in offered : /\ pc[f] \in Stored
                           /\ f \in taken \/ (f = file /\ pipe.ended)
                           /\ f \in wanted
    BY <2>3, <2>4, StoredInHand
  <2>6. prep[Ours] = "accepted"
    BY <2>3, <2>5 DEF LinkInv, Agreed
  <2>7. \A f \in offered : ~FailedFor(f)
    BY <2>5 DEF FailedFor
  <2>8. link = "up" => ~Task!Emitted(Task!Failed)
    BY <2>6, <2>7 DEF LinkInv, FailureHasReason
  <2> QED
    BY <2>5, <2>8
<1> QED
  BY <1>1, LinkAlways, PTL

-----------------------------------------------------------------------------
(* Delivery: a share from end to end, without requests and connections.    *)

Arrived == {f \in FileIds : Sent(Ours, Received(f))}

Said == CASE SaidSent                     -> "sent"
          [] stage = "done" /\ ~SaidSent  -> "not sent"
          [] OTHER                        -> "none"

LEMMA SaidIs ==
  /\ SaidSent => Said = "sent"
  /\ ~SaidSent /\ stage = "done" => Said = "not sent"
  /\ ~SaidSent /\ stage # "done" => Said = "none"
BY DEF Said

\* The steps of Delivery in terms of the two ends.
LEMMA ShareSteps ==
  /\ \A files \in SUBSET FileIds :
       /\ Said = "none" /\ wanted = {} /\ wanted' = files
       /\ UNCHANGED <<file, Arrived, Said>>
       => Share!Next
  /\ \A f \in FileIds :
       /\ Said = "none" /\ f \in wanted \ Arrived
       /\ file = None \/ file \in Arrived
       /\ file' = f
       /\ UNCHANGED <<wanted, Arrived, Said>>
       => Share!Next
  /\ file # None /\ Arrived' = Arrived \cup {file}
       /\ UNCHANGED <<wanted, file, Said>> => Share!Next
  /\ Said = "none" /\ wanted # {} /\ Arrived = wanted /\ Said' = "sent"
       /\ UNCHANGED <<wanted, file, Arrived>> => Share!Next
  /\ Said = "none" /\ Said' = "not sent"
       /\ UNCHANGED <<wanted, file, Arrived>> => Share!Next
  /\ UNCHANGED <<wanted, file, Arrived, Said>>
       => UNCHANGED Share!deliveryVars
BY DEF Share!Next, Share!Agree, Share!TakeUp, Share!Deliver, Share!Succeed,
       Share!GiveUp, Share!deliveryVars, Arrived, Said

\* Files arrive one at a time, and only the one in hand.
LEMMA ArrivedOfStep ==
  ASSUME EndsInv, LinkInv, [Next]_vars
  PROVE  \/ Arrived' = Arrived
         \/ /\ file # None /\ Arrived' = Arrived \cup {file}
            /\ \E u \in Uploads : Flush(u)
<1> USE TransferAssumption
<1>0. TypeOK
  BY DEF EndsInv, PairInv
<1>1. CASE sent'[Ours] = sent[Ours]
  BY <1>1 DEF Arrived, Sent, Received
<1>2. ASSUME NEW e \in Event, sent'[Ours] = Append(sent[Ours], e),
             \A f : e # Received(f)
      PROVE  Arrived' = Arrived
  <2>1. \A f : Sent(Ours, Received(f))' <=> Sent(Ours, Received(f))
    BY <1>0, <1>2, AppendSent DEF Received
  <2> QED
    BY <2>1 DEF Arrived
<1>3. Completed \in Event /\ \A f : Completed # Received(f)
  BY EventsTyped DEF Completed, Received
<1>4. ASSUME NEW u \in Uploads, Flush(u), Ours = SessionOf(u),
             sent'[Ours] = Append(sent[Ours], Received(FileOf(u)))
      PROVE  file # None /\ Arrived' = Arrived \cup {file}
  <2>1. pc[u] = "flush" /\ u \in FileIds /\ u # None
    BY <1>4, ServerAssumption DEF Flush
  <2>2. query[u] = [session |-> Ours, file |-> u] /\ (u \in taken \/ u = file)
    BY <2>1 DEF LinkInv, Matched
  <2>3. u = file
    BY <2>1, <2>2 DEF LinkInv, Confirmed
  <2>4. FileOf(u) = u
    BY <2>2 DEF FileOf
  <2>5. Received(u) \in Event
    BY <2>1, EventsTyped
  <2>6. \A f : Sent(Ours, Received(f))' <=>
                 Sent(Ours, Received(f)) \/ Received(f) = Received(u)
    <3>1. PICK e \in Event : e = Received(u)
      BY <2>5
    <3> QED
      BY <1>0, <1>4, <2>4, <3>1, AppendSent DEF Received
  <2>7. \A f : Received(f) = Received(u) <=> f = u
    BY DEF Received
  <2>8. Arrived' = Arrived \cup {u}
    BY <2>1, <2>6, <2>7 DEF Arrived
  <2> QED
    BY <2>1, <2>3, <2>8
<1> QED
  BY <1>0, <1>1, <1>2, <1>3, <1>4, TellsOfStep

LEMMA NothingArrivesBySending ==
  ASSUME EndsInv, LinkInv, SenderStep
  PROVE  Arrived' = Arrived
<1> USE TransferAssumption
<1>0. TypeOK
  BY DEF EndsInv, PairInv
<1>1. CASE UNCHANGED vars
  BY <1>1 DEF vars, Arrived, Sent, Received
<1>2. CASE CancelSession(Ours)
  <2>1. \A y : Sent(Ours, y)' <=> Sent(Ours, y) \/ y = Cancelled
    BY <1>0, <1>2, EmitSent, EventsTyped DEF CancelSession, Cancelled
  <2>2. \A f : Received(f) # Cancelled
    BY DEF Received, Cancelled
  <2>3. \A f : Sent(Ours, Received(f))' <=> Sent(Ours, Received(f))
    BY <2>1, <2>2 DEF Received
  <2> QED
    BY <2>3 DEF Arrived
<1> QED
  BY <1>1, <1>2 DEF SenderStep, TaskAlone, PostUpload, SendBytes, SendEnd,
     HearAnswer, HearSuccess, HearFailure, PostCancel

\* What is confirmed has arrived; what has arrived was wanted.
LEMMA ArrivedFacts ==
  ASSUME EndsInv, LinkInv
  PROVE  /\ taken \subseteq Arrived
         /\ Arrived \subseteq wanted
         /\ Arrived \subseteq taken \cup {file}
         /\ stage \notin {"upload", "done"} => Arrived = taken
<1>1. taken \subseteq Arrived
  BY TakenIsReceived DEF Arrived
<1>2. \A f \in Arrived : /\ f \in FileIds /\ pc[f] \in Stored
                         /\ f \in wanted /\ f \in taken \cup {file}
  BY StoredInHand DEF Arrived
<1>3. ASSUME stage \notin {"upload", "done"}, NEW f \in Arrived
      PROVE  f \in taken
  <2>1. pc[f] # "idle" /\ f \in Uploads
    BY <1>2, TransferAssumption
  <2> QED
    BY <1>3, <2>1 DEF LinkInv, Matched
<1> QED
  BY <1>1, <1>2, <1>3

LEMMA SaidSentAtTheEnd == EndsInv' => (SaidSent' => stage' = "done")
BY DEF EndsInv, TaskProofs!SendInv, TaskProofs!EarnedInv, SaidSent,
       Task!Emitted, TaskProofs!Emitted, Task!SentAll, TaskProofs!SentAll,
       Task!FromTask, TaskProofs!FromTask, Task!AppEvent, TaskProofs!AppEvent

LEMMA SaidSentKept ==
  /\ UNCHANGED events => (SaidSent' <=> SaidSent)
  /\ \A e : events \in Seq(TaskProofs!TaskEvent) /\ Task!Emit(e) =>
       (SaidSent' <=> SaidSent \/ e = Task!SentAll)
BY EventsKept, Says DEF SaidSent, Task!SentAll, Task!FromTask, Task!AppEvent

LEMMA SaidNext ==
  /\ SaidSent' => Said' = "sent"
  /\ ~SaidSent' /\ stage' = "done" => Said' = "not sent"
  /\ ~SaidSent' /\ stage' # "done" => Said' = "none"
BY DEF Said

LEMMA SaidKept ==
  ASSUME UNCHANGED stage, SaidSent' <=> SaidSent
  PROVE  Said' = Said
<1>1. CASE SaidSent
  <2>1. Said = "sent" /\ Said' = "sent"
    BY <1>1, SaidIs, SaidNext
  <2> QED
    BY <2>1
<1>2. CASE ~SaidSent /\ stage = "done"
  <2>1. Said = "not sent"
    BY <1>2, SaidIs
  <2>2. ~SaidSent' /\ stage' = "done"
    BY <1>2
  <2>3. Said' = "not sent"
    BY <2>2, SaidNext
  <2> QED
    BY <2>1, <2>3
<1>3. CASE ~SaidSent /\ stage # "done"
  <2>1. Said = "none"
    BY <1>3, SaidIs
  <2>2. ~SaidSent' /\ stage' # "done"
    BY <1>3
  <2>3. Said' = "none"
    BY <2>2, SaidNext
  <2> QED
    BY <2>1, <2>3
<1> QED
  BY <1>1, <1>2, <1>3

LEMMA ShareOfSender ==
  ASSUME EndsInv, LinkInv, EndsInv', SenderStep
  PROVE  Share!Next \/ UNCHANGED Share!deliveryVars
<1> DEFINE Goal == Share!Next \/ UNCHANGED Share!deliveryVars
<1>0. /\ Arrived' = Arrived /\ events \in Seq(TaskProofs!TaskEvent)
      /\ SaidSent => stage = "done"
  BY NothingArrivesBySending, TaskFacts
<1>1. ASSUME UNCHANGED <<wanted, file>>, stage # "done", stage' # "done"
      PROVE  Goal
  <2>1. Said = "none" /\ Said' = "none"
    BY <1>0, <1>1, SaidIs, SaidNext, SaidSentAtTheEnd
  <2> QED
    BY <1>0, <1>1, <2>1, ShareSteps
<1>2. ASSUME UNCHANGED <<wanted, file, stage>>, SaidSent' <=> SaidSent
      PROVE  Goal
  <2>1. Said' = Said
    BY <1>2, SaidKept
  <2> QED
    BY <1>0, <1>2, <2>1, ShareSteps
<1>3. ASSUME UNCHANGED <<wanted, file>>, stage # "done", stage' = "done",
             ~SaidSent'
      PROVE  Goal
  <2>1. Said = "none" /\ Said' = "not sent"
    BY <1>0, <1>3, SaidIs, SaidNext
  <2> QED
    BY <1>0, <1>3, <2>1, ShareSteps
<1>4. CASE TaskAlone
  <2>1. CASE stage = "idle" /\ Task!Begin
    BY <1>1, <2>1 DEF Task!Begin
  <2>2. ASSUME NEW f \in FileIds, Task!StatFile(f)
        PROVE  Goal
    BY <1>1, <2>2 DEF Task!StatFile
  <2>3. CASE Task!Offer
    <3>1. CASE stage' = "ask"
      BY <1>1, <2>3, <3>1 DEF Task!Offer
    <3>2. CASE stage' = "done" /\ Task!Emit(Task!NoValidFiles)
      <4>1. ~SaidSent'
        BY <1>0, <2>3, <3>2, SaidSentKept, SaysNoSuccess DEF Task!Offer
      <4> QED
        BY <1>3, <2>3, <3>2, <4>1 DEF Task!Offer
    <3> QED
      BY <2>3, <3>1, <3>2 DEF Task!Offer
  <2>4. ASSUME NEW f \in FileIds, Task!NextFile(f)
        PROVE  Goal
    <3>1. CASE file' = file
      BY <1>1, <2>4, <3>1 DEF Task!NextFile
    <3>2. CASE file' = f /\ stage' = "open"
      <4>1. /\ stage = "next" /\ wanted' = wanted /\ f \in wanted \ taken
        BY <2>4, TaskFacts DEF Task!NextFile
      <4>2. Said = "none" /\ Said' = "none"
        BY <1>0, <3>2, <4>1, SaidIs, SaidNext, SaidSentAtTheEnd
      <4>3. f \notin Arrived
        BY <4>1, ArrivedFacts
      <4>4. file = None \/ file \in Arrived
        BY <4>1, ArrivedFacts DEF LinkInv, Matched
      <4> QED
        BY <1>0, <3>2, <4>1, <4>2, <4>3, <4>4, ShareSteps
    <3> QED
      BY <2>4, <3>1, <3>2 DEF Task!NextFile
  <2>5. CASE Task!Finish
    <3>1. /\ stage = "next" /\ todo = {} /\ stage' = "done"
          /\ UNCHANGED <<wanted, file>> /\ Task!Emit(Task!SentAll)
      BY <2>5 DEF Task!Finish
    <3>2. wanted # {}
      BY <3>1 DEF LinkInv, Agreed
    <3>3. SaidSent'
      BY <1>0, <3>1, SaidSentKept
    <3>4. taken = wanted
      <4>1. taken' = wanted' \cap offered' /\ UNCHANGED <<taken, offered>>
        BY <2>5, <3>3 DEF EndsInv, TaskProofs!SendInv, TaskProofs!EarnedInv,
           SaidSent, Task!Emitted, TaskProofs!Emitted, Task!SentAll,
           TaskProofs!SentAll, Task!FromTask, TaskProofs!FromTask,
           Task!AppEvent, TaskProofs!AppEvent, Task!Finish
      <4>2. wanted = offered
        BY <3>2 DEF LinkInv, Agreed
      <4> QED
        BY <3>1, <4>1, <4>2
    <3>5. Arrived = wanted
      BY <3>1, <3>4, ArrivedFacts
    <3>6. Said = "none" /\ Said' = "sent"
      BY <1>0, <3>1, <3>3, SaidIs, SaidNext
    <3> QED
      BY <1>0, <3>1, <3>2, <3>5, <3>6, ShareSteps
  <2>6. CASE Task!DropBody
    BY <1>2, <2>6, SaidSentKept DEF Task!DropBody
  <2> QED
    BY <1>4, <2>1, <2>2, <2>3, <2>4, <2>5, <2>6 DEF TaskAlone
<1>5. CASE PostUpload
  BY <1>1, <1>5 DEF PostUpload, Task!OpenFile
<1>6. CASE (\E n \in ChunkSizes : SendBytes(n)) \/ SendEnd
  <2>1. UNCHANGED <<wanted, file, stage>>
    BY <1>6 DEF SendBytes, SendEnd, Task!ReadChunk, Task!EndOfFile
  <2>2. UNCHANGED events \/ \E n, t : Task!Emit(Task!Progress(n, t))
    BY <1>6 DEF SendBytes, SendEnd, Task!ReadChunk, Task!EndOfFile
  <2>3. SaidSent' <=> SaidSent
    BY <1>0, <2>2, SaidSentKept, SaysNoSuccess
  <2> QED
    BY <1>2, <2>1, <2>3
<1>7. CASE HearAnswer
  <2>1. CASE prep[Ours] = "accepted" /\ Task!AnsweredWith(tokens[Ours])
    <3>1. /\ tokens[Ours] # {} /\ tokens[Ours] \subseteq FileIds
      BY <2>1, TaskFacts DEF LinkInv, Agreed
    <3>2. /\ stage = "ask" /\ stage' = "next" /\ wanted' = tokens[Ours]
          /\ wanted = {} /\ file' = file
      BY <2>1, <3>1, TaskFacts DEF Task!AnsweredWith
    <3>3. Said = "none" /\ Said' = "none"
      BY <1>0, <3>2, SaidIs, SaidNext, SaidSentAtTheEnd
    <3> QED
      BY <1>0, <3>1, <3>2, <3>3, ShareSteps
  <2>2. CASE Task!AnsweredWithout /\ Task!Emit(Task!Failed)
    <3>1. ~SaidSent'
      BY <1>0, <2>2, SaidSentKept, SaysNoSuccess DEF Task!AnsweredWithout
    <3> QED
      BY <1>3, <2>2, <3>1 DEF Task!AnsweredWithout
  <2> QED
    BY <1>7, <2>1, <2>2 DEF HearAnswer
<1>8. CASE HearSuccess
  BY <1>1, <1>8 DEF HearSuccess, Task!UploadTaken
<1>9. CASE HearFailure
  <2>1. ~SaidSent'
    BY <1>0, <1>9, SaidSentKept, SaysNoSuccess DEF HearFailure, Task!UploadFails
  <2> QED
    BY <1>3, <1>9, <2>1 DEF HearFailure, Task!UploadFails
<1>10. CASE PostCancel
  <2>1. ~SaidSent'
    BY <1>0, <1>10, SaidSentKept DEF PostCancel, Task!PostCancel
  <2> QED
    BY <1>3, <1>10, <2>1 DEF PostCancel, Task!PostCancel
<1> QED
  BY <1>4, <1>5, <1>6, <1>7, <1>8, <1>9, <1>10 DEF SenderStep

LEMMA ShareOfReceiver ==
  ASSUME EndsInv, LinkInv, [TransferNext]_transferVars, ~SenderStep
  PROVE  Share!Next \/ UNCHANGED Share!deliveryVars
<1>1. PairInv
  BY DEF EndsInv
<1>2. UNCHANGED <<wanted, file, stage, events>>
  BY <1>1, ReceiverMoves DEF taskVars
<1>3. Said' = Said
  <2>1. SaidSent' <=> SaidSent
    BY <1>2, SaidSentKept
  <2> QED
    BY <1>2, <2>1, SaidKept
<1>4. Arrived' = Arrived \/ (file # None /\ Arrived' = Arrived \cup {file})
  BY <1>1, ServerOfStep, ArrivedOfStep
<1> QED
  BY <1>2, <1>3, <1>4, ShareSteps

\* Sender and receiver together implement Delivery: files arrive one by one in
\* the order the sender takes them up, success is said only when all are
\* there, and after a failure no file arrives but the one in hand.
THEOREM TransferImplementsDelivery == TransferSpec => ImplementsDelivery
<1>1. TransferInit => Share!Init
  <2> SUFFICES ASSUME TransferInit PROVE Share!Init
    OBVIOUS
  <2>1. /\ wanted = {} /\ file = None /\ stage = "idle" /\ events = << >>
        /\ sent[Ours] = << >>
    BY TransferAssumption DEF TransferInit, Init, Task!Init, Task!SendInit
  <2>2. Arrived = {} /\ ~SaidSent
    BY <2>1 DEF Arrived, Sent, SaidSent, Task!Emitted
  <2>3. Said = "none"
    BY <2>1, <2>2, SaidIs
  <2> QED
    BY <2>1, <2>2, <2>3 DEF Share!Init, Arrived, Said
<1>2. EndsInv /\ LinkInv /\ EndsInv' /\ [TransferNext]_transferVars
        => [Share!Next]_Share!deliveryVars
  BY ShareOfSender, ShareOfReceiver
<1> QED
  BY <1>1, <1>2, LinkAlways, PTL
     DEF TransferSpec, ImplementsDelivery, Share!Spec

=============================================================================
