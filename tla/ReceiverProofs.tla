--------------------------- MODULE ReceiverProofs ---------------------------
(***************************************************************************)
(* Theorems about Receiver, for every value of its constants: what the     *)
(* loop and its tasks do is a behaviour of UploadServer, so all that is    *)
(* proved of the server holds behind the receive loop; and what the tasks  *)
(* themselves promise.                                                     *)
(***************************************************************************)
EXTENDS Receiver, UploadServerProofs

USE DEF Waiting, Phases, Cleanup, Partial, Stored, Live, Replies, Places

-----------------------------------------------------------------------------
(* The server behind the loop.                                             *)

\* Every step of the receiver is a step of its server or leaves it alone.
LEMMA ServerStepOfReceiver ==
  ASSUME [ReceiverNext]_receiverVars PROVE [Next]_vars
<1>1. CASE ServerStep
  BY <1>1 DEF ServerStep, Next
<1>2. ASSUME NEW s \in Sessions, AskStep(s) PROVE [Next]_vars
  <2>1. CASE HandleRequest(s)
    BY <2>1 DEF HandleRequest
  <2>2. CASE AnswerAsked(s)
    <3>1. Accepted(s) \in BOOLEAN
      BY DEF Accepted
    <3>2. UNCHANGED vars \/ AnswerRequest(s, Accepted(s))
      BY <2>2 DEF AnswerAsked
    <3> QED
      BY <3>1, <3>2 DEF Next
  <2> QED
    BY <1>2, <2>1, <2>2 DEF AskStep
<1>3. ASSUME NEW s \in Sessions, NEW word, Notified(s, word)
      PROVE  [Next]_vars
  BY <1>3 DEF Notified
<1>4. ASSUME NEW u \in Uploads, HandlerStep(u) PROVE [Next]_vars
  BY <1>4 DEF HandlerStep, Next
<1>5. ASSUME NEW u \in Uploads, CopyStep(u) \/ ProgramStep(u)
      PROVE  [Next]_vars
  BY <1>5 DEF CopyStep, ProgramStep, HandleFile, ReadText, Spawn, WriteText,
              GiveUpOn, LeaveProgram, Copied, Take
<1>6. CASE Interrupted \/ ServicesEnd
  BY <1>6 DEF Interrupted, ServicesEnd, StopTasks, Next
<1>8. ASSUME NEW x \in strays \cup orphans, TakeLate(x) PROVE [Next]_vars
  BY <1>8 DEF TakeLate
<1>7. CASE UNCHANGED receiverVars
  BY <1>7 DEF receiverVars
<1> QED
  BY <1>1, <1>2, <1>3, <1>4, <1>5, <1>6, <1>7, <1>8 DEF ReceiverNext

\* monosend receive runs the server of UploadServer and nothing else: its loop
\* answers requests as the server allows, and touches neither the table nor the
\* files.
THEOREM ReceiverRunsServer == ReceiverSpec => Spec
<1>1. ReceiverInit => Init
  BY DEF ReceiverInit
<1> QED
  BY <1>1, ServerStepOfReceiver, PTL DEF ReceiverSpec, Spec

-----------------------------------------------------------------------------
(* Invitations.  A handler only ever hears "yes" from a task whose user      *)
(* accepted, and what its notification came back with stays.                 *)

Words == {"none", "accept", "other"}

Invited ==
  /\ autoaccept \in BOOLEAN
  /\ choice \in [Sessions -> Words]
  /\ \A s \in Sessions : prep[s] \in {"yes", "accepted"} =>
       autoaccept \/ choice[s] = "accept"

LEMMA InvitedInit == ReceiverInit => Invited
BY DEF ReceiverInit, Init, Invited, Words

\* Only an answer lets a session in.
LEMMA AnswersOfStep ==
  ASSUME TypeOK, [Next]_vars, NEW s \in Sessions,
         prep'[s] \in {"yes", "accepted"}
  PROVE  prep[s] \in {"yes", "accepted"} \/ AnswerRequest(s, TRUE)
<1> DEFINE Let == prep[s] \in {"yes", "accepted"}
<1>1. ASSUME NEW x \in Sessions,
             \/ \E offered \in SUBSET FileIds : PrepareUpload(x, offered)
             \/ ReplyPrepare(x) \/ DropPrepare(x)
             \/ CancelSession(x) \/ CancelAll(x)
      PROVE  Let
  BY <1>1 DEF PrepareUpload, ReplyPrepare, DropPrepare, CancelSession,
              CancelAll, TypeOK
<1>2. ASSUME NEW x \in Sessions, NEW accepted \in BOOLEAN,
             AnswerRequest(x, accepted)
      PROVE  Let \/ AnswerRequest(s, TRUE)
  BY <1>2 DEF AnswerRequest, TypeOK
<1>3. ASSUME NEW u \in Uploads,
             \/ \E x \in Sessions : \E f, t \in FileIds : StartUpload(u, x, f, t)
             \/ UploadStep(u) \/ DropUpload(u)
      PROVE  prep' = prep
  BY <1>3 DEF StartUpload, UploadStep, CreateDestination, CheckSession,
     ReceiveChunk, WriteFails, StreamEnds, StreamBreaks, RemoveFile, Flush,
     AccountFile, AnnounceCompletion, DropUpload, sessionVars
<1>4. CASE Restart
  BY <1>4 DEF Restart, TypeOK
<1>5. CASE UNCHANGED vars
  BY <1>5 DEF vars
<1> QED
  BY <1>1, <1>2, <1>3, <1>4, <1>5 DEF Next

LEMMA InvitedStep ==
  TypeOK /\ Invited /\ [ReceiverNext]_receiverVars => Invited'
<1> SUFFICES ASSUME TypeOK, Invited, [ReceiverNext]_receiverVars
             PROVE  Invited'
  OBVIOUS
<1>1. [Next]_vars
  BY ServerStepOfReceiver
<1>2. ASSUME NEW s \in Sessions, AnswerAsked(s) PROVE Invited'
  <2>1. UNCHANGED <<autoaccept, choice>>
    BY <1>2 DEF AnswerAsked
  <2>2. ASSUME NEW x \in Sessions, prep'[x] \in {"yes", "accepted"},
               prep[x] \notin {"yes", "accepted"}
        PROVE  autoaccept \/ choice[x] = "accept"
    BY <1>2, <2>2 DEF AnswerAsked, AnswerRequest, Accepted, TypeOK, vars
  <2> QED
    BY <2>1, <2>2 DEF Invited
<1>3. CASE /\ autoaccept' = autoaccept
           /\ choice' = choice \/ \E s \in Sessions, word \in Words :
                choice[s] = "none" /\ choice' = [choice EXCEPT ![s] = word]
           /\ \A s \in Sessions : prep'[s] \in {"yes", "accepted"} =>
                                  prep[s] \in {"yes", "accepted"}
  BY <1>3 DEF Invited
<1>4. ASSUME NEW s \in Sessions, NEW word \in {"accept", "other"},
             Notified(s, word)
      PROVE  Invited'
  <2>1. prep' = prep
    BY <1>4 DEF Notified, vars
  <2> QED
    BY <1>3, <1>4, <2>1 DEF Notified, Words
<1>5. ASSUME UNCHANGED <<autoaccept, choice>>,
             \A s \in Sessions : ~AnswerRequest(s, TRUE)
      PROVE  Invited'
  BY <1>1, <1>3, <1>5, AnswersOfStep
<1>6. ASSUME UNCHANGED <<autoaccept, choice>>, prep' = prep PROVE Invited'
  BY <1>3, <1>6
<1>7. CASE ServerStep
  <2>1. UNCHANGED <<autoaccept, choice>>
    BY <1>7 DEF ServerStep, loopVars, askVars
  <2>2. \A s \in Sessions : ~AnswerRequest(s, TRUE)
    BY <1>7 DEF ServerStep, AnswerRequest, PrepareUpload, ReplyPrepare,
       DropPrepare, CancelSession, CancelAll, StartUpload, DropUpload, TypeOK,
       sessionVars
  <2> QED
    BY <1>5, <2>1, <2>2
<1>8. ASSUME NEW u \in Uploads, HandlerStep(u) PROVE Invited'
  BY <1>6, <1>8 DEF HandlerStep, loopVars, askVars, UploadStep,
     CreateDestination, CheckSession, ReceiveChunk, WriteFails, StreamEnds,
     StreamBreaks, RemoveFile, Flush, AccountFile, AnnounceCompletion,
     sessionVars
<1>9. ASSUME NEW u \in Uploads, CopyStep(u) \/ ProgramStep(u) PROVE Invited'
  BY <1>6, <1>9 DEF CopyStep, ProgramStep, HandleFile, ReadText, Spawn,
     WriteText, GiveUpOn, LeaveProgram, Copied, Take, vars, askVars
<1>10. CASE Interrupted \/ ServicesEnd
  BY <1>3, <1>10 DEF Interrupted, ServicesEnd, StopTasks, Restart, TypeOK
<1>11. ASSUME NEW s \in Sessions, HandleRequest(s) PROVE Invited'
  BY <1>6, <1>11 DEF HandleRequest, vars
<1>12. ASSUME NEW x \in strays \cup orphans, TakeLate(x) PROVE Invited'
  BY <1>6, <1>12 DEF TakeLate, vars, askVars
<1>13. CASE UNCHANGED receiverVars
  BY <1>6, <1>13 DEF receiverVars, loopVars, askVars, vars
<1> QED
  BY <1>2, <1>4, <1>7, <1>8, <1>9, <1>10, <1>11, <1>12, <1>13
     DEF ReceiverNext, AskStep

LEMMA InvitedAlways == ReceiverSpec => []Invited
<1>1. Spec => []TypeOK
  BY TypeCorrect
<1> QED
  BY <1>1, InvitedInit, InvitedStep, ReceiverRunsServer, PTL DEF ReceiverSpec

\* Nothing gets to the disk that its user, or the option, has not let in.
THEOREM NothingComesUninvited == ReceiverSpec => []NothingUninvited
<1>1. FilesInv /\ SessionsInv /\ Invited => NothingUninvited
  <2> SUFFICES ASSUME FilesInv, SessionsInv, Invited,
                      NEW p \in DOMAIN disk, NEW u \in Uploads, disk[p].by = u
               PROVE  autoaccept \/ choice[SessionOf(u)] = "accept"
    BY DEF NothingUninvited
  <2>1. pc[u] # "idle"
    BY DEF FilesInv, FilesOwned
  <2>2. SessionOf(u) \in Sessions /\ prep[SessionOf(u)] = "accepted"
    BY <2>1, Started DEF SessionsInv, UploadsInvited
  <2> QED
    BY <2>2 DEF Invited
<1> QED
  BY <1>1, InvitedAlways, ReceiverRunsServer, FilesAlways, SessionsAlways, PTL

-----------------------------------------------------------------------------
(* The clipboard.  A copy holds the whole text from the moment it has read   *)
(* it, its program only sees the end of its input while it waits for it, and *)
(* what is left of it, if it is left, has that text or, after the end of the *)
(* receiver that started it, a part.                                         *)

Whole(u) == [by |-> u, length |-> Size(u)]

Copying == {"read", "spawn", "write", "wait"}

HasText(u) == pc[u] \in Stored /\ IsTextFile(FileName[FileOf(u)])

CopyOK(u) ==
  /\ copy[u] \in Copying => HasText(u)
  /\ copy[u] \in {"spawn", "write", "wait"} => text[u] = Whole(u)
  /\ child[u] = "running" => copy[u] = "write"
  /\ child[u] \in {"fed", "took"} => copy[u] = "wait"

CopyInv ==
  /\ copy \in [Uploads -> Copying \cup {"none", "copied", "failed"}]
  /\ child \in [Uploads -> {"none", "running", "fed", "took"}]
  /\ DOMAIN text = Uploads
  /\ \A u \in Uploads : CopyOK(u)

\* Programs that nobody waits for have the text of a received file.
LeftInv ==
  /\ \A x \in strays \cup orphans :
       \E u \in Uploads : HasText(u) /\ x.text = Whole(u)
  /\ \A x \in strays : ~x.cut

LEMMA CopyInit == ReceiverInit => CopyInv /\ LeftInv
BY DEF ReceiverInit, CopyInv, CopyOK, Copying, LeftInv

\* What was received stays received.
LEMMA TextStays ==
  ASSUME FilesInv, [Next]_vars, NEW u \in Uploads, HasText(u)
  PROVE  HasText(u)' /\ Whole(u)' = Whole(u)
<1>1. pc'[u] \in Stored /\ query'[u] = query[u]
  BY StoredStays DEF HasText, FilesInv
<1> QED
  BY <1>1 DEF HasText, FileOf, Size, Whole, IsTextFile

LEMMA CopyStays ==
  FilesInv /\ CopyInv /\ [ReceiverNext]_receiverVars => CopyInv'
<1> SUFFICES ASSUME FilesInv, CopyInv, [ReceiverNext]_receiverVars
             PROVE  CopyInv'
  OBVIOUS
<1>0. TypeOK /\ [Next]_vars
  BY ServerStepOfReceiver DEF FilesInv
<1>1. ASSUME NEW u \in Uploads, HasText(u)
      PROVE  HasText(u)' /\ Whole(u)' = Whole(u)
  BY <1>0, <1>1, TextStays
\* An upload whose copy goes no step further.
<1>2. ASSUME NEW u \in Uploads, UNCHANGED <<copy[u], text[u], child[u]>>
      PROVE  CopyOK(u)'
  BY <1>1, <1>2 DEF CopyInv, CopyOK, Copying
<1>3. ASSUME UNCHANGED <<copy, text, child>> PROVE CopyInv'
  BY <1>2, <1>3 DEF CopyInv
<1>4. ASSUME NEW u \in Uploads, CopyStep(u) \/ ProgramStep(u) PROVE CopyInv'
  <2> USE DEF Copying
  <2>1. UNCHANGED vars
    BY <1>4 DEF CopyStep, ProgramStep, HandleFile, ReadText, Spawn, WriteText,
                GiveUpOn, LeaveProgram, Copied, Take
  <2>2. (HasText(u)' <=> HasText(u)) /\ Whole(u)' = Whole(u)
    BY <2>1 DEF vars, HasText, FileOf, Size, Whole, IsTextFile
  <2>3. CopyOK(u)
    BY DEF CopyInv
  <2>4. HasText(u) => disk[Path(u)] = Whole(u)
    BY OwnFile DEF FilesInv, CountsBounded, Whole, HasText
  <2> DEFINE Others == \A v \in Uploads \ {u} :
                         UNCHANGED <<copy[v], text[v], child[v]>>
             Typed  == /\ copy' \in [Uploads -> Copying \cup {"none", "copied", "failed"}]
                       /\ child' \in [Uploads -> {"none", "running", "fed", "took"}]
                       /\ DOMAIN text' = Uploads
             Goal   == Typed /\ Others /\ CopyOK(u)'
  <2>5. ASSUME HandleFile(u) PROVE Goal
    <3>1. Typed /\ Others
      BY <2>5 DEF HandleFile, CopyInv
    <3>2. CopyOK(u)'
      BY <2>2, <2>3, <2>5 DEF HandleFile, CopyInv, CopyOK, HasText
    <3> QED
      BY <3>1, <3>2
  <2>6. ASSUME ReadText(u) PROVE Goal
    <3>1. Typed /\ Others
      BY <2>6 DEF ReadText, CopyInv
    <3>2. CopyOK(u)'
      BY <2>2, <2>3, <2>4, <2>6 DEF ReadText, CopyInv, CopyOK
    <3> QED
      BY <3>1, <3>2
\* Whatever the loop does next, no program of it is left with the task.
  <2>7. ASSUME NextTool(u), copy[u] \in {"spawn", "write", "wait"},
               child' = [child EXCEPT ![u] = "none"]
        PROVE  Goal
    <3>1. Typed /\ Others
      BY <2>7 DEF NextTool, EndCopy, CopyInv
    <3>2. CopyOK(u)'
      BY <2>2, <2>3, <2>7 DEF NextTool, EndCopy, CopyInv, CopyOK
    <3> QED
      BY <3>1, <3>2
  <2>8. ASSUME Spawn(u) PROVE Goal
    <3>1. ASSUME NextTool(u), UNCHANGED child PROVE Goal
      <4>1. copy[u] = "spawn" /\ child[u] = "none"
        BY <2>3, <2>8 DEF Spawn, CopyInv, CopyOK
      <4>2. child' = [child EXCEPT ![u] = "none"]
        BY <3>1, <4>1 DEF CopyInv
      <4> QED
        BY <2>7, <3>1, <4>1, <4>2
    <3>2. ASSUME child' = [child EXCEPT ![u] = "running"],
                 copy' = [copy EXCEPT ![u] = "write"], UNCHANGED <<text, tool>>
          PROVE  Goal
      <4>1. Typed /\ Others
        BY <3>2 DEF CopyInv
      <4>2. CopyOK(u)'
        BY <2>2, <2>3, <2>8, <3>2 DEF Spawn, CopyInv, CopyOK
      <4> QED
        BY <4>1, <4>2
    <3> QED
      BY <2>8, <3>1, <3>2 DEF Spawn
  <2>9. ASSUME WriteText(u) PROVE Goal
    <3>1. Typed /\ Others
      BY <2>9 DEF WriteText, CopyInv
    <3>2. CopyOK(u)'
      BY <2>2, <2>3, <2>9 DEF WriteText, CopyInv, CopyOK
    <3> QED
      BY <3>1, <3>2
  <2>10. ASSUME GiveUpOn(u) \/ LeaveProgram(u) PROVE Goal
    BY <2>7, <2>10 DEF GiveUpOn, LeaveProgram
  <2>11. ASSUME Copied(u) PROVE Goal
    <3>1. Typed /\ Others
      BY <2>11 DEF Copied, EndCopy, CopyInv
    <3>2. CopyOK(u)'
      BY <2>2, <2>3, <2>11 DEF Copied, EndCopy, CopyInv, CopyOK
    <3> QED
      BY <3>1, <3>2
  <2>12. ASSUME Take(u) PROVE Goal
    <3>1. Typed /\ Others
      BY <2>12 DEF Take, CopyInv
    <3>2. CopyOK(u)'
      BY <2>2, <2>3, <2>12 DEF Take, CopyInv, CopyOK
    <3> QED
      BY <3>1, <3>2
  <2>13. Goal
    BY <1>4, <2>5, <2>6, <2>8, <2>9, <2>10, <2>11, <2>12
       DEF CopyStep, ProgramStep
  <2>14. \A v \in Uploads : CopyOK(v)'
    BY <1>2, <2>13
  <2> QED
    BY <2>13, <2>14 DEF CopyInv
<1>5. CASE Interrupted \/ ServicesEnd
  <2>1. /\ copy' = [u \in Uploads |->
                      IF pc[u] = "idle" \/ copy[u] \in {"copied", "failed"}
                      THEN copy[u] ELSE "failed"]
        /\ child' = [u \in Uploads |-> "none"]
        /\ text' = [u \in Uploads |-> None]
    BY <1>5 DEF Interrupted, ServicesEnd, StopTasks
  <2>2. \A u \in Uploads : copy'[u] \notin Copying
    BY <2>1 DEF CopyInv, CopyOK, Copying, HasText
  <2> QED
    BY <2>1, <2>2 DEF CopyInv, CopyOK, Copying
<1>6. CASE ServerStep
  BY <1>3, <1>6 DEF ServerStep, loopVars, copyVars
<1>7. ASSUME NEW u \in Uploads, HandlerStep(u) PROVE CopyInv'
  BY <1>3, <1>7 DEF HandlerStep, loopVars, copyVars
<1>8. ASSUME NEW s \in Sessions,
             AskStep(s) \/ \E word \in {"accept", "other"} : Notified(s, word)
      PROVE  CopyInv'
  BY <1>3, <1>8 DEF AskStep, HandleRequest, AnswerAsked, Notified, copyVars
<1>9. ASSUME NEW x \in strays \cup orphans, TakeLate(x) PROVE CopyInv'
  BY <1>3, <1>9 DEF TakeLate
<1>10. CASE UNCHANGED receiverVars
  BY <1>3, <1>10 DEF receiverVars, loopVars, copyVars
<1> QED
  BY <1>4, <1>5, <1>6, <1>7, <1>8, <1>9, <1>10 DEF ReceiverNext

LEMMA LeftStays ==
  FilesInv /\ CopyInv /\ LeftInv /\ [ReceiverNext]_receiverVars => LeftInv'
<1> SUFFICES ASSUME FilesInv, CopyInv, LeftInv, [ReceiverNext]_receiverVars
             PROVE  LeftInv'
  OBVIOUS
<1> DEFINE TextOf(x) == \E u \in Uploads : HasText(u) /\ x.text = Whole(u)
<1>1. ASSUME NEW x, TextOf(x) PROVE TextOf(x)'
  <2>1. PICK u \in Uploads : HasText(u) /\ x.text = Whole(u)
    BY <1>1
  <2>2. HasText(u)' /\ Whole(u)' = Whole(u)
    BY <2>1, ServerStepOfReceiver, TextStays
  <2> QED
    BY <2>1, <2>2
\* A program of a copy that is given up or cut off.
<1>2. ASSUME NEW u \in Uploads, child[u] \in {"running", "fed"}
      PROVE  TextOf(Program(u))
  <2>1. HasText(u) /\ text[u] = Whole(u)
    BY <1>2 DEF CopyInv, CopyOK, Copying
  <2> QED
    BY <2>1 DEF Program
<1>3. ASSUME strays' \subseteq strays, orphans' \subseteq orphans PROVE LeftInv'
  BY <1>1, <1>3 DEF LeftInv
<1>4. ASSUME NEW u \in Uploads, LeaveProgram(u) PROVE LeftInv'
  <2>1. CASE child[u] = "fed"
    <3>1. TextOf(Program(u))
      BY <1>2, <2>1
    <3>2. ~Program(u).cut
      BY <2>1 DEF Program
    <3>3. strays' = strays \cup {Program(u)} /\ orphans' = orphans
      BY <1>4, <2>1 DEF LeaveProgram
    <3>4. \A x \in strays' \cup orphans' : TextOf(x)
      BY <3>1, <3>3 DEF LeftInv
    <3>5. \A x \in strays' : ~x.cut
      BY <3>2, <3>3 DEF LeftInv
    <3> QED
      BY <1>1, <3>4, <3>5 DEF LeftInv
  <2>2. CASE child[u] # "fed"
    BY <1>3, <1>4, <2>2 DEF LeaveProgram
  <2> QED
    BY <2>1, <2>2
<1>5. CASE ServicesEnd
  <2>1. \A x \in orphans' : TextOf(x)
    BY <1>2, <1>5 DEF ServicesEnd, LeftInv
  <2>2. strays' = {}
    BY <1>5 DEF ServicesEnd
  <2> QED
    BY <1>1, <2>1, <2>2 DEF LeftInv
<1>6. ASSUME NEW u \in Uploads, CopyStep(u) \/ ProgramStep(u), ~LeaveProgram(u)
      PROVE  LeftInv'
  BY <1>3, <1>6 DEF CopyStep, ProgramStep, HandleFile, ReadText, Spawn,
     WriteText, GiveUpOn, Survivors, Copied, Take, leftVars
<1>7. CASE Interrupted
  BY <1>3, <1>7 DEF Interrupted
<1>8. CASE ServerStep
  BY <1>3, <1>8 DEF ServerStep, loopVars, copyVars, leftVars
<1>9. ASSUME NEW u \in Uploads, HandlerStep(u) PROVE LeftInv'
  BY <1>3, <1>9 DEF HandlerStep, loopVars, copyVars, leftVars
<1>10. ASSUME NEW s \in Sessions,
              AskStep(s) \/ \E word \in {"accept", "other"} : Notified(s, word)
       PROVE  LeftInv'
  BY <1>3, <1>10 DEF AskStep, HandleRequest, AnswerAsked, Notified, copyVars,
     leftVars
<1>11. ASSUME NEW x \in strays \cup orphans, TakeLate(x) PROVE LeftInv'
  BY <1>3, <1>11 DEF TakeLate
<1>12. CASE UNCHANGED receiverVars
  BY <1>3, <1>12 DEF receiverVars, loopVars, copyVars, leftVars
<1> QED
  BY <1>4, <1>5, <1>6, <1>7, <1>8, <1>9, <1>10, <1>11, <1>12 DEF ReceiverNext

LEMMA CopiesAlways == ReceiverSpec => [](FilesInv /\ CopyInv /\ LeftInv)
BY CopyInit, CopyStays, LeftStays, ReceiverRunsServer, FilesAlways, PTL
   DEF ReceiverSpec

LEMMA OnlyTakeChanges ==
  ASSUME [ReceiverNext]_receiverVars, clipboard' # clipboard
  PROVE  \/ \E u \in Uploads : Take(u)
         \/ \E x \in strays \cup orphans : TakeLate(x)
<1>1. ASSUME NEW u \in Uploads, ~Take(u), CopyStep(u) \/ ProgramStep(u)
      PROVE  clipboard' = clipboard
  BY <1>1 DEF CopyStep, ProgramStep, HandleFile, ReadText, Spawn, WriteText,
              GiveUpOn, LeaveProgram, Copied
<1>2. ServerStep => clipboard' = clipboard
  BY DEF ServerStep, loopVars, copyVars
<1>3. ASSUME NEW u \in Uploads, HandlerStep(u) PROVE clipboard' = clipboard
  BY <1>3 DEF HandlerStep, loopVars, copyVars
<1>4. ASSUME NEW s \in Sessions,
             AskStep(s) \/ \E word \in {"accept", "other"} : Notified(s, word)
      PROVE  clipboard' = clipboard
  BY <1>4 DEF AskStep, HandleRequest, AnswerAsked, Notified, copyVars
<1>5. Interrupted \/ ServicesEnd => clipboard' = clipboard
  BY DEF Interrupted, ServicesEnd, StopTasks
<1>6. UNCHANGED receiverVars => clipboard' = clipboard
  BY DEF receiverVars, loopVars, copyVars
<1> QED
  BY <1>1, <1>2, <1>3, <1>4, <1>5, <1>6 DEF ReceiverNext

\* A change of the clipboard to the text of a received file, whole unless its
\* program was cut off by the end of the receiver that started it.
GetsText(u) ==
  /\ pc[u] \in Stored
  /\ IsTextFile(FileName[FileOf(u)])
  /\ clipboard'.by = u
  /\ clipboard'.length # Size(u) =>
       /\ clipboard'.length \in 0 .. Size(u)
       /\ \E x \in orphans : x.text.by = u /\ x.cut

\* What comes to the clipboard is the whole text of a file that was received,
\* whatever becomes of the programs and of the tasks that started them; a part of
\* it only from a program that outlives the receiver which was writing to it.
THEOREM ClipboardGetsTexts == ReceiverSpec => ClipboardGetsWholeTexts
<1>1. ASSUME FilesInv, CopyInv, LeftInv, [ReceiverNext]_receiverVars,
             clipboard' # clipboard
      PROVE  \E u \in Uploads : GetsText(u)
  <2>1. ASSUME NEW u \in Uploads, Take(u) PROVE GetsText(u)
    <3>1. HasText(u) /\ clipboard' = Whole(u)
      BY <1>1, <2>1 DEF Take, CopyInv, CopyOK, Copying
    <3> QED
      BY <3>1 DEF GetsText, HasText, Whole
  <2>2. ASSUME NEW x \in strays \cup orphans, TakeLate(x)
        PROVE  \E u \in Uploads : GetsText(u)
    <3>1. PICK u \in Uploads : HasText(u) /\ x.text = Whole(u)
      BY <1>1 DEF LeftInv
    <3>2. PICK n \in 0 .. Size(u) :
            /\ x.cut \/ n = Size(u)
            /\ clipboard' = [by |-> u, length |-> n]
      BY <2>2, <3>1 DEF TakeLate, Whole
    <3>3. clipboard'.by = u /\ clipboard'.length = n
      BY <3>2
    <3>4. n # Size(u) => x \in orphans /\ x.cut /\ x.text.by = u
      BY <1>1, <3>1, <3>2 DEF LeftInv, Whole
    <3> QED
      BY <3>1, <3>2, <3>3, <3>4 DEF GetsText, HasText
  <2> QED
    BY <1>1, <2>1, <2>2, OnlyTakeChanges
<1>2. FilesInv /\ CopyInv /\ LeftInv /\ [ReceiverNext]_receiverVars =>
        [clipboard' # clipboard =>
           \E u \in Uploads : GetsText(u)]_receiverVars
  BY <1>1
<1> QED
  BY <1>2, CopiesAlways, PTL
     DEF ReceiverSpec, ClipboardGetsWholeTexts, GetsText
=============================================================================
