------------------------------ MODULE SendFiles ------------------------------
(***************************************************************************)
(* LocalSendClient::send_files of monosend (src/src/localsend/client.rs):  *)
(* the task that offers some files to a receiver and uploads those it      *)
(* asks for, one after the other, telling the user interface through the   *)
(* channel of AppEvents.  The body of an upload is a stream that the HTTP  *)
(* connection polls in a task of its own, so it goes on beside this one.   *)
(*                                                                         *)
(* A file stands for its path and for the identifier drawn for it.         *)
(***************************************************************************)
EXTENDS Naturals, Sequences, FiniteSetsExt

CONSTANTS
  Files,       \* the paths supplied
  Strangers,   \* identifiers that no offered file has
  FileSize,    \* FileSize[f]: length of f when its metadata is read
  MaxLength,   \* bound on the length of a file that changes afterwards
  ChunkSizes,  \* how many bytes a poll of the body yields
  None,        \* absence of a file
  Hitches      \* which of "stat", "open", "change" can happen to a file

ASSUME SendAssumption ==
  /\ IsFiniteSet(Files)
  /\ FileSize \in [Files -> 0 .. MaxLength]
  /\ MaxLength \in Nat
  /\ ChunkSizes \subseteq Nat \ {0}
  /\ Files \cap Strangers = {}
  /\ None \notin Files

VARIABLES
  pc,       \* where the task stands
  todo,     \* paths, later identifiers, that its loops have not reached
  offered,  \* keys of file_dto_map
  wanted,   \* keys of accepted_files
  file,     \* the file being uploaded
  body,     \* its ReaderStream: "none", "open", "ended"
  position, \* file_bytes_sent
  base,     \* cumulative_bytes_sent
  taken,    \* files whose upload the receiver confirmed
  changed,  \* a file turned out longer or shorter than its metadata said
  events    \* AppEvents sent so far, in order

sendVars == <<pc, todo, offered, wanted, file, body, position, base, taken,
              changed>>

Steps == {"idle", "stat", "ask", "next", "open", "upload", "cancel", "done"}

\* AppEvent: its type, where it comes from and what its message says.
AppEvent(type, says, bytes, total) ==
  [type |-> type, from |-> "task", says |-> says,
   bytes |-> bytes, total |-> total]
FromTask(type, says) == AppEvent(type, says, 0, 0)
Progress(n, total)   == AppEvent("TransferProgress", "", n, total)
NoValidFiles == FromTask("StatusMessage", "no valid files")
AlreadyThere == FromTask("TransferCompleted", "already there")
NoneWanted   == FromTask("TransferCompleted", "none wanted")
SentAll      == FromTask("TransferCompleted", "successfully sent")
Failed       == FromTask("TransferFailed", "failed")

Verdicts == {AlreadyThere, NoneWanted, SentAll, Failed}

TaskEvent ==
  [type : {"StatusMessage", "TransferProgress", "TransferCompleted",
           "TransferFailed"},
   from : {"task"},
   says : {"", "no valid files", "already there", "none wanted",
           "successfully sent", "failed"},
   bytes : Nat, total : Nat]

Emit(e) == events' = Append(events, e)

\* total_size_all: what the receiver asked for and this task knows.
Total == MapThenSumSet(LAMBDA f : FileSize[f], wanted \cap offered)

SendInit ==
  /\ pc = "idle" /\ todo = {} /\ offered = {} /\ wanted = {} /\ file = None
  /\ body = "none" /\ position = 0 /\ base = 0 /\ taken = {}
  /\ changed = FALSE

-----------------------------------------------------------------------------
\* The task is spawned.
Begin ==
  /\ pc'   = "stat"
  /\ todo' = Files
  /\ UNCHANGED <<offered, wanted, file, body, position, base, taken, changed,
                 events>>

\* A path whose metadata cannot be read is passed over in silence.
StatFile(f) ==
  /\ pc = "stat"
  /\ f \in todo
  /\ todo' = todo \ {f}
  /\ \/ offered' = offered \cup {f}
     \/ "stat" \in Hitches /\ UNCHANGED offered
  /\ UNCHANGED <<pc, wanted, file, body, position, base, taken, changed,
                 events>>

\* prepare-upload is posted, unless no file is left to offer.
Offer ==
  /\ pc = "stat"
  /\ todo = {}
  /\ \/ /\ offered = {}
        /\ Emit(NoValidFiles)
        /\ pc' = "done"
     \/ /\ offered # {}
        /\ pc' = "ask"
        /\ UNCHANGED events
  /\ UNCHANGED <<todo, offered, wanted, file, body, position, base, taken,
                 changed>>

\* No connection, 403, another status, a body that does not parse; or 204.
AnsweredWithout ==
  /\ pc = "ask"
  /\ pc' = "done"
  /\ Emit(Failed) \/ Emit(AlreadyThere)
  /\ UNCHANGED <<todo, offered, wanted, file, body, position, base, taken,
                 changed>>

\* The receiver names the files it wants, under any identifiers it likes.
AnsweredWith(ids) ==
  /\ pc = "ask"
  /\ wanted' = ids
  /\ todo'   = ids
  /\ \/ /\ ids = {}
        /\ Emit(NoneWanted)
        /\ pc' = "done"
     \/ /\ ids # {}
        /\ pc' = "next"
        /\ UNCHANGED events
  /\ UNCHANGED <<offered, file, body, position, base, taken, changed>>

\* Variants: an unknown identifier is tried again; it is not looked up.
RestIfKnown(id) == IF id \in offered THEN todo \ {id} ELSE todo
AlwaysKnown(id) == TRUE

\* What is left of accepted_files; file_dto_map and path_by_id have the key.
Rest(id)  == todo \ {id}
Known(id) == id \in offered

\* The next entry of a HashMap, in any order; unknown ones are passed over.
NextFile(id) ==
  /\ pc = "next"
  /\ id \in todo
  /\ todo' = Rest(id)
  /\ IF Known(id) THEN file' = id /\ pc' = "open"
                  ELSE UNCHANGED <<file, pc>>
  /\ UNCHANGED <<offered, wanted, body, position, base, taken, changed,
                 events>>

\* The upload starts, or the file cannot be opened and the task gives up.
OpenFile ==
  /\ pc = "open"
  /\ \/ /\ pc' = "upload"
        /\ body' = "open" /\ position' = 0
        /\ UNCHANGED events
     \/ /\ "open" \in Hitches
        /\ pc' = "cancel"
        /\ Emit(Failed)
        /\ UNCHANGED <<body, position>>
  /\ UNCHANGED <<todo, offered, wanted, file, base, taken, changed>>

\* The cancel request; what comes of it is ignored.
PostCancel ==
  /\ pc = "cancel"
  /\ pc' = "done"
  /\ UNCHANGED <<todo, offered, wanted, file, body, position, base, taken,
                 changed, events>>

\* The connection polls the body.  The closure has its own copy of the base
\* and counts what it hands over, whatever became of the task meanwhile.
ReadChunk(n) ==
  /\ body = "open"
  /\ position + n <= IF "change" \in Hitches THEN MaxLength
                                             ELSE FileSize[file]
  /\ position' = position + n
  /\ changed'  = (changed \/ position + n > FileSize[file])
  /\ Emit(Progress(base + position + n, Total))
  /\ UNCHANGED <<pc, todo, offered, wanted, file, body, base, taken>>

EndOfFile ==
  /\ body = "open"
  /\ "change" \in Hitches \/ position = FileSize[file]
  /\ body' = "ended"
  /\ changed' = (changed \/ position # FileSize[file])
  /\ UNCHANGED <<pc, todo, offered, wanted, file, position, base, taken,
                 events>>

\* Variant: the loop goes on with the next file.
UploadFailsOnward ==
  /\ pc = "upload"
  /\ pc' = "next"
  /\ body' = "none"
  /\ Emit(Failed)
  /\ UNCHANGED <<todo, offered, wanted, file, position, base, taken, changed>>

\* An error of the request or of the body, or a status that is no success:
\* the task ends here, the body when its connection lets go of it.
UploadFails ==
  /\ pc = "upload"
  /\ pc' = "done"
  /\ Emit(Failed)
  /\ UNCHANGED <<todo, offered, wanted, file, body, position, base, taken,
                 changed>>

\* Variant: bytes are counted as the closure counted them.
NextBaseDoubled == base + position + FileSize[file]

\* cumulative_bytes_sent after a file
NextBase == base + FileSize[file]

\* A receiver confirms an upload once it has the whole body.
UploadTaken ==
  /\ pc = "upload"
  /\ body = "ended"
  /\ pc'    = "next"
  /\ body'  = "none"
  /\ base'  = NextBase
  /\ taken' = taken \cup {file}
  /\ Emit(Progress(NextBase, Total))
  /\ UNCHANGED <<todo, offered, wanted, file, position, changed>>

Finish ==
  /\ pc = "next"
  /\ todo = {}
  /\ pc' = "done"
  /\ Emit(SentAll)
  /\ UNCHANGED <<todo, offered, wanted, file, body, position, base, taken,
                 changed>>

\* The connection drops a body that nobody waits for any more.
DropBody ==
  /\ body # "none"
  /\ pc = "done"
  /\ body' = "none"
  /\ UNCHANGED <<pc, todo, offered, wanted, file, position, base, taken,
                 changed, events>>

-----------------------------------------------------------------------------
\* What the task, the file system and the connection do by themselves.
TaskStep ==
  \/ \E f \in Files : StatFile(f)
  \/ Offer
  \/ \E id \in Files \cup Strangers : NextFile(id)
  \/ OpenFile
  \/ PostCancel
  \/ Finish

\* The receiver's answer to prepare-upload, which waits for its user.
AnswerStep ==
  \/ AnsweredWithout
  \/ \E ids \in SUBSET (offered \cup Strangers) : AnsweredWith(ids)

\* An upload in progress.
UploadStep ==
  \/ \E n \in ChunkSizes : ReadChunk(n)
  \/ EndOfFile
  \/ UploadFails
  \/ UploadTaken
  \/ DropBody

SendNext == TaskStep \/ AnswerStep \/ UploadStep

Init == SendInit /\ events = << >>

Next == (pc = "idle" /\ Begin) \/ SendNext

Spec == Init /\ [][Next]_<<sendVars, events>>

\* The task runs and uploads are answered, as UploadsEnd says of handle_upload
\* and TCP of a connection; the user of the receiver may never answer.
FairSpec ==
  /\ Spec
  /\ WF_<<sendVars, events>>(TaskStep)
  /\ WF_<<sendVars, events>>(UploadStep)

-----------------------------------------------------------------------------
(* Properties.                                                             *)

Emitted(e) == \E i \in DOMAIN events : events[i] = e
Reports    == {i \in DOMAIN events : events[i].type = "TransferProgress"}

\* Shapes; and a file is only open while it is known and wanted.
TypeOK ==
  /\ pc \in Steps
  /\ todo \subseteq Files \cup Strangers
  /\ offered \subseteq Files
  /\ wanted \subseteq Files \cup Strangers
  /\ file \in (wanted \cap offered) \cup {None}
  /\ body \in {"none", "open", "ended"}
  /\ position \in 0 .. MaxLength
  /\ base \in Nat
  /\ taken \subseteq wanted \cap offered
  /\ changed \in BOOLEAN
  /\ events \in Seq(TaskEvent)

\* The task speaks its verdict once: no path through send_files reports two
\* outcomes, or ends with none except when it had nothing to offer.
OneVerdict ==
  /\ \A i, j \in DOMAIN events :
       events[i] \in Verdicts /\ events[j] \in Verdicts => i = j
  /\ pc = "done" => Emitted(NoValidFiles) \/ \E e \in Verdicts : Emitted(e)

\* "Successfully sent files" is said only when the receiver confirmed every
\* offered file it asked for.
SuccessIsEarned ==
  Emitted(SentAll) => taken = wanted \cap offered

\* As long as files keep their length the progress shown never goes back and
\* never passes the total, from file to file and with the last report late.
ProgressAdvances ==
  ~changed =>
    \A i, j \in Reports : i <= j
      => /\ events[i].bytes <= events[j].bytes
         /\ events[j].bytes <= events[j].total

\* A task that was answered comes to its end.
SendingEnds == pc \notin {"idle", "ask"} ~> pc \in {"ask", "done"}
==============================================================================
