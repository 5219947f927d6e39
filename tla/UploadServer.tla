---------------------------- MODULE UploadServer ----------------------------
(***************************************************************************)
(* The LocalSend HTTPS server of monosend (src/src/localsend/server.rs):   *)
(* the table active_sessions, and the handlers of prepare-upload, upload   *)
(* and cancel that share it.  Each handler is an async task on a           *)
(* multi-threaded runtime; it holds the table's mutex only for a lookup or *)
(* an update, so handlers interleave at every await and between any two    *)
(* critical sections.  pc[u] is the place where upload u is suspended.     *)
(*                                                                         *)
(* A file identifier stands for one offered file: its name and its         *)
(* declared size are constants.  The token of file f in session s is fresh *)
(* for every pair (a UUID), so it is written as f itself.                  *)
(***************************************************************************)
EXTENDS Naturals, Sequences

CONSTANTS
  Sessions,     \* session identifiers that prepare-upload can draw
  FileIds,      \* files that senders offer
  FileName,     \* FileName[f]: the name offered, after safe_file_name
  FileSize,     \* FileSize[f]: the size declared in prepare-upload
  Uploads,      \* invocations of handle_upload; bounds how many there are
  ChunkSizes,   \* lengths of the pieces in which a body arrives
  MaxAttempts,  \* names create_destination tries (10_000 in the code)
  UserFiles,    \* paths that exist before the server writes anything
  User,         \* who made them
  None,         \* absence of a value
  Faults        \* which of "disk", "drop", "crash" can happen

ASSUME ServerAssumption ==
  /\ FileSize \in [FileIds -> Nat]
  /\ ChunkSizes \subseteq Nat \ {0}
  /\ MaxAttempts \in Nat \ {0}
  /\ User \notin Uploads
  /\ None \notin Sessions /\ None \notin FileIds
  /\ None \notin [session : Sessions, file : FileIds]

VARIABLES
  prep,      \* prep[s]: where the prepare-upload handler of s stands
  active,    \* keys of active_sessions
  pending,   \* pending[s]: keys of session.files; read only while s is active
  tokens,    \* tokens[s]: keys of session.tokens, never shrinks
  pc,        \* pc[u]: where upload u stands, in the end the status it replies
  query,     \* query[u]: session and file named by upload u
  attempt,   \* attempt[u]: index of the create_destination loop
  bytes,     \* bytes[u]: bytes_transferred
  disk,      \* the download directory: path -> who made the file, its length
  sent,      \* sent[s]: AppEvents sent about s so far, in order
  cancels    \* sessions whose sender has posted a cancel

vars == <<prep, active, pending, tokens, pc, query, attempt, bytes, disk,
          sent, cancels>>

uploadVars  == <<pc, query, attempt, bytes>>
sessionVars == <<prep, pending, tokens, cancels>>

-----------------------------------------------------------------------------
(* The shapes of the state.                                                *)

\* A prepare-upload handler waits on its oneshot channel, finds an answer in
\* it ("yes", "no"), and replies; or it is dropped with its connection.
Waiting  == {"waiting", "yes", "no"}
Phases   == {"unused", "accepted", "refused", "dropped"} \cup Waiting

\* The places of handle_upload: suspended with a file that may be partial,
\* removing that file, and after FileReceived ("cut": when the process ended
\* there).
Cleanup  == {"undo", "undo_silently", "undo_flush"}
Partial  == {"check", "read", "flush"} \cup Cleanup
Stored   == {"account", "announce", "OK", "cut"}
Live     == {"create"} \cup Partial \cup {"account", "announce"}
Replies  == {"OK", "BAD_REQUEST", "FORBIDDEN", "NOT_FOUND", "SERVER_ERROR"}
Places   == {"idle", "dropped", "cut"} \cup Live \cup Replies

Query    == [session : Sessions, file : FileIds]

\* AppEvent; the last three are TransferFailed, told apart by their message.
EventTypes == {"FileReceived", "TransferCompleted",
               "TransferFailed", "TransferDeclined", "TransferCancelled"}
Event      == [type : EventTypes, of : FileIds \cup {None}]

Received(f) == [type |-> "FileReceived", of |-> f]
Completed   == [type |-> "TransferCompleted", of |-> None]
Declined    == [type |-> "TransferDeclined", of |-> None]
Cancelled   == [type |-> "TransferCancelled", of |-> None]
Failed(f)   == [type |-> "TransferFailed", of |-> f]

Sent(s, e)  == \E i \in DOMAIN sent[s] : sent[s][i] = e

\* The name create_destination tries at an index: `stem (index).ext`.  A name
\* is its base, the numbers in parentheses that follow it, its extension.
Candidate(name, index) ==
  IF index = 0 THEN name ELSE [name EXCEPT !.marks = Append(@, index)]

SessionOf(u) == query[u].session
FileOf(u)    == query[u].file
Path(u)      == Candidate(FileName[FileOf(u)], attempt[u])
Size(u)      == FileSize[FileOf(u)]

Init ==
  /\ prep    = [s \in Sessions |-> "unused"]
  /\ active  = {}
  /\ pending = [s \in Sessions |-> {}]
  /\ tokens  = [s \in Sessions |-> {}]
  /\ pc      = [u \in Uploads |-> "idle"]
  /\ query   = [u \in Uploads |-> None]
  /\ attempt = [u \in Uploads |-> 0]
  /\ bytes   = [u \in Uploads |-> 0]
  /\ disk    = [p \in UserFiles |-> [by |-> User, length |-> 0]]
  /\ sent    = [s \in Sessions |-> << >>]
  /\ cancels = {}

Emit(s, e) == sent' = [sent EXCEPT ![s] = Append(@, e)]

Goto(u, place) == pc' = [pc EXCEPT ![u] = place]

\* active_sessions.lock().remove(session_id)
Forget(s) == active' = active \ {s}

-----------------------------------------------------------------------------
(* POST prepare-upload                                                     *)

\* The session enters the table before anybody is asked; the request then
\* waits, without a time limit, for the answer to IncomingTransfer.
PrepareUpload(s, offered) ==
  /\ prep[s] = "unused"
  /\ prep'    = [prep EXCEPT ![s] = "waiting"]
  /\ active'  = active \cup {s}
  /\ pending' = [pending EXCEPT ![s] = offered]
  /\ tokens'  = [tokens EXCEPT ![s] = offered]
  /\ UNCHANGED <<uploadVars, disk, sent, cancels>>

\* answer_request sends the decision through the oneshot channel.
AnswerRequest(s, accepted) ==
  /\ prep[s] = "waiting"
  /\ prep' = [prep EXCEPT ![s] = IF accepted THEN "yes" ELSE "no"]
  /\ UNCHANGED <<active, pending, tokens, uploadVars, disk, sent, cancels>>

\* The handler resumes.  A refused session stays in the table.
ReplyPrepare(s) ==
  /\ \/ /\ prep[s] = "yes"
        /\ prep' = [prep EXCEPT ![s] = "accepted"]
        /\ UNCHANGED sent
     \/ /\ prep[s] = "no"
        /\ prep' = [prep EXCEPT ![s] = "refused"]
        /\ Emit(s, Declined)
  /\ UNCHANGED <<active, pending, tokens, uploadVars, disk, cancels>>

\* The sender hangs up while its request waits: the connection drops the
\* handler, the answer goes nowhere and the session stays in the table.
DropPrepare(s) ==
  /\ "drop" \in Faults
  /\ prep[s] \in Waiting
  /\ prep' = [prep EXCEPT ![s] = "dropped"]
  /\ UNCHANGED <<active, pending, tokens, uploadVars, disk, sent, cancels>>

-----------------------------------------------------------------------------
(* POST upload                                                             *)

\* Variant: the token is not compared.
LookUpAnyToken(s, f, t) ==
  IF s \notin active \/ f \notin pending[s] THEN "NOT_FOUND" ELSE "create"

\* What a request that names session s, file f and the token of t leads to.
LookUp(s, f, t) ==
  CASE s \notin active                  -> "NOT_FOUND"
    [] s \in active /\ (f \notin tokens[s] \/ t # f)
                                        -> "FORBIDDEN"
    [] s \in active /\ f \in tokens[s] /\ t = f
                                        -> IF f \in pending[s]
                                           THEN "create" ELSE "NOT_FOUND"

\* A sender knows a session and its tokens from the reply to prepare-upload.
StartUpload(u, s, f, t) ==
  /\ pc[u] = "idle"
  /\ prep[s] = "accepted"
  /\ t \in tokens[s]
  /\ Goto(u, LookUp(s, f, t))
  /\ query' = [query EXCEPT ![u] = [session |-> s, file |-> f]]
  /\ UNCHANGED <<attempt, bytes, active, sessionVars, disk, sent>>

\* Variants: open truncates a file that is there; the index stands still.
NeverTaken(u)  == FALSE
SameAttempt(u) == attempt[u]
LastIsFree(u)  == attempt[u] + 1 <= MaxAttempts

\* create_new finds the path taken; the next index; there is a next index.
Taken(u)       == Path(u) \in DOMAIN disk
NextAttempt(u) == attempt[u] + 1
HasNext(u)     == attempt[u] + 1 < MaxAttempts

\* One round of the loop of create_destination: create_new opens the file
\* only if the path is free.  Any error ends the upload, not the session.
CreateDestination(u) ==
  /\ pc[u] = "create"
  /\ \/ /\ ~Taken(u)
        /\ disk' = [p \in DOMAIN disk \cup {Path(u)} |->
                      IF p = Path(u) THEN [by |-> u, length |-> 0]
                                     ELSE disk[p]]
        /\ Goto(u, "check")
        /\ UNCHANGED <<attempt, sent>>
     \/ /\ Taken(u) /\ HasNext(u)
        /\ attempt' = [attempt EXCEPT ![u] = NextAttempt(u)]
        /\ UNCHANGED <<pc, disk, sent>>
     \/ /\ (Taken(u) /\ ~HasNext(u)) \/ "disk" \in Faults
        /\ Emit(SessionOf(u), Failed(FileOf(u)))
        /\ Goto(u, "SERVER_ERROR")
        /\ UNCHANGED <<attempt, disk>>
  /\ UNCHANGED <<query, bytes, active, sessionVars>>

\* Variant: a handler whose session is gone goes on waiting for it.
CheckSessionOnly(u) ==
  /\ pc[u] = "check"
  /\ SessionOf(u) \in active
  /\ Goto(u, "read")
  /\ UNCHANGED <<query, attempt, bytes, active, sessionVars, disk, sent>>

\* The head of the receive loop: is the session still there?
CheckSession(u) ==
  /\ pc[u] = "check"
  /\ Goto(u, IF SessionOf(u) \in active THEN "read" ELSE "undo_silently")
  /\ UNCHANGED <<query, attempt, bytes, active, sessionVars, disk, sent>>

\* Variant: one byte too many goes through.
TooLongByTwo(u, n) == bytes[u] + n > Size(u) + 1

TooLong(u, n) == bytes[u] + n > Size(u)

\* A chunk of n bytes arrives and is written.  Awaits inside write_all are
\* not told apart: nothing but this task writes to the file meanwhile.
ReceiveChunk(u, n) ==
  /\ pc[u] = "read"
  /\ bytes' = [bytes EXCEPT ![u] = @ + n]
  /\ disk'  = [disk EXCEPT ![Path(u)].length = @ + n]
  /\ \/ /\ TooLong(u, n)
        /\ Forget(SessionOf(u))
        /\ Goto(u, "undo")
     \/ /\ ~TooLong(u, n)
        /\ Goto(u, "check")
        /\ UNCHANGED active
  /\ UNCHANGED <<query, attempt, sessionVars, sent>>

\* write_all fails: the upload ends, the partial file and the session stay.
WriteFails(u) ==
  /\ "disk" \in Faults
  /\ pc[u] = "read"
  /\ Emit(SessionOf(u), Failed(FileOf(u)))
  /\ Goto(u, "SERVER_ERROR")
  /\ UNCHANGED <<query, attempt, bytes, active, sessionVars, disk>>

TooShort(u) == Size(u) > 0 /\ bytes[u] < Size(u)

\* The body ends; too few bytes end the session.
StreamEnds(u) ==
  /\ pc[u] = "read"
  /\ \/ /\ TooShort(u)
        /\ Forget(SessionOf(u))
        /\ Goto(u, "undo")
     \/ /\ ~TooShort(u)
        /\ Goto(u, "flush")
        /\ UNCHANGED active
  /\ UNCHANGED <<query, attempt, bytes, sessionVars, disk, sent>>

\* Variant: the partial file is forgotten.
StreamBreaksKeepingFile(u) ==
  /\ pc[u] = "read"
  /\ Forget(SessionOf(u))
  /\ Emit(SessionOf(u), Failed(FileOf(u)))
  /\ Goto(u, "BAD_REQUEST")
  /\ UNCHANGED <<query, attempt, bytes, sessionVars, disk>>

\* The body breaks off, or no chunk comes within 5 seconds.
StreamBreaks(u) ==
  /\ pc[u] = "read"
  /\ Forget(SessionOf(u))
  /\ Goto(u, "undo")
  /\ UNCHANGED <<query, attempt, bytes, sessionVars, disk, sent>>

\* remove_file, whose error is ignored, then the event and the reply.
RemoveFile(u) ==
  /\ pc[u] \in Cleanup
  /\ \/ disk' = [p \in DOMAIN disk \ {Path(u)} |-> disk[p]]
     \/ "disk" \in Faults /\ UNCHANGED disk
  /\ IF pc[u] = "undo_silently"
     THEN UNCHANGED sent
     ELSE Emit(SessionOf(u), Failed(FileOf(u)))
  /\ Goto(u, IF pc[u] = "undo_flush" THEN "SERVER_ERROR" ELSE "BAD_REQUEST")
  /\ UNCHANGED <<query, attempt, bytes, active, sessionVars>>

\* flush: on success the file is announced, on failure the session ends.
Flush(u) ==
  /\ pc[u] = "flush"
  /\ \/ /\ Emit(SessionOf(u), Received(FileOf(u)))
        /\ Goto(u, "account")
        /\ UNCHANGED active
     \/ /\ "disk" \in Faults
        /\ Forget(SessionOf(u))
        /\ Goto(u, "undo_flush")
        /\ UNCHANGED sent
  /\ UNCHANGED <<query, attempt, bytes, sessionVars, disk>>

\* Variants: the first file ends the session; a file never leaves it.
NothingLeft(u)  == {}
NothingTaken(u) == pending[SessionOf(u)]

\* session.files after remove(file_id)
Left(u) == pending[SessionOf(u)] \ {FileOf(u)}

\* all_completed: the file leaves the session, the last one ends it.  A
\* session that is gone already counts as completed.
AccountFile(u) ==
  LET s == SessionOf(u)
  IN /\ pc[u] = "account"
     /\ IF s \in active THEN pending' = [pending EXCEPT ![s] = Left(u)]
                        ELSE UNCHANGED pending
     /\ IF s \in active /\ Left(u) = {} THEN Forget(s) ELSE UNCHANGED active
     /\ Goto(u, IF s \in active /\ Left(u) # {} THEN "OK" ELSE "announce")
     /\ UNCHANGED <<query, attempt, bytes, prep, tokens, cancels, disk, sent>>

\* The lock is released before TransferCompleted is sent.
AnnounceCompletion(u) ==
  /\ pc[u] = "announce"
  /\ Emit(SessionOf(u), Completed)
  /\ Goto(u, "OK")
  /\ UNCHANGED <<query, attempt, bytes, active, sessionVars, disk>>

\* The connection drops the handler at an await other than the one for the
\* next chunk, which reports the broken body instead (StreamBreaks).  A
\* remove_file already handed to the blocking pool still happens.
DropUpload(u) ==
  /\ "drop" \in Faults
  /\ pc[u] \in {"create", "check", "flush"} \cup Cleanup
  /\ \/ UNCHANGED disk
     \/ /\ pc[u] \in Cleanup
        /\ disk' = [p \in DOMAIN disk \ {Path(u)} |-> disk[p]]
  /\ Goto(u, "dropped")
  /\ UNCHANGED <<query, attempt, bytes, active, sessionVars, sent>>

-----------------------------------------------------------------------------
(* POST cancel                                                             *)

\* Variant: the cancel is announced, the session stays.
CancelAnnounced(s) ==
  /\ prep[s] = "accepted"
  /\ s \notin cancels
  /\ Emit(s, Cancelled)
  /\ cancels' = cancels \cup {s}
  /\ UNCHANGED <<prep, active, pending, tokens, uploadVars, disk>>

\* With a session id: one that the sender got in the reply to its request.
\* The event is sent whether or not the session was there.
CancelSession(s) ==
  /\ prep[s] = "accepted"
  /\ s \notin cancels
  /\ Forget(s)
  /\ Emit(s, Cancelled)
  /\ cancels' = cancels \cup {s}
  /\ UNCHANGED <<prep, pending, tokens, uploadVars, disk>>

\* Without one, from the sender of s that still waits for its reply: every
\* session in the table is cancelled.
CancelAll(s) ==
  /\ prep[s] \in Waiting
  /\ s \notin cancels
  /\ active'  = {}
  /\ sent'    = [x \in Sessions |-> IF x \in active
                                    THEN Append(sent[x], Cancelled)
                                    ELSE sent[x]]
  /\ cancels' = cancels \cup {s}
  /\ UNCHANGED <<prep, pending, tokens, uploadVars, disk>>

-----------------------------------------------------------------------------
\* `monosend receive` ends, with Ctrl+C or because one of its services failed, and
\* is started again: tasks and table are gone, files stay.
Restart ==
  /\ "crash" \in Faults
  /\ active' = {}
  /\ prep'   = [s \in Sessions |->
                  IF prep[s] \in Waiting THEN "dropped" ELSE prep[s]]
  /\ pc'     = [u \in Uploads |->
                  CASE pc[u] \in Live \ Stored -> "dropped"
                    [] pc[u] \in Live \cap Stored -> "cut"
                    [] OTHER -> pc[u]]
  /\ UNCHANGED <<pending, tokens, query, attempt, bytes, disk, sent, cancels>>

\* What the runtime does for upload u without anybody's leave.
UploadStep(u) ==
  \/ CreateDestination(u)
  \/ CheckSession(u)
  \/ \E n \in ChunkSizes : ReceiveChunk(u, n)
  \/ WriteFails(u)
  \/ StreamEnds(u)
  \/ StreamBreaks(u)
  \/ RemoveFile(u)
  \/ Flush(u)
  \/ AccountFile(u)
  \/ AnnounceCompletion(u)

Next ==
  \/ \E s \in Sessions :
       \/ \E offered \in SUBSET FileIds : PrepareUpload(s, offered)
       \/ \E accepted \in BOOLEAN : AnswerRequest(s, accepted)
       \/ ReplyPrepare(s)
       \/ DropPrepare(s)
       \/ CancelSession(s)
       \/ CancelAll(s)
  \/ \E u \in Uploads :
       \/ \E s \in Sessions : \E f, t \in FileIds : StartUpload(u, s, f, t)
       \/ UploadStep(u)
       \/ DropUpload(u)
  \/ Restart

Spec == Init /\ [][Next]_vars

\* A spawned handler keeps running: chunks come or the 5 s timer fires, and
\* file operations return.  Senders, the user and faults owe nothing.
Fairness == \A u \in Uploads : WF_vars(UploadStep(u))

FairSpec == Spec /\ Fairness

-----------------------------------------------------------------------------
(* Properties.                                                             *)

\* Shapes, and two bounds that are easily missed: the loop index stays below
\* MaxAttempts and a session only waits for files it has tokens for.
TypeOK ==
  /\ prep    \in [Sessions -> Phases]
  /\ active  \in SUBSET Sessions
  /\ pending \in [Sessions -> SUBSET FileIds]
  /\ tokens  \in [Sessions -> SUBSET FileIds]
  /\ \A s \in Sessions : pending[s] \subseteq tokens[s]
  /\ pc      \in [Uploads -> Places]
  /\ query   \in [Uploads -> Query \cup {None}]
  /\ \A u \in Uploads : query[u] = None <=> pc[u] = "idle"
  /\ attempt \in [Uploads -> 0 .. MaxAttempts - 1]
  /\ bytes   \in [Uploads -> Nat]
  /\ disk    \in [DOMAIN disk -> [by : Uploads \cup {User}, length : Nat]]
  /\ sent    \in [Sessions -> Seq(Event)]
  /\ cancels \in SUBSET Sessions

\* Whatever other uploads, cancels and failures do meanwhile, a handler that
\* has created its file finds that very file at save_path, with the bytes it
\* has counted: it never writes to, announces or removes another's file
\* (remove_file(&save_path) in the error branches of handle_upload).
FilesNotShared ==
  \A u \in Uploads : pc[u] \in Partial \cup Stored =>
    /\ Path(u) \in DOMAIN disk
    /\ disk[Path(u)] = [by |-> u, length |-> bytes[u]]

\* After FileReceived the file stays on disk with exactly the declared size:
\* the size checks of handle_upload, and no clean-up, retry, cancel or crash
\* that comes later takes it away.
ReceivedFileComplete ==
  \A u \in Uploads : pc[u] \in Stored =>
    /\ Path(u) \in DOMAIN disk
    /\ disk[Path(u)] = [by |-> u, length |-> Size(u)]

\* Files that were there before keep their place and content, however many
\* uploads choose, take and give back names around them (create_destination).
UserFilesKept ==
  \A p \in UserFiles :
    p \in DOMAIN disk /\ disk[p] = [by |-> User, length |-> 0]

\* While the disk works, a file written by a handler that has replied was
\* announced: every way out of handle_upload that gives up removes the partial
\* file; only a handler that was dropped or killed on its way leaves it.
NoPartialLeftBehind ==
  "disk" \notin Faults =>
    \A p \in DOMAIN disk : disk[p].by \in Uploads =>
      pc[disk[p].by] \in Partial \cup Stored \cup {"dropped"}

AllReceived(s) == \A f \in tokens[s] : Sent(s, Received(f))

\* The session was cancelled, or an upload of it failed or was cut off.
TornDown(s) ==
  \/ Sent(s, Cancelled)
  \/ \E f \in FileIds : Sent(s, Failed(f))
  \/ \E u \in Uploads : /\ pc[u] \in {"undo", "undo_flush", "dropped"}
                        /\ SessionOf(u) = s

\* TransferCompleted is only sent when every offered file was received,
\* unless the session was torn down while the upload was finishing: handlers
\* of one session may finish in any order and overlap (all_completed).
CompletionIsTruthful ==
  \A s \in Sessions :
    Sent(s, Completed) /\ ~TornDown(s) => AllReceived(s)

\* The same file was uploaded twice at the same time.
UploadedTwice(s) ==
  \E u, v \in Uploads : /\ u # v
                        /\ pc[u] \in Stored /\ pc[v] \in Stored
                        /\ query[u] = query[v] /\ SessionOf(u) = s

\* A session completes once, unless it was torn down or some file of it was
\* sent twice concurrently: of the handlers that finish together, one alone
\* finds the file table empty (all_completed).
CompletedOnce ==
  \A s \in Sessions : \A i, j \in DOMAIN sent[s] :
    sent[s][i] = Completed /\ sent[s][j] = Completed /\ i # j
      => TornDown(s) \/ UploadedTwice(s)

\* Every upload ends with a reply or with its connection: no loop of
\* handle_upload or create_destination goes on for ever.
UploadsEnd == \A u \in Uploads : pc[u] \in Live ~> pc[u] \notin Live

\* A session whose files have all arrived leaves active_sessions.
ReceivedSessionsClose ==
  \A s \in Sessions :
    tokens[s] # {} /\ AllReceived(s) ~> s \notin active

\* Every behaviour of the server is one of Inbox: what an upload has announced
\* counts as delivered, and a request that was dropped as refused.
Delivered == {p \in DOMAIN disk : /\ disk[p].by \in Uploads
                                  /\ pc[disk[p].by] \in Stored}

Verdict(phase) ==
  CASE phase = "unused"   -> "none"
    [] phase \in Waiting  -> "asked"
    [] phase = "accepted" -> "accepted"
    [] OTHER              -> "refused"

Contract == INSTANCE Inbox WITH
  verdict <- [s \in Sessions |-> Verdict(prep[s])],
  offered <- tokens,
  inbox   <- [p \in Delivered |-> [session |-> SessionOf(disk[p].by),
                                   file    |-> FileOf(disk[p].by),
                                   length  |-> disk[p].length]]

\* handle_prepare_upload, handle_upload and handle_cancel together implement
\* Inbox: nothing undelivers, replaces, truncates or moves a received file, and
\* nothing that was not offered in an accepted request is ever received.
ImplementsInbox == Contract!Spec

\* What the sources say and the code does not do.
\* "a file transfer session completed successfully" (events.rs:34)
CompletedMeansAllReceived ==
  \A s \in Sessions : Sent(s, Completed) => AllReceived(s)
=============================================================================
