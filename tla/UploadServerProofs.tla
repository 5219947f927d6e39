------------------------- MODULE UploadServerProofs -------------------------
(***************************************************************************)
(* Theorems about UploadServer, for every value of its constants: its      *)
(* invariants and, last, that it implements Inbox.                         *)
(***************************************************************************)
EXTENDS UploadServer, TLAPS

-----------------------------------------------------------------------------
(* Type correctness.                                                       *)

USE DEF Waiting, Phases, Cleanup, Partial, Stored, Live, Replies, Places

\* What an event appended to the events of one session does to their type.
LEMMA EmitType ==
  ASSUME sent \in [Sessions -> Seq(Event)],
         NEW s \in Sessions, NEW e \in Event, Emit(s, e)
  PROVE  sent' \in [Sessions -> Seq(Event)]
BY DEF Emit

LEMMA EventsTyped ==
  /\ Completed \in Event /\ Declined \in Event /\ Cancelled \in Event
  /\ \A f \in FileIds : Received(f) \in Event /\ Failed(f) \in Event
BY DEF Event, EventTypes, Completed, Declined, Cancelled, Received, Failed

\* An upload that has started names a session and a file.
LEMMA Started ==
  ASSUME TypeOK, NEW u \in Uploads, pc[u] # "idle"
  PROVE  /\ query[u] \in Query
         /\ SessionOf(u) \in Sessions
         /\ FileOf(u) \in FileIds
         /\ Size(u) \in Nat
BY ServerAssumption DEF TypeOK, Query, SessionOf, FileOf, Size

LEMMA TypeInit == Init => TypeOK
<1> SUFFICES ASSUME Init PROVE TypeOK
  OBVIOUS
<1>1. sent \in [Sessions -> Seq(Event)]
  BY DEF Init
<1>2. disk \in [DOMAIN disk -> [by : Uploads \cup {User}, length : Nat]]
  BY DEF Init
<1> QED
  BY <1>1, <1>2, ServerAssumption DEF Init, TypeOK

LEMMA TypeStep == TypeOK /\ [Next]_vars => TypeOK'
<1> SUFFICES ASSUME TypeOK, [Next]_vars PROVE TypeOK'
  OBVIOUS
<1> USE ServerAssumption DEF sessionVars, uploadVars, Goto, Forget
<1>1. ASSUME NEW s \in Sessions, NEW offered \in SUBSET FileIds,
             PrepareUpload(s, offered)
      PROVE  TypeOK'
  BY <1>1 DEF TypeOK, PrepareUpload
<1>2. ASSUME NEW s \in Sessions, NEW accepted \in BOOLEAN,
             AnswerRequest(s, accepted)
      PROVE  TypeOK'
  BY <1>2 DEF TypeOK, AnswerRequest
<1>3. ASSUME NEW s \in Sessions, ReplyPrepare(s)
      PROVE  TypeOK'
  <2>1. sent' \in [Sessions -> Seq(Event)]
    BY <1>3, EmitType, EventsTyped DEF TypeOK, ReplyPrepare
  <2> QED
    BY <1>3, <2>1 DEF TypeOK, ReplyPrepare
<1>4. ASSUME NEW s \in Sessions, DropPrepare(s)
      PROVE  TypeOK'
  BY <1>4 DEF TypeOK, DropPrepare
<1>5. ASSUME NEW s \in Sessions, CancelSession(s)
      PROVE  TypeOK'
  <2>1. sent' \in [Sessions -> Seq(Event)]
    BY <1>5, EmitType, EventsTyped DEF TypeOK, CancelSession
  <2> QED
    BY <1>5, <2>1 DEF TypeOK, CancelSession
<1>6. ASSUME NEW s \in Sessions, CancelAll(s)
      PROVE  TypeOK'
  <2>1. sent' \in [Sessions -> Seq(Event)]
    BY <1>6, EventsTyped DEF TypeOK, CancelAll
  <2> QED
    BY <1>6, <2>1 DEF TypeOK, CancelAll
<1>7. ASSUME NEW u \in Uploads, NEW s \in Sessions,
             NEW f \in FileIds, NEW t \in FileIds, StartUpload(u, s, f, t)
      PROVE  TypeOK'
  <2>1. LookUp(s, f, t) \in Places \ {"idle"}
    BY DEF LookUp
  <2>2. [session |-> s, file |-> f] \in Query
    BY DEF Query
  <2>3. None \notin Query
    BY DEF Query
  <2>4. query' \in [Uploads -> Query \cup {None}]
    BY <1>7, <2>2 DEF TypeOK, StartUpload
  <2>5. pc' \in [Uploads -> Places]
    BY <1>7, <2>1 DEF TypeOK, StartUpload
  <2>6. ASSUME NEW v \in Uploads
        PROVE  query'[v] = None <=> pc'[v] = "idle"
    BY <1>7, <2>1, <2>2, <2>3 DEF TypeOK, StartUpload
  <2> QED
    BY <1>7, <2>4, <2>5, <2>6 DEF TypeOK, StartUpload
<1>8. ASSUME NEW u \in Uploads, CreateDestination(u)
      PROVE  TypeOK'
  <2>1. SessionOf(u) \in Sessions /\ FileOf(u) \in FileIds
    BY <1>8, Started DEF CreateDestination
  <2>2. sent' \in [Sessions -> Seq(Event)]
    BY <1>8, <2>1, EmitType, EventsTyped DEF TypeOK, CreateDestination
  <2>3. disk' \in [DOMAIN disk' -> [by : Uploads \cup {User}, length : Nat]]
    BY <1>8 DEF TypeOK, CreateDestination
  <2>4. attempt' \in [Uploads -> 0 .. MaxAttempts - 1]
    <3>1. CASE UNCHANGED attempt
      BY <3>1 DEF TypeOK
    <3>2. CASE /\ HasNext(u)
               /\ attempt' = [attempt EXCEPT ![u] = NextAttempt(u)]
      <4>1. NextAttempt(u) \in 0 .. MaxAttempts - 1
        BY <3>2 DEF TypeOK, NextAttempt, HasNext
      <4> QED
        BY <3>2, <4>1 DEF TypeOK
    <3> QED
      BY <1>8, <3>1, <3>2 DEF CreateDestination
  <2>5. /\ pc' \in [Uploads -> Places]
        /\ \A v \in Uploads : pc'[v] = "idle" <=> pc[v] = "idle"
    <3>1. CASE \E place \in {"check", "SERVER_ERROR"} : Goto(u, place)
      BY <1>8, <3>1 DEF TypeOK, CreateDestination
    <3>2. CASE UNCHANGED pc
      BY <3>2 DEF TypeOK
    <3> QED
      BY <1>8, <3>1, <3>2 DEF CreateDestination
  <2>6. UNCHANGED <<prep, active, pending, tokens, query, bytes, cancels>>
    BY <1>8 DEF CreateDestination
  <2>7. \A v \in Uploads : query'[v] = None <=> pc'[v] = "idle"
    BY <2>5, <2>6 DEF TypeOK
  <2> QED
    BY <2>2, <2>3, <2>4, <2>5, <2>6, <2>7 DEF TypeOK
<1>9. ASSUME NEW u \in Uploads, CheckSession(u)
      PROVE  TypeOK'
  BY <1>9 DEF TypeOK, CheckSession
<1>10. ASSUME NEW u \in Uploads, NEW n \in ChunkSizes, ReceiveChunk(u, n)
       PROVE  TypeOK'
  <2>1. n \in Nat
    OBVIOUS
  <2>2. disk' \in [DOMAIN disk' -> [by : Uploads \cup {User}, length : Nat]]
    <3>1. DOMAIN disk' = DOMAIN disk
      BY <1>10 DEF ReceiveChunk
    <3>2. ASSUME NEW p \in DOMAIN disk
          PROVE  disk'[p] \in [by : Uploads \cup {User}, length : Nat]
      <4>1. disk[p] \in [by : Uploads \cup {User}, length : Nat]
        BY DEF TypeOK
      <4>2. [disk[p] EXCEPT !.length = @ + n]
              \in [by : Uploads \cup {User}, length : Nat]
        BY <2>1, <4>1
      <4> QED
        BY <1>10, <4>1, <4>2 DEF ReceiveChunk
    <3>3. disk' = [p \in DOMAIN disk' |-> disk'[p]]
      BY <1>10 DEF ReceiveChunk
    <3> QED
      BY <3>1, <3>2, <3>3
  <2>3. bytes' \in [Uploads -> Nat]
    BY <1>10, <2>1 DEF TypeOK, ReceiveChunk
  <2> QED
    BY <1>10, <2>2, <2>3 DEF TypeOK, ReceiveChunk
<1>11. ASSUME NEW u \in Uploads, WriteFails(u)
       PROVE  TypeOK'
  <2>1. sent' \in [Sessions -> Seq(Event)]
    BY <1>11, Started, EmitType, EventsTyped DEF TypeOK, WriteFails
  <2> QED
    BY <1>11, <2>1 DEF TypeOK, WriteFails
<1>12. ASSUME NEW u \in Uploads, StreamEnds(u)
       PROVE  TypeOK'
  BY <1>12 DEF TypeOK, StreamEnds
<1>13. ASSUME NEW u \in Uploads, StreamBreaks(u)
       PROVE  TypeOK'
  BY <1>13 DEF TypeOK, StreamBreaks
<1>14. ASSUME NEW u \in Uploads, RemoveFile(u)
       PROVE  TypeOK'
  <2>1. sent' \in [Sessions -> Seq(Event)]
    BY <1>14, Started, EmitType, EventsTyped DEF TypeOK, RemoveFile
  <2>2. disk' \in [DOMAIN disk' -> [by : Uploads \cup {User}, length : Nat]]
    BY <1>14 DEF TypeOK, RemoveFile
  <2> QED
    BY <1>14, <2>1, <2>2 DEF TypeOK, RemoveFile
<1>15. ASSUME NEW u \in Uploads, Flush(u)
       PROVE  TypeOK'
  <2>1. sent' \in [Sessions -> Seq(Event)]
    BY <1>15, Started, EmitType, EventsTyped DEF TypeOK, Flush
  <2> QED
    BY <1>15, <2>1 DEF TypeOK, Flush
<1>16. ASSUME NEW u \in Uploads, AccountFile(u)
       PROVE  TypeOK'
  <2>1. SessionOf(u) \in Sessions
    BY <1>16, Started DEF AccountFile
  <2>2. /\ pending' \in [Sessions -> SUBSET FileIds]
        /\ \A s \in Sessions : pending'[s] \subseteq pending[s]
    <3>1. CASE pending' = [pending EXCEPT ![SessionOf(u)] = Left(u)]
      <4>1. /\ Left(u) \in SUBSET FileIds
            /\ Left(u) \subseteq pending[SessionOf(u)]
        BY <2>1 DEF TypeOK, Left
      <4> QED
        BY <2>1, <3>1, <4>1 DEF TypeOK
    <3>2. CASE UNCHANGED pending
      BY <3>2 DEF TypeOK
    <3> QED
      BY <1>16, <3>1, <3>2 DEF AccountFile
  <2>3. active' \subseteq active
    BY <1>16 DEF AccountFile
  <2>4. /\ pc' \in [Uploads -> Places]
        /\ \A v \in Uploads : pc'[v] = "idle" <=> pc[v] = "idle"
    BY <1>16 DEF TypeOK, AccountFile
  <2>5. UNCHANGED <<prep, tokens, query, attempt, bytes, disk, sent, cancels>>
    BY <1>16 DEF AccountFile
  <2> QED
    <3>1. \A v \in Uploads : query'[v] = None <=> pc'[v] = "idle"
      BY <2>4, <2>5 DEF TypeOK
    <3>2. \A s \in Sessions : pending'[s] \subseteq tokens'[s]
      BY <2>2, <2>5 DEF TypeOK
    <3> QED
      BY <2>2, <2>3, <2>4, <2>5, <3>1, <3>2 DEF TypeOK
<1>17. ASSUME NEW u \in Uploads, AnnounceCompletion(u)
       PROVE  TypeOK'
  <2>1. sent' \in [Sessions -> Seq(Event)]
    BY <1>17, Started, EmitType, EventsTyped DEF TypeOK, AnnounceCompletion
  <2> QED
    BY <1>17, <2>1 DEF TypeOK, AnnounceCompletion
<1>18. ASSUME NEW u \in Uploads, DropUpload(u)
       PROVE  TypeOK'
  <2>1. disk' \in [DOMAIN disk' -> [by : Uploads \cup {User}, length : Nat]]
    BY <1>18 DEF TypeOK, DropUpload
  <2> QED
    BY <1>18, <2>1 DEF TypeOK, DropUpload
<1>19. ASSUME Restart
       PROVE  TypeOK'
  BY <1>19 DEF TypeOK, Restart
<1>20. CASE UNCHANGED vars
  BY <1>20 DEF TypeOK, vars
<1> QED
  BY <1>1, <1>2, <1>3, <1>4, <1>5, <1>6, <1>7, <1>8, <1>9, <1>10, <1>11,
     <1>12, <1>13, <1>14, <1>15, <1>16, <1>17, <1>18, <1>19, <1>20
     DEF Next, UploadStep

\* The state keeps its shape; in particular a session waits only for files
\* it has tokens for, and the loop index of create_destination stays below
\* its limit.
THEOREM TypeCorrect == Spec => []TypeOK
<1> QED
  BY TypeInit, TypeStep, PTL DEF Spec

-----------------------------------------------------------------------------
(* Files.  FilesNotShared is not inductive alone: a handler creates its file *)
(* with length 0, so its byte count must still be 0; the size checks only    *)
(* work if the count has never gone past the declared size; and the files    *)
(* that ended handlers leave behind must not be found at the path of a       *)
(* handler that runs.                                                        *)

\* Nothing is counted before there is a file.
NothingCounted ==
  \A u \in Uploads : pc[u] \in {"idle", "create"} => bytes[u] = 0

\* A file made by an upload is at the path that upload settled on.
FilesOwned ==
  \A p \in DOMAIN disk : \A u \in Uploads :
    disk[p].by = u => /\ pc[u] \notin {"idle", "create"}
                      /\ p = Path(u)

\* The count never passes the declared size, and is equal to it from the
\* moment the body is found complete.
CountsBounded ==
  \A u \in Uploads :
    /\ pc[u] \in {"check", "read", "flush"} => bytes[u] <= Size(u)
    /\ pc[u] \in {"flush"} \cup Stored => bytes[u] = Size(u)

FilesInv ==
  /\ TypeOK
  /\ NothingCounted
  /\ FilesNotShared
  /\ FilesOwned
  /\ CountsBounded
  /\ UserFilesKept

\* What a step of upload u leaves alone: the other uploads, what it was asked
\* for, and the name it has settled on.
OthersAlone(u) ==
  /\ query' = query
  /\ \A v \in Uploads \ {u} : /\ pc'[v] = pc[v]
                              /\ attempt'[v] = attempt[v]
                              /\ bytes'[v] = bytes[v]
  /\ pc[u] # "idle" /\ pc'[u] # "idle"
  /\ pc[u] # "create" => pc'[u] # "create" /\ attempt' = attempt

\* ... and of the disk everything but its own file.
OtherFilesAlone(u) ==
  \/ disk' = disk
  \/ /\ (pc[u] = "create" /\ ~Taken(u)) \/ pc[u] \in Partial
     /\ pc'[u] # "create" /\ attempt' = attempt
     /\ Path(u) \in DOMAIN disk' => disk'[Path(u)].by = u
     /\ \A p : p # Path(u) =>
          /\ p \in DOMAIN disk' <=> p \in DOMAIN disk
          /\ p \in DOMAIN disk => disk'[p] = disk[p]

\* What FilesInv says of one upload, besides its type.
FileOK(u) ==
  /\ pc[u] \in {"idle", "create"} => bytes[u] = 0
  /\ pc[u] \in Partial \cup Stored =>
       /\ Path(u) \in DOMAIN disk
       /\ disk[Path(u)] = [by |-> u, length |-> bytes[u]]
  /\ pc[u] \in {"check", "read", "flush"} => bytes[u] <= Size(u)
  /\ pc[u] \in {"flush"} \cup Stored => bytes[u] = Size(u)

LEMMA FilesInvParts ==
  FilesInv <=> /\ TypeOK /\ FilesOwned /\ UserFilesKept
               /\ \A u \in Uploads : FileOK(u)
BY DEF FilesInv, NothingCounted, FilesNotShared, CountsBounded, FileOK

LEMMA OwnFile ==
  ASSUME FilesInv, NEW u \in Uploads, pc[u] \in Partial \cup Stored
  PROVE  /\ Path(u) \in DOMAIN disk
         /\ disk[Path(u)] = [by |-> u, length |-> bytes[u]]
         /\ disk[Path(u)].by = u
<1>1. /\ Path(u) \in DOMAIN disk
      /\ disk[Path(u)] = [by |-> u, length |-> bytes[u]]
  BY Zenon DEF FilesInv, FilesNotShared
<1> QED
  BY <1>1

LEMMA OwnStepLocal ==
  ASSUME FilesInv, NEW u \in Uploads, UploadStep(u) \/ DropUpload(u)
  PROVE  OthersAlone(u) /\ OtherFilesAlone(u)
<1> USE DEF Goto, OthersAlone, OtherFilesAlone
<1>0. TypeOK /\ pc[u] \in Places
  BY DEF FilesInv, TypeOK
<1>1. CASE CreateDestination(u)
  <2>1. CASE /\ ~Taken(u)
             /\ disk' = [p \in DOMAIN disk \cup {Path(u)} |->
                           IF p = Path(u) THEN [by |-> u, length |-> 0]
                                          ELSE disk[p]]
             /\ Goto(u, "check")
             /\ UNCHANGED attempt
    BY <1>0, <1>1, <2>1 DEF CreateDestination, TypeOK
  <2>2. CASE /\ UNCHANGED <<pc, disk>>
             /\ attempt' = [attempt EXCEPT ![u] = NextAttempt(u)]
    BY <1>0, <1>1, <2>2 DEF CreateDestination, TypeOK
  <2>3. CASE UNCHANGED <<attempt, disk>> /\ Goto(u, "SERVER_ERROR")
    BY <1>0, <1>1, <2>3 DEF CreateDestination, TypeOK
  <2> QED
    BY <1>1, <2>1, <2>2, <2>3 DEF CreateDestination
<1>2. CASE CheckSession(u)
  BY <1>0, <1>2 DEF CheckSession, TypeOK
<1>3. CASE \E n \in ChunkSizes : ReceiveChunk(u, n)
  <2> PICK n \in ChunkSizes : ReceiveChunk(u, n)
    BY <1>3
  <2>1. disk[Path(u)].by = u
    BY OwnFile DEF ReceiveChunk
  <2>2. disk' = [disk EXCEPT ![Path(u)].length = @ + n]
    BY DEF ReceiveChunk
  <2>3. OthersAlone(u)
    BY <1>0 DEF ReceiveChunk, TypeOK
  <2>4. DOMAIN disk' = DOMAIN disk /\ \A p : p # Path(u) /\ p \in DOMAIN disk => disk'[p] = disk[p]
    BY <2>2
  <2>5. Path(u) \in DOMAIN disk => disk'[Path(u)] = [disk[Path(u)] EXCEPT !.length = @ + n]
    BY <2>2
  <2>6. Path(u) \in DOMAIN disk => disk[Path(u)] \in [by : Uploads \cup {User}, length : Nat]
    BY <1>0 DEF TypeOK
  <2>7. Path(u) \in DOMAIN disk => disk'[Path(u)].by = u
    BY <2>1, <2>5, <2>6
  <2>8. pc[u] \in Partial /\ pc'[u] # "create" /\ attempt' = attempt
    BY <1>0 DEF ReceiveChunk, TypeOK
  <2>9. OtherFilesAlone(u)
    BY <2>4, <2>7, <2>8
  <2> QED
    BY <2>3, <2>9
<1>4. CASE WriteFails(u)
  BY <1>0, <1>4 DEF WriteFails, TypeOK
<1>5. CASE StreamEnds(u)
  BY <1>0, <1>5 DEF StreamEnds, TypeOK
<1>6. CASE StreamBreaks(u)
  BY <1>0, <1>6 DEF StreamBreaks, TypeOK
<1>7. CASE RemoveFile(u)
  BY <1>0, <1>7 DEF RemoveFile, TypeOK
<1>8. CASE Flush(u)
  BY <1>0, <1>8 DEF Flush, TypeOK
<1>9. CASE AccountFile(u)
  BY <1>0, <1>9 DEF AccountFile, TypeOK
<1>10. CASE AnnounceCompletion(u)
  BY <1>0, <1>10 DEF AnnounceCompletion, TypeOK
<1>11. CASE DropUpload(u)
  BY <1>0, <1>11 DEF DropUpload, TypeOK
<1> QED
  BY <1>1, <1>2, <1>3, <1>4, <1>5, <1>6, <1>7, <1>8, <1>9, <1>10, <1>11
     DEF UploadStep

\* Two uploads that have files have them at different paths.
LEMMA PathsApart ==
  ASSUME FilesInv, NEW u \in Uploads, NEW v \in Uploads \ {u},
         pc[v] \in Partial \cup Stored,
         (pc[u] = "create" /\ ~Taken(u)) \/ pc[u] \in Partial
  PROVE  Path(v) # Path(u)
<1>1. Path(v) \in DOMAIN disk /\ disk[Path(v)].by = v
  BY OwnFile
<1>2. CASE pc[u] = "create" /\ ~Taken(u)
  BY <1>1, <1>2 DEF Taken
<1>3. CASE pc[u] \in Partial
  <2>1. disk[Path(u)].by = u
    BY <1>3, OwnFile
  <2> QED
    BY <1>1, <2>1
<1> QED
  BY <1>2, <1>3

LEMMA OtherUploadsOK ==
  ASSUME FilesInv, NEW u \in Uploads, OthersAlone(u), OtherFilesAlone(u),
         NEW v \in Uploads \ {u}
  PROVE  FileOK(v)'
<1>1. FileOK(v)
  BY FilesInvParts
<1>2. Path(v)' = Path(v) /\ Size(v)' = Size(v)
  BY DEF OthersAlone, Path, FileOf, Size
<1>3. pc[v] \in Partial \cup Stored =>
        Path(v) \in DOMAIN disk' /\ disk'[Path(v)] = disk[Path(v)]
  BY <1>1, PathsApart DEF OtherFilesAlone, FileOK
<1> QED
  BY <1>1, <1>2, <1>3 DEF FileOK, OthersAlone

LEMMA FilesStayOwned ==
  ASSUME FilesInv, NEW u \in Uploads, OthersAlone(u), OtherFilesAlone(u)
  PROVE  FilesOwned'
<1> SUFFICES ASSUME NEW p \in DOMAIN disk', NEW w \in Uploads,
                    disk'[p].by = w
             PROVE  pc'[w] \notin {"idle", "create"} /\ p = Path(w)'
  BY DEF FilesOwned
<1>1. CASE p \in DOMAIN disk /\ disk[p].by = w
  <2>1. pc[w] \notin {"idle", "create"} /\ p = Path(w)
    BY <1>1 DEF FilesInv, FilesOwned
  <2>2. Path(w)' = Path(w)
    BY <2>1 DEF OthersAlone, Path, FileOf
  <2> QED
    BY <2>1, <2>2 DEF OthersAlone
<1>2. CASE ~(p \in DOMAIN disk /\ disk[p].by = w)
  <2>1. p = Path(u) /\ w = u /\ attempt' = attempt /\ pc'[u] # "create"
    BY <1>2 DEF OtherFilesAlone
  <2>2. Path(u)' = Path(u)
    BY <2>1 DEF OthersAlone, Path, FileOf
  <2> QED
    BY <2>1, <2>2 DEF OthersAlone
<1> QED
  BY <1>1, <1>2

LEMMA UserFilesStay ==
  ASSUME FilesInv, NEW u \in Uploads, OtherFilesAlone(u)
  PROVE  UserFilesKept'
<1> SUFFICES ASSUME NEW p \in UserFiles
             PROVE  p \in DOMAIN disk' /\ disk'[p] = [by |-> User, length |-> 0]
  BY DEF UserFilesKept
<1>1. p \in DOMAIN disk /\ disk[p] = [by |-> User, length |-> 0]
  BY DEF FilesInv, UserFilesKept
<1>2. CASE disk' = disk
  BY <1>1, <1>2
<1>3. CASE disk' # disk
  <2>1. (pc[u] = "create" /\ ~Taken(u)) \/ pc[u] \in Partial
    BY <1>3 DEF OtherFilesAlone
  <2>2. pc[u] \in Partial => disk[Path(u)].by = u
    BY OwnFile
  <2>3. p # Path(u)
    BY <1>1, <2>1, <2>2, ServerAssumption DEF Taken
  <2> QED
    BY <1>1, <1>3, <2>3 DEF OtherFilesAlone
<1> QED
  BY <1>2, <1>3

\* The handler that takes the step keeps its own file and count in order.
LEMMA OwnStepOK ==
  ASSUME FilesInv, TypeOK', NEW u \in Uploads, UploadStep(u) \/ DropUpload(u)
  PROVE  FileOK(u)'
<1> USE DEF Goto
<1>0. TypeOK /\ pc[u] \in Places
  BY DEF FilesInv, TypeOK
<1>1. FileOK(u)
  BY FilesInvParts
<1>2. query' = query /\ Size(u)' = Size(u) /\ FileOf(u)' = FileOf(u)
  BY OwnStepLocal DEF OthersAlone, Size, FileOf
<1>3. attempt' = attempt => Path(u)' = Path(u)
  BY <1>2 DEF Path
<1>4. pc[u] # "idle" => Size(u) \in Nat
  BY <1>0, Started
<1>5. CASE CreateDestination(u)
  <2>1. CASE /\ ~Taken(u)
             /\ disk' = [p \in DOMAIN disk \cup {Path(u)} |->
                           IF p = Path(u) THEN [by |-> u, length |-> 0]
                                          ELSE disk[p]]
             /\ Goto(u, "check")
             /\ UNCHANGED attempt
    <3>1. bytes' = bytes /\ bytes[u] = 0 /\ pc'[u] = "check"
      BY <1>0, <1>1, <1>5, <2>1 DEF CreateDestination, FileOK, TypeOK
    <3>2. /\ Path(u)' \in DOMAIN disk'
          /\ disk'[Path(u)'] = [by |-> u, length |-> 0]
      BY <1>3, <2>1
    <3>3. bytes'[u] <= Size(u)'
      BY <1>2, <1>4, <1>5, <3>1 DEF CreateDestination
    <3> QED
      BY <3>1, <3>2, <3>3 DEF FileOK
  <2>2. CASE UNCHANGED pc
    BY <1>1, <1>5, <2>2 DEF CreateDestination, FileOK
  <2>3. CASE Goto(u, "SERVER_ERROR")
    BY <1>0, <2>3 DEF FileOK, TypeOK
  <2> QED
    BY <1>5, <2>1, <2>2, <2>3 DEF CreateDestination
<1>6. CASE CheckSession(u)
  <2>1. pc[u] = "check" /\ pc'[u] \in {"read", "undo_silently"}
    BY <1>0, <1>6 DEF CheckSession, TypeOK
  <2> QED
    BY <1>1, <1>2, <1>3, <1>6, <2>1 DEF CheckSession, FileOK
<1>7. CASE \E n \in ChunkSizes : ReceiveChunk(u, n)
  <2> PICK n \in ChunkSizes : ReceiveChunk(u, n)
    BY <1>7
  <2>1. /\ pc[u] = "read"
        /\ bytes'[u] = bytes[u] + n
        /\ attempt' = attempt
        /\ disk' = [disk EXCEPT ![Path(u)].length = @ + n]
        /\ \/ TooLong(u, n) /\ pc'[u] = "undo"
           \/ ~TooLong(u, n) /\ pc'[u] = "check"
    BY <1>0 DEF ReceiveChunk, TypeOK
  <2>2. /\ Path(u) \in DOMAIN disk
        /\ disk[Path(u)] = [by |-> u, length |-> bytes[u]]
    BY <2>1, OwnFile
  <2>3. /\ Path(u) \in DOMAIN disk'
        /\ disk'[Path(u)] = [disk[Path(u)] EXCEPT !.length = @ + n]
    BY <2>1, <2>2
  <2>4. disk'[Path(u)] = [by |-> u, length |-> bytes'[u]]
    BY <2>1, <2>2, <2>3
  <2>5. ~TooLong(u, n) => bytes'[u] <= Size(u)'
    <3>1. bytes[u] \in Nat /\ n \in Nat /\ Size(u) \in Nat
      BY <1>0, <1>4, <2>1, ServerAssumption DEF TypeOK
    <3> QED
      BY <1>2, <2>1, <3>1 DEF TooLong
  <2> QED
    BY <1>3, <2>1, <2>3, <2>4, <2>5 DEF FileOK
<1>8. CASE WriteFails(u)
  BY <1>0, <1>8 DEF WriteFails, FileOK, TypeOK
<1>9. CASE StreamEnds(u)
  <2>1. /\ pc[u] = "read"
        /\ bytes' = bytes /\ disk' = disk /\ attempt' = attempt
        /\ \/ pc'[u] = "undo"
           \/ ~TooShort(u) /\ pc'[u] = "flush"
    BY <1>0, <1>9 DEF StreamEnds, TypeOK
  <2>2. bytes[u] \in Nat /\ Size(u) \in Nat /\ bytes[u] <= Size(u)
    BY <1>0, <1>1, <1>4, <2>1 DEF FileOK, TypeOK
  <2>3. ~TooShort(u) => bytes[u] = Size(u)
    BY <2>2 DEF TooShort
  <2> QED
    BY <1>1, <1>2, <1>3, <2>1, <2>2, <2>3 DEF FileOK
<1>10. CASE StreamBreaks(u)
  <2>1. pc[u] = "read" /\ pc'[u] = "undo"
    BY <1>0, <1>10 DEF StreamBreaks, TypeOK
  <2> QED
    BY <1>1, <1>2, <1>3, <1>10, <2>1 DEF StreamBreaks, FileOK
<1>11. CASE RemoveFile(u)
  BY <1>0, <1>11 DEF RemoveFile, FileOK, TypeOK
<1>12. CASE Flush(u)
  <2>1. pc[u] = "flush" /\ pc'[u] \in {"account", "undo_flush"}
    BY <1>0, <1>12 DEF Flush, TypeOK
  <2> QED
    BY <1>1, <1>2, <1>3, <1>12, <2>1 DEF Flush, FileOK
<1>13. CASE AccountFile(u)
  <2>1. pc[u] = "account" /\ pc'[u] \in {"announce", "OK"}
    BY <1>0, <1>13 DEF AccountFile, TypeOK
  <2> QED
    BY <1>1, <1>2, <1>3, <1>13, <2>1 DEF AccountFile, FileOK
<1>14. CASE AnnounceCompletion(u)
  <2>1. pc[u] = "announce" /\ pc'[u] = "OK"
    BY <1>0, <1>14 DEF AnnounceCompletion, TypeOK
  <2> QED
    BY <1>1, <1>2, <1>3, <1>14, <2>1 DEF AnnounceCompletion, FileOK
<1>15. CASE DropUpload(u)
  BY <1>0, <1>15 DEF DropUpload, FileOK, TypeOK
<1> QED
  BY <1>5, <1>6, <1>7, <1>8, <1>9, <1>10, <1>11, <1>12, <1>13, <1>14, <1>15
     DEF UploadStep

LEMMA FilesInit == Init => FilesInv
<1> SUFFICES ASSUME Init PROVE FilesInv
  OBVIOUS
<1>1. TypeOK
  BY TypeInit
<1>2. FilesOwned /\ UserFilesKept
  BY ServerAssumption DEF Init, FilesOwned, UserFilesKept
<1>3. \A u \in Uploads : FileOK(u)
  BY DEF Init, FileOK
<1> QED
  BY <1>1, <1>2, <1>3, FilesInvParts

LEMMA FilesStep == FilesInv /\ [Next]_vars => FilesInv'
<1> SUFFICES ASSUME FilesInv, [Next]_vars PROVE FilesInv'
  OBVIOUS
<1>0. TypeOK /\ TypeOK'
  BY TypeStep DEF FilesInv
<1>1. CASE UNCHANGED <<uploadVars, disk>>
  BY <1>0, <1>1 DEF FilesInv, uploadVars, NothingCounted, FilesNotShared,
     FilesOwned, CountsBounded, UserFilesKept, Path, FileOf, Size
<1>2. ASSUME NEW u \in Uploads, UploadStep(u) \/ DropUpload(u)
      PROVE  FilesInv'
  <2>1. OthersAlone(u) /\ OtherFilesAlone(u)
    BY <1>2, OwnStepLocal
  <2>2. \A v \in Uploads \ {u} : FileOK(v)'
    BY <2>1, OtherUploadsOK
  <2>3. FileOK(u)'
    BY <1>0, <1>2, OwnStepOK
  <2>4. FilesOwned' /\ UserFilesKept'
    BY <2>1, FilesStayOwned, UserFilesStay
  <2> QED
    BY <1>0, <2>2, <2>3, <2>4
       DEF FilesInv, NothingCounted, FilesNotShared, CountsBounded, FileOK
<1>3. ASSUME NEW u \in Uploads, NEW s \in Sessions,
             NEW f \in FileIds, NEW t \in FileIds, StartUpload(u, s, f, t)
      PROVE  FilesInv'
  <2>1. /\ pc[u] = "idle"
        /\ pc'[u] \in {"create", "NOT_FOUND", "FORBIDDEN"}
        /\ \A v \in Uploads \ {u} : pc'[v] = pc[v] /\ query'[v] = query[v]
        /\ UNCHANGED <<attempt, bytes, disk>>
    <3>1. LookUp(s, f, t) \in {"create", "NOT_FOUND", "FORBIDDEN"}
      BY DEF LookUp
    <3> QED
      BY <1>0, <1>3, <3>1 DEF StartUpload, Goto, TypeOK
  <2>2. \A v \in Uploads \ {u} : Path(v)' = Path(v) /\ Size(v)' = Size(v)
    BY <2>1 DEF Path, Size, FileOf
  <2>3. \A v \in Uploads \ {u} : FileOK(v)'
    BY <2>1, <2>2, FilesInvParts DEF FileOK
  <2>4. FileOK(u)'
    BY <2>1, FilesInvParts DEF FileOK
  <2>5. FilesOwned'
    BY <2>1, <2>2 DEF FilesInv, FilesOwned
  <2>6. UserFilesKept'
    BY <2>1 DEF FilesInv, UserFilesKept
  <2> QED
    BY <1>0, <2>3, <2>4, <2>5, <2>6
       DEF FilesInv, NothingCounted, FilesNotShared, CountsBounded, FileOK
<1>4. CASE Restart
  <2>1. UNCHANGED <<query, attempt, bytes, disk>>
    BY <1>4 DEF Restart
  <2>2. \A v \in Uploads : Path(v)' = Path(v) /\ Size(v)' = Size(v)
    BY <2>1 DEF Path, Size, FileOf
  <2>3. \A v \in Uploads :
          /\ pc'[v] \in Partial \cup {"create"} => FALSE
          /\ pc'[v] \in Stored => pc[v] \in Stored
          /\ pc'[v] = "idle" <=> pc[v] = "idle"
    BY <1>0, <1>4 DEF Restart, TypeOK
  <2>4. \A v \in Uploads : FileOK(v)'
    BY <2>1, <2>2, <2>3, FilesInvParts DEF FileOK
  <2>5. FilesOwned'
    BY <2>1, <2>2, <2>3 DEF FilesInv, FilesOwned
  <2>6. UserFilesKept'
    BY <2>1 DEF FilesInv, UserFilesKept
  <2> QED
    BY <1>0, <2>4, <2>5, <2>6
       DEF FilesInv, NothingCounted, FilesNotShared, CountsBounded, FileOK
<1>5. ASSUME NEW s \in Sessions,
             \/ \E offered \in SUBSET FileIds : PrepareUpload(s, offered)
             \/ \E accepted \in BOOLEAN : AnswerRequest(s, accepted)
             \/ ReplyPrepare(s) \/ DropPrepare(s)
             \/ CancelSession(s) \/ CancelAll(s)
      PROVE  UNCHANGED <<uploadVars, disk>>
  BY <1>5 DEF PrepareUpload, AnswerRequest, ReplyPrepare, DropPrepare,
              CancelSession, CancelAll
<1>6. CASE UNCHANGED vars
  BY <1>1, <1>6 DEF vars, uploadVars
<1> QED
  BY <1>1, <1>2, <1>3, <1>4, <1>5, <1>6 DEF Next

LEMMA FilesAlways == Spec => []FilesInv
BY FilesInit, FilesStep, PTL DEF Spec

\* A handler that has created its file finds that very file at its path until
\* it ends: no other upload, cancel, failure or restart writes to it, takes
\* its name or removes it.
THEOREM FilesAreNotShared == Spec => []FilesNotShared
<1>1. FilesInv => FilesNotShared
  BY DEF FilesInv
<1> QED
  BY <1>1, FilesAlways, PTL

\* A file announced with FileReceived has the declared size and stays.
THEOREM ReceivedFilesAreComplete == Spec => []ReceivedFileComplete
<1>1. FilesInv => ReceivedFileComplete
  BY DEF FilesInv, FilesNotShared, CountsBounded, ReceivedFileComplete
<1> QED
  BY <1>1, FilesAlways, PTL

\* What was in the directory before is neither overwritten nor removed.
THEOREM UserFilesAreKept == Spec => []UserFilesKept
<1>1. FilesInv => UserFilesKept
  BY DEF FilesInv
<1> QED
  BY <1>1, FilesAlways, PTL

-----------------------------------------------------------------------------
(* Sessions.  TransferCompleted is sent outside the lock, by a handler that  *)
(* found its session gone or empty; what makes it truthful is why the        *)
(* session went, which other handlers decided.                               *)

\* Nothing is known of a session before its prepare-upload.
UnusedIsFresh ==
  \A s \in Sessions : prep[s] = "unused" => sent[s] = << >> /\ s \notin active

\* Uploads belong to accepted sessions and write offered files.
UploadsInvited ==
  \A u \in Uploads :
    /\ pc[u] # "idle" => prep[SessionOf(u)] = "accepted"
    /\ pc[u] \in Live \cup Stored => FileOf(u) \in tokens[SessionOf(u)]

\* A file is taken off its session only after FileReceived was sent for it.
TakenAreSent ==
  /\ \A s \in active : \A f \in tokens[s] \ pending[s] : Sent(s, Received(f))
  /\ \A u \in Uploads :
       pc[u] = "account" => Sent(SessionOf(u), Received(FileOf(u)))

\* A handler outlives its session only when everything has been received or
\* something tore the session down; and nothing is announced before.
OrphansExplained ==
  \A u \in Uploads :
    /\ pc[u] = "announce" => SessionOf(u) \notin active
    /\ pc[u] \in Live /\ SessionOf(u) \notin active =>
         AllReceived(SessionOf(u)) \/ TornDown(SessionOf(u))

SessionsInv ==
  /\ TypeOK
  /\ UnusedIsFresh
  /\ UploadsInvited
  /\ TakenAreSent
  /\ OrphansExplained
  /\ CompletionIsTruthful

LEMMA AppendSent ==
  ASSUME TypeOK, NEW s \in Sessions, NEW e \in Event,
         sent'[s] = Append(sent[s], e)
  PROVE  \A x : Sent(s, x)' <=> Sent(s, x) \/ x = e
<1>1. sent[s] \in Seq(Event)
  BY DEF TypeOK
<1>2. /\ DOMAIN sent'[s] = 1 .. Len(sent[s]) + 1
      /\ \A i \in 1 .. Len(sent[s]) : sent'[s][i] = sent[s][i]
      /\ sent'[s][Len(sent[s]) + 1] = e
  BY <1>1
<1>3. DOMAIN sent[s] = 1 .. Len(sent[s]) /\ Len(sent[s]) \in Nat
  BY <1>1
<1>4. ASSUME NEW x, Sent(s, x)
      PROVE  Sent(s, x)'
  <2>1. PICK i \in DOMAIN sent[s] : sent[s][i] = x
    BY <1>4 DEF Sent
  <2>2. i \in DOMAIN sent'[s] /\ sent'[s][i] = x
    BY <1>2, <1>3, <2>1
  <2> QED
    BY <2>2 DEF Sent
<1>5. Sent(s, e)'
  <2>1. Len(sent[s]) + 1 \in DOMAIN sent'[s]
    BY <1>2, <1>3
  <2> QED
    BY <1>2, <2>1 DEF Sent
<1>6. ASSUME NEW x, Sent(s, x)', x # e
      PROVE  Sent(s, x)
  <2>1. PICK i \in DOMAIN sent'[s] : sent'[s][i] = x
    BY <1>6 DEF Sent
  <2>2. i \in 1 .. Len(sent[s])
    BY <1>2, <1>3, <1>6, <2>1
  <2> QED
    BY <1>2, <1>3, <2>1, <2>2 DEF Sent
<1> QED
  BY <1>4, <1>5, <1>6

LEMMA EmitSent ==
  ASSUME TypeOK, NEW s \in Sessions, NEW e \in Event, Emit(s, e)
  PROVE  \A x \in Sessions : \A y :
           Sent(x, y)' <=> Sent(x, y) \/ (x = s /\ y = e)
<1>1. sent'[s] = Append(sent[s], e)
  BY DEF Emit, TypeOK
<1>2. \A x \in Sessions \ {s} : sent'[x] = sent[x]
  BY DEF Emit, TypeOK
<1> QED
  BY <1>1, <1>2, AppendSent DEF Sent

\* What a step can add to the events: at most one event for each session, and
\* TransferCompleted only by AnnounceCompletion.
LEMMA EventsOfStep ==
  ASSUME TypeOK, [Next]_vars, NEW s \in Sessions
  PROVE  \/ sent'[s] = sent[s]
         \/ \E e \in Event :
              /\ sent'[s] = Append(sent[s], e)
              /\ prep[s] # "unused" \/ s \in active
                 \/ \E u \in Uploads : pc[u] # "idle" /\ s = SessionOf(u)
              /\ e = Completed =>
                   \E u \in Uploads : pc[u] = "announce" /\ s = SessionOf(u)
<1> USE EventsTyped
<1> DEFINE Goal ==
      \/ sent'[s] = sent[s]
      \/ \E e \in Event :
           /\ sent'[s] = Append(sent[s], e)
           /\ prep[s] # "unused" \/ s \in active
              \/ \E u \in Uploads : pc[u] # "idle" /\ s = SessionOf(u)
           /\ e = Completed =>
                \E u \in Uploads : pc[u] = "announce" /\ s = SessionOf(u)
<1>0. ASSUME NEW x \in Sessions, NEW e \in Event, Emit(x, e),
             \/ prep[x] # "unused"
             \/ \E u \in Uploads : pc[u] # "idle" /\ x = SessionOf(u),
             e = Completed =>
               \E u \in Uploads : pc[u] = "announce" /\ x = SessionOf(u)
      PROVE  Goal
  BY <1>0 DEF Emit, TypeOK
<1>1. \A f \in FileIds : /\ Received(f) # Completed
                         /\ Failed(f) # Completed
  BY DEF Received, Failed, Completed
<1>2. Declined # Completed /\ Cancelled # Completed
  BY DEF Declined, Cancelled, Completed
<1>3. CASE sent' = sent
  BY <1>3
<1>4. ASSUME NEW x \in Sessions,
             ReplyPrepare(x) \/ CancelSession(x)
      PROVE  Goal
  <2>1. \/ sent' = sent
        \/ Emit(x, Declined) \/ Emit(x, Cancelled)
    BY <1>4 DEF ReplyPrepare, CancelSession
  <2>2. prep[x] # "unused"
    BY <1>4 DEF ReplyPrepare, CancelSession
  <2> QED
    BY <1>0, <1>2, <1>3, <2>1, <2>2
<1>5. ASSUME NEW x \in Sessions, CancelAll(x)
      PROVE  Goal
  BY <1>2, <1>5 DEF CancelAll
<1>6. ASSUME NEW u \in Uploads, UploadStep(u)
      PROVE  Goal
  <2>1. /\ pc[u] # "idle"
        /\ \/ sent' = sent
           \/ \E f \in FileIds :
                Emit(SessionOf(u), Failed(f)) \/ Emit(SessionOf(u), Received(f))
           \/ pc[u] = "announce" /\ Emit(SessionOf(u), Completed)
    <3>1. pc[u] # "idle"
      BY <1>6 DEF UploadStep, CreateDestination, CheckSession, ReceiveChunk,
                  WriteFails, StreamEnds, StreamBreaks, RemoveFile, Flush,
                  AccountFile, AnnounceCompletion
    <3>2. FileOf(u) \in FileIds
      BY <3>1, Started
    <3> QED
      BY <1>6, <3>1, <3>2
         DEF UploadStep, CreateDestination, CheckSession, ReceiveChunk,
             WriteFails, StreamEnds, StreamBreaks, RemoveFile, Flush,
             AccountFile, AnnounceCompletion
  <2>2. SessionOf(u) \in Sessions
    BY <2>1, Started
  <2> QED
    BY <1>0, <1>1, <1>3, <2>1, <2>2
<1>7. ASSUME NEW x \in Sessions,
             \/ \E offered \in SUBSET FileIds : PrepareUpload(x, offered)
             \/ \E accepted \in BOOLEAN : AnswerRequest(x, accepted)
             \/ DropPrepare(x)
      PROVE  sent' = sent
  BY <1>7 DEF PrepareUpload, AnswerRequest, DropPrepare
<1>8. ASSUME NEW u \in Uploads,
             \/ \E x \in Sessions : \E f, t \in FileIds : StartUpload(u, x, f, t)
             \/ DropUpload(u)
      PROVE  sent' = sent
  BY <1>8 DEF StartUpload, DropUpload
<1>9. CASE Restart \/ UNCHANGED vars
  BY <1>3, <1>9 DEF Restart, vars
<1> QED
  BY <1>3, <1>4, <1>5, <1>6, <1>7, <1>8, <1>9 DEF Next

LEMMA SentStays ==
  ASSUME TypeOK, [Next]_vars, NEW s \in Sessions, NEW e, Sent(s, e)
  PROVE  Sent(s, e)'
<1>1. CASE sent'[s] = sent[s]
  BY <1>1 DEF Sent
<1>2. CASE \E x \in Event : sent'[s] = Append(sent[s], x)
  BY <1>2, AppendSent
<1> QED
  BY <1>1, <1>2, EventsOfStep

\* The table of sessions: who enters, and who leaves with what excuse.
LEMMA SessionsOfStep ==
  ASSUME TypeOK, [Next]_vars
  PROVE  /\ \A s \in Sessions : prep[s] # "unused" =>
              /\ prep'[s] # "unused"
              /\ tokens'[s] = tokens[s]
              /\ s \in active' => s \in active
         /\ \A s \in Sessions : prep[s] = "accepted" => prep'[s] = "accepted"
         /\ \A s \in Sessions : prep'[s] = "unused" =>
              prep[s] = "unused" /\ (s \in active' => s \in active)
<1> USE DEF sessionVars
<1> DEFINE Goal ==
      /\ \A s \in Sessions : prep[s] # "unused" =>
           /\ prep'[s] # "unused"
           /\ tokens'[s] = tokens[s]
           /\ s \in active' => s \in active
      /\ \A s \in Sessions : prep[s] = "accepted" => prep'[s] = "accepted"
      /\ \A s \in Sessions : prep'[s] = "unused" =>
           prep[s] = "unused" /\ (s \in active' => s \in active)
<1>0. ASSUME prep' = prep, active' \subseteq active, tokens' = tokens
      PROVE  Goal
  BY <1>0
<1>1. ASSUME NEW x \in Sessions, NEW offered \in SUBSET FileIds,
             PrepareUpload(x, offered)
      PROVE  Goal
  <2>1. /\ prep[x] = "unused"
        /\ prep' = [prep EXCEPT ![x] = "waiting"]
        /\ active' = active \cup {x}
        /\ tokens' = [tokens EXCEPT ![x] = offered]
    BY <1>1 DEF PrepareUpload
  <2> QED
    BY <2>1 DEF TypeOK
<1>2. ASSUME NEW x \in Sessions,
             \/ \E accepted \in BOOLEAN : AnswerRequest(x, accepted)
             \/ ReplyPrepare(x) \/ DropPrepare(x)
             \/ CancelSession(x) \/ CancelAll(x)
      PROVE  Goal
  <2>1. /\ \/ prep' = prep
           \/ /\ prep[x] \in Waiting
              /\ \E p \in Phases \ {"unused"} : prep' = [prep EXCEPT ![x] = p]
        /\ active' \subseteq active
        /\ tokens' = tokens
    BY <1>2 DEF AnswerRequest, ReplyPrepare, DropPrepare, CancelSession,
                CancelAll, Forget
  <2>2. CASE prep' = prep
    BY <1>0, <2>1, <2>2
  <2>3. CASE prep' # prep
    <3>1. PICK p \in Phases \ {"unused"} : prep' = [prep EXCEPT ![x] = p]
      BY <2>1, <2>3
    <3> QED
      BY <2>1, <2>3, <3>1 DEF TypeOK
  <2> QED
    BY <2>2, <2>3
<1>3. ASSUME NEW u \in Uploads, UploadStep(u) \/ DropUpload(u)
      PROVE  Goal
  BY <1>0, <1>3 DEF UploadStep, CreateDestination, CheckSession, ReceiveChunk,
     WriteFails, StreamEnds, StreamBreaks, RemoveFile, Flush, AccountFile,
     AnnounceCompletion, DropUpload, Forget
<1>4. ASSUME NEW u \in Uploads, NEW x \in Sessions,
             NEW f \in FileIds, NEW t \in FileIds, StartUpload(u, x, f, t)
      PROVE  Goal
  BY <1>0, <1>4 DEF StartUpload
<1>5. CASE Restart
  BY <1>5 DEF Restart, TypeOK
<1>6. CASE UNCHANGED vars
  BY <1>0, <1>6 DEF vars
<1> QED
  BY <1>1, <1>2, <1>3, <1>4, <1>5, <1>6 DEF Next

LEMMA AllReceivedStays ==
  ASSUME TypeOK, [Next]_vars, NEW s \in Sessions, prep[s] # "unused",
         AllReceived(s)
  PROVE  AllReceived(s)'
<1>1. tokens'[s] = tokens[s]
  BY SessionsOfStep
<1>2. \A f \in tokens[s] : Sent(s, Received(f)) => Sent(s, Received(f))'
  BY SentStays
<1> QED
  BY <1>1, <1>2 DEF AllReceived, Received

LEMMA TornDownStays ==
  ASSUME TypeOK, [Next]_vars, NEW s \in Sessions, TornDown(s)
  PROVE  TornDown(s)'
<1>1. CASE Sent(s, Cancelled)
  BY <1>1, SentStays DEF TornDown, Cancelled
<1>2. ASSUME NEW f \in FileIds, Sent(s, Failed(f))
      PROVE  TornDown(s)'
  BY <1>2, SentStays DEF TornDown, Failed
<1>3. ASSUME NEW u \in Uploads,
             pc[u] \in {"undo", "undo_flush", "dropped"}, SessionOf(u) = s
      PROVE  TornDown(s)'
  <2> DEFINE Removes == RemoveFile(u) /\ pc[u] \in {"undo", "undo_flush"}
             Remains == /\ pc'[u] \in {"undo", "undo_flush", "dropped"}
                        /\ query'[u] = query[u]
  <2>1. FileOf(u) \in FileIds
    BY <1>3, Started
  <2>2. CASE Removes
    <3>1. Emit(s, Failed(FileOf(u)))
      BY <1>3, <2>2 DEF RemoveFile
    <3>2. PICK f \in FileIds : f = FileOf(u)
      BY <2>1
    <3>3. Sent(s, Failed(f))'
      BY <3>1, <3>2, EmitSent, EventsTyped
    <3> QED
      BY <3>3 DEF TornDown, Failed
  <2>3. CASE Remains
    BY <1>3, <2>3 DEF TornDown, SessionOf
  <2>4. Removes \/ Remains
    <3>1. ASSUME UploadStep(u) \/ DropUpload(u)
          PROVE  Removes \/ Remains
      BY <1>3, <3>1 DEF TypeOK, UploadStep, CreateDestination,
         CheckSession, ReceiveChunk, WriteFails, StreamEnds, StreamBreaks,
         RemoveFile, Flush, AccountFile, AnnounceCompletion, DropUpload, Goto
    <3>2. ASSUME NEW v \in Uploads \ {u}, UploadStep(v) \/ DropUpload(v)
          PROVE  Remains
      BY <1>3, <3>2 DEF TypeOK, UploadStep, CreateDestination,
         CheckSession, ReceiveChunk, WriteFails, StreamEnds, StreamBreaks,
         RemoveFile, Flush, AccountFile, AnnounceCompletion, DropUpload, Goto
    <3>3. ASSUME NEW v \in Uploads, NEW x \in Sessions, NEW f \in FileIds,
                 NEW t \in FileIds, StartUpload(v, x, f, t)
          PROVE  Remains
      BY <1>3, <3>3 DEF TypeOK, StartUpload, Goto
    <3>4. CASE UNCHANGED <<pc, query>>
      BY <1>3, <3>4
    <3>5. CASE Restart
      BY <1>3, <3>5 DEF Restart, TypeOK
    <3>6. ASSUME NEW x \in Sessions,
             \/ \E offered \in SUBSET FileIds : PrepareUpload(x, offered)
             \/ \E accepted \in BOOLEAN : AnswerRequest(x, accepted)
             \/ ReplyPrepare(x) \/ DropPrepare(x)
             \/ CancelSession(x) \/ CancelAll(x)
          PROVE  UNCHANGED <<pc, query>>
      BY <3>6 DEF PrepareUpload, AnswerRequest, ReplyPrepare, DropPrepare,
                  CancelSession, CancelAll, uploadVars
    <3>7. CASE UNCHANGED vars
      BY <3>4, <3>7 DEF vars
    <3> HIDE DEF Removes, Remains
    <3> QED
      BY <3>1, <3>2, <3>3, <3>4, <3>5, <3>6, <3>7 DEF Next
  <2> QED
    BY <2>2, <2>3, <2>4
<1> QED
  BY <1>1, <1>2, <1>3 DEF TornDown

\* What a step means for one upload.
LEMMA UploadsOfStep ==
  ASSUME TypeOK, [Next]_vars, NEW u \in Uploads
  PROVE  \/ pc'[u] = pc[u] /\ query'[u] = query[u]
         \/ /\ pc[u] = "idle"
            /\ \E s \in Sessions : \E f \in FileIds :
                 /\ prep[s] = "accepted"
                 /\ query'[u] = [session |-> s, file |-> f]
                 /\ pc'[u] \in {"create", "FORBIDDEN", "NOT_FOUND"}
                 /\ pc'[u] = "create" =>
                      s \in active' /\ f \in tokens[s] /\ f \in pending'[s]
         \/ UploadStep(u) \/ DropUpload(u)
         \/ Restart
<1> DEFINE Same == pc'[u] = pc[u] /\ query'[u] = query[u]
<1>1. ASSUME NEW v \in Uploads \ {u}, UploadStep(v) \/ DropUpload(v)
      PROVE  Same
  BY <1>1 DEF TypeOK, UploadStep, CreateDestination,
     CheckSession, ReceiveChunk, WriteFails, StreamEnds, StreamBreaks,
     RemoveFile, Flush, AccountFile, AnnounceCompletion, DropUpload, Goto
<1>2. ASSUME NEW v \in Uploads \ {u}, NEW s \in Sessions,
             NEW f \in FileIds, NEW t \in FileIds, StartUpload(v, s, f, t)
      PROVE  Same
  BY <1>2 DEF TypeOK, StartUpload, Goto
<1>3. ASSUME NEW s \in Sessions, NEW f \in FileIds, NEW t \in FileIds,
             StartUpload(u, s, f, t)
      PROVE  /\ pc[u] = "idle"
             /\ prep[s] = "accepted"
             /\ query'[u] = [session |-> s, file |-> f]
             /\ pc'[u] \in {"create", "FORBIDDEN", "NOT_FOUND"}
             /\ pc'[u] = "create" =>
                  s \in active' /\ f \in tokens[s] /\ f \in pending'[s]
  <2>1. /\ LookUp(s, f, t) \in {"create", "FORBIDDEN", "NOT_FOUND"}
        /\ LookUp(s, f, t) = "create" =>
             s \in active /\ f \in tokens[s] /\ f \in pending[s]
    BY DEF LookUp
  <2> QED
    BY <1>3, <2>1 DEF StartUpload, Goto, TypeOK, sessionVars
<1>4. ASSUME NEW x \in Sessions,
             \/ \E offered \in SUBSET FileIds : PrepareUpload(x, offered)
             \/ \E accepted \in BOOLEAN : AnswerRequest(x, accepted)
             \/ ReplyPrepare(x) \/ DropPrepare(x)
             \/ CancelSession(x) \/ CancelAll(x)
      PROVE  Same
  BY <1>4 DEF PrepareUpload, AnswerRequest, ReplyPrepare, DropPrepare,
              CancelSession, CancelAll, uploadVars
<1>5. ASSUME UNCHANGED vars
      PROVE  Same
  BY <1>5 DEF vars
<1> HIDE DEF Same
<1>6. \/ Same \/ UploadStep(u) \/ DropUpload(u) \/ Restart
      \/ \E s \in Sessions : \E f, t \in FileIds : StartUpload(u, s, f, t)
  BY <1>1, <1>2, <1>4, <1>5 DEF Next
<1> QED
  BY <1>3, <1>6 DEF Same

\* An upload that has announced its file stays announced.
LEMMA StoredStays ==
  ASSUME TypeOK, [Next]_vars, NEW u \in Uploads, pc[u] \in Stored
  PROVE  pc'[u] \in Stored /\ query'[u] = query[u]
<1>1. CASE UploadStep(u) \/ DropUpload(u)
  BY <1>1 DEF TypeOK, UploadStep, CreateDestination, CheckSession,
     ReceiveChunk, WriteFails, StreamEnds, StreamBreaks, RemoveFile, Flush,
     AccountFile, AnnounceCompletion, DropUpload, Goto
<1>2. CASE Restart
  BY <1>2 DEF TypeOK, Restart
<1> QED
  BY <1>1, <1>2, UploadsOfStep

\* The files a session still waits for.
LEMMA PendingOfStep ==
  ASSUME TypeOK, [Next]_vars, NEW s \in active'
  PROVE  \/ pending'[s] = tokens'[s]
         \/ /\ s \in active /\ tokens'[s] = tokens[s]
            /\ \/ pending'[s] = pending[s]
               \/ \E u \in Uploads : /\ pc[u] = "account" /\ SessionOf(u) = s
                                     /\ pending'[s] = pending[s] \ {FileOf(u)}
<1> DEFINE Same == /\ active' \subseteq active
                   /\ pending' = pending /\ tokens' = tokens
             Goal == \/ pending'[s] = tokens'[s]
                     \/ /\ s \in active /\ tokens'[s] = tokens[s]
                        /\ \/ pending'[s] = pending[s]
                           \/ \E u \in Uploads :
                                /\ pc[u] = "account" /\ SessionOf(u) = s
                                /\ pending'[s] = pending[s] \ {FileOf(u)}
<1> USE DEF sessionVars, Forget
<1>1. ASSUME NEW x \in Sessions, NEW offered \in SUBSET FileIds,
             PrepareUpload(x, offered)
      PROVE  Goal
  BY <1>1 DEF PrepareUpload, TypeOK
<1>2. ASSUME NEW x \in Sessions,
             \/ \E accepted \in BOOLEAN : AnswerRequest(x, accepted)
             \/ ReplyPrepare(x) \/ DropPrepare(x)
             \/ CancelSession(x) \/ CancelAll(x)
      PROVE  Same
  BY <1>2 DEF AnswerRequest, ReplyPrepare, DropPrepare, CancelSession,
              CancelAll
<1>3. ASSUME NEW u \in Uploads, AccountFile(u)
      PROVE  Goal
  <2>1. pc[u] = "account" /\ active' \subseteq active /\ tokens' = tokens
    BY <1>3 DEF AccountFile
  <2>2. CASE pending' = [pending EXCEPT ![SessionOf(u)] = Left(u)]
    BY <2>1, <2>2 DEF Left, TypeOK
  <2>3. CASE pending' = pending
    BY <2>1, <2>3
  <2> QED
    BY <1>3, <2>2, <2>3 DEF AccountFile
<1>4. ASSUME NEW u \in Uploads,
             \/ UploadStep(u) /\ ~AccountFile(u)
             \/ DropUpload(u)
             \/ \E x \in Sessions : \E f, t \in FileIds : StartUpload(u, x, f, t)
      PROVE  Same
  BY <1>4 DEF UploadStep, CreateDestination, CheckSession, ReceiveChunk,
     WriteFails, StreamEnds, StreamBreaks, RemoveFile, Flush,
     AnnounceCompletion, DropUpload, StartUpload
<1>5. ASSUME Restart PROVE Goal
  BY <1>5 DEF Restart
<1>6. ASSUME UNCHANGED vars PROVE Same
  BY <1>6 DEF vars
<1>7. Same => Goal
  OBVIOUS
<1> HIDE DEF Same, Goal
<1>8. Goal
  BY <1>1, <1>2, <1>3, <1>4, <1>5, <1>6, <1>7 DEF Next
<1> QED
  BY <1>8 DEF Goal

\* What takes a session off the table without tearing it down is the handler
\* that finds nothing left in it.
LEMMA LeavesComplete ==
  ASSUME SessionsInv, [Next]_vars, ~Restart,
         NEW s \in active, s \notin active'
  PROVE  TornDown(s)' \/ \E u \in Uploads : AccountFile(u) /\ SessionOf(u) = s
<1> USE DEF sessionVars, Forget
<1>0. TypeOK /\ s \in Sessions
  BY DEF SessionsInv, TypeOK
<1>1. CASE CancelSession(s)
  BY <1>0, <1>1, EmitSent, EventsTyped DEF CancelSession, TornDown, Cancelled
<1>2. ASSUME NEW x \in Sessions, CancelAll(x)
      PROVE  TornDown(s)'
  <2>1. sent'[s] = Append(sent[s], Cancelled)
    BY <1>0, <1>2 DEF CancelAll
  <2>2. Sent(s, Cancelled)'
    BY <1>0, <2>1, AppendSent, EventsTyped DEF Cancelled
  <2> QED
    BY <2>2 DEF TornDown
<1>3. ASSUME NEW u \in Uploads, UploadStep(u), ~AccountFile(u)
      PROVE  TornDown(s)'
  <2>1. /\ SessionOf(u) = s
        /\ pc'[u] \in {"undo", "undo_flush"}
        /\ query' = query
    BY <1>0, <1>3
       DEF UploadStep, CreateDestination, CheckSession, ReceiveChunk,
           WriteFails, StreamEnds, StreamBreaks, RemoveFile, Flush,
           AnnounceCompletion, Goto, TypeOK
  <2> QED
    BY <2>1 DEF TornDown, SessionOf
<1>4. ASSUME NEW u \in Uploads, AccountFile(u)
      PROVE  SessionOf(u) = s
  BY <1>4 DEF AccountFile
<1>5. ASSUME NEW x \in Sessions,
             \/ \E offered \in SUBSET FileIds : PrepareUpload(x, offered)
             \/ \E accepted \in BOOLEAN : AnswerRequest(x, accepted)
             \/ ReplyPrepare(x) \/ DropPrepare(x)
             \/ x # s /\ CancelSession(x)
      PROVE  s \in active'
  BY <1>5 DEF PrepareUpload, AnswerRequest, ReplyPrepare, DropPrepare,
              CancelSession
<1>6. ASSUME NEW u \in Uploads,
             \/ \E x \in Sessions : \E f, t \in FileIds : StartUpload(u, x, f, t)
             \/ DropUpload(u)
      PROVE  s \in active'
  BY <1>6 DEF StartUpload, DropUpload
<1>7. ~UNCHANGED vars
  BY DEF vars
<1> QED
  BY <1>1, <1>2, <1>3, <1>4, <1>5, <1>6, <1>7 DEF Next

\* A session leaves the table when it is complete or torn down.
LEMMA LeavingExplained ==
  ASSUME SessionsInv, [Next]_vars, ~Restart,
         NEW s \in active, s \notin active'
  PROVE  AllReceived(s)' \/ TornDown(s)'
<1> USE DEF Forget
<1>0. TypeOK /\ s \in Sessions
  BY DEF SessionsInv, TypeOK
<1>1. ASSUME NEW u \in Uploads, AccountFile(u)
      PROVE  AllReceived(s)'
  <2>1. /\ SessionOf(u) = s /\ Left(u) = {} /\ pc[u] = "account"
        /\ tokens' = tokens
    BY <1>1 DEF AccountFile
  <2>2. \A f \in tokens[s] : Sent(s, Received(f))
    BY <2>1 DEF SessionsInv, TakenAreSent, Left
  <2>3. AllReceived(s) /\ prep[s] # "unused"
    BY <1>0, <2>2 DEF AllReceived, SessionsInv, UnusedIsFresh
  <2> QED
    BY <1>0, <2>3, AllReceivedStays
<1> QED
  BY <1>1, LeavesComplete

LEMMA RestartEndsUploads ==
  ASSUME TypeOK, Restart, NEW u \in Uploads
  PROVE  pc'[u] \notin Live
<1>1. pc[u] \in Places
  BY DEF TypeOK
<1>2. CASE pc[u] \in Live \ Stored
  BY <1>2 DEF Restart
<1>3. CASE pc[u] \in Live \cap Stored
  BY <1>3 DEF Restart
<1>4. CASE pc[u] \notin Live
  BY <1>4 DEF Restart
<1> QED
  BY <1>2, <1>3, <1>4

LEMMA SessionsInit == Init => SessionsInv
<1> SUFFICES ASSUME Init PROVE SessionsInv
  OBVIOUS
<1>1. TypeOK
  BY TypeInit
<1>2. \A u \in Uploads : pc[u] = "idle"
  BY DEF Init
<1>3. UnusedIsFresh /\ active = {}
  BY DEF Init, UnusedIsFresh
<1>4. CompletionIsTruthful
  BY DEF Init, CompletionIsTruthful, Sent
<1> QED
  BY <1>1, <1>2, <1>3, <1>4
     DEF SessionsInv, UploadsInvited, TakenAreSent, OrphansExplained

LEMMA UnusedStayFresh == SessionsInv /\ [Next]_vars => UnusedIsFresh'
<1> SUFFICES ASSUME SessionsInv, [Next]_vars, NEW s \in Sessions,
                    prep'[s] = "unused"
             PROVE  sent'[s] = << >> /\ s \notin active'
  BY DEF UnusedIsFresh
<1>1. TypeOK
  BY DEF SessionsInv
<1>2. prep[s] = "unused" /\ sent[s] = << >> /\ s \notin active
  BY <1>1, SessionsOfStep DEF SessionsInv, UnusedIsFresh
<1>3. s \notin active'
  BY <1>1, <1>2, SessionsOfStep
<1>4. sent'[s] = sent[s]
  BY <1>1, <1>2, EventsOfStep DEF SessionsInv, UploadsInvited
<1> QED
  BY <1>2, <1>3, <1>4

LEMMA UploadsStayInvited == SessionsInv /\ [Next]_vars => UploadsInvited'
<1> SUFFICES ASSUME SessionsInv, [Next]_vars, NEW u \in Uploads,
                    pc'[u] # "idle"
             PROVE  /\ prep'[SessionOf(u)'] = "accepted"
                    /\ pc'[u] \in Live \cup Stored =>
                         FileOf(u)' \in tokens'[SessionOf(u)']
  BY DEF UploadsInvited
<1>1. TypeOK
  BY DEF SessionsInv
<1>2. CASE /\ query'[u] = query[u] /\ pc[u] # "idle"
           /\ pc'[u] \in Live \cup Stored => pc[u] \in Live \cup Stored
  <2>1. SessionOf(u)' = SessionOf(u) /\ FileOf(u)' = FileOf(u)
    BY <1>2 DEF SessionOf, FileOf
  <2>2. SessionOf(u) \in Sessions /\ prep[SessionOf(u)] = "accepted"
    BY <1>1, <1>2, Started DEF SessionsInv, UploadsInvited
  <2>3. /\ prep'[SessionOf(u)] = "accepted"
        /\ tokens'[SessionOf(u)] = tokens[SessionOf(u)]
    BY <1>1, <2>2, SessionsOfStep
  <2> QED
    BY <1>2, <2>1, <2>3 DEF SessionsInv, UploadsInvited
<1>3. ASSUME NEW s \in Sessions, NEW f \in FileIds,
             prep[s] = "accepted",
             query'[u] = [session |-> s, file |-> f],
             pc'[u] \in {"create", "FORBIDDEN", "NOT_FOUND"},
             pc'[u] = "create" => s \in active' /\ f \in tokens[s]
      PROVE  /\ prep'[SessionOf(u)'] = "accepted"
             /\ pc'[u] \in Live \cup Stored =>
                  FileOf(u)' \in tokens'[SessionOf(u)']
  <2>1. SessionOf(u)' = s /\ FileOf(u)' = f
    BY <1>3 DEF SessionOf, FileOf
  <2>2. prep'[s] = "accepted" /\ tokens'[s] = tokens[s]
    BY <1>1, <1>3, SessionsOfStep
  <2> QED
    BY <1>3, <2>1, <2>2
<1>4. CASE UploadStep(u) \/ DropUpload(u)
  <2>1. /\ query' = query /\ pc[u] # "idle"
        /\ pc'[u] \in Live \cup Stored => pc[u] \in Live \cup Stored
    BY <1>1, <1>4 DEF TypeOK, UploadStep, CreateDestination,
       CheckSession, ReceiveChunk, WriteFails, StreamEnds, StreamBreaks,
       RemoveFile, Flush, AccountFile, AnnounceCompletion, DropUpload, Goto
  <2> QED
    BY <1>2, <2>1
<1>5. CASE Restart
  <2>1. /\ query' = query /\ pc[u] # "idle"
        /\ pc'[u] \in Live \cup Stored => pc[u] \in Live \cup Stored
    BY <1>1, <1>5 DEF TypeOK, Restart
  <2> QED
    BY <1>2, <2>1
<1>6. CASE pc'[u] = pc[u] /\ query'[u] = query[u]
  BY <1>2, <1>6
<1> QED
  BY <1>1, <1>3, <1>4, <1>5, <1>6, UploadsOfStep

LEMMA TakenStaySent == SessionsInv /\ [Next]_vars => TakenAreSent'
<1> SUFFICES ASSUME SessionsInv, [Next]_vars PROVE TakenAreSent'
  OBVIOUS
<1>1. TypeOK /\ TypeOK'
  BY TypeStep DEF SessionsInv
<1>2. ASSUME NEW s \in active', NEW f \in tokens'[s] \ pending'[s]
      PROVE  Sent(s, Received(f))'
  <2>1. s \in active /\ tokens'[s] = tokens[s] /\ s \in Sessions
    BY <1>1, <1>2, PendingOfStep DEF TypeOK
  <2>2. Sent(s, Received(f))
    BY <1>1, <1>2, <2>1, PendingOfStep DEF SessionsInv, TakenAreSent
  <2> QED
    BY <1>1, <2>1, <2>2, SentStays DEF Received
<1>3. ASSUME NEW u \in Uploads, pc'[u] = "account"
      PROVE  Sent(SessionOf(u), Received(FileOf(u)))'
  <2>1. CASE Flush(u)
    <3>1. PICK s \in Sessions, f \in FileIds : s = SessionOf(u) /\ f = FileOf(u)
      BY <1>1, <2>1, Started DEF Flush
    <3>2. Emit(s, Received(f))
      BY <1>1, <1>3, <2>1, <3>1 DEF Flush, Goto, TypeOK
    <3>3. Sent(s, Received(f))'
      BY <1>1, <3>2, EmitSent, EventsTyped DEF Received
    <3>4. SessionOf(u)' = s /\ FileOf(u)' = f
      BY <2>1, <3>1 DEF Flush, SessionOf, FileOf
    <3> QED
      BY <3>3, <3>4 DEF Sent, Received
  <2>2. CASE pc[u] = "account" /\ query'[u] = query[u]
    <3>1. PICK s \in Sessions, f \in FileIds : s = SessionOf(u) /\ f = FileOf(u)
      BY <1>1, <2>2, Started
    <3>2. Sent(s, Received(f))
      BY <2>2, <3>1 DEF SessionsInv, TakenAreSent
    <3>3. Sent(s, Received(f))'
      BY <1>1, <3>2, SentStays DEF Received
    <3>4. SessionOf(u)' = s /\ FileOf(u)' = f
      BY <2>2, <3>1 DEF SessionOf, FileOf
    <3> QED
      BY <3>3, <3>4 DEF Sent, Received
  <2>3. CASE UploadStep(u) \/ DropUpload(u)
    <3>1. Flush(u)
      BY <1>1, <1>3, <2>3 DEF TypeOK, UploadStep, CreateDestination,
         CheckSession, ReceiveChunk, WriteFails, StreamEnds, StreamBreaks,
         RemoveFile, AccountFile, AnnounceCompletion, DropUpload, Goto
    <3> QED
      BY <2>1, <3>1
  <2>4. ~Restart
    BY <1>1, <1>3, RestartEndsUploads
  <2> QED
    BY <1>1, <1>3, <2>1, <2>2, <2>3, <2>4, UploadsOfStep
<1> QED
  BY <1>2, <1>3 DEF TakenAreSent

LEMMA OrphansStayExplained == SessionsInv /\ [Next]_vars => OrphansExplained'
<1> SUFFICES ASSUME SessionsInv, [Next]_vars, NEW u \in Uploads
             PROVE  /\ pc'[u] = "announce" => SessionOf(u)' \notin active'
                    /\ pc'[u] \in Live /\ SessionOf(u)' \notin active' =>
                         AllReceived(SessionOf(u))' \/ TornDown(SessionOf(u))'
  BY DEF OrphansExplained
<1>1. TypeOK
  BY DEF SessionsInv
<1>2. CASE pc'[u] \in Live /\ pc[u] \in Live /\ query'[u] = query[u]
  <2>1. PICK s \in Sessions : s = SessionOf(u) /\ s = SessionOf(u)'
    BY <1>1, <1>2, Started DEF SessionOf
  <2>2. prep[s] # "unused"
    BY <1>2, <2>1 DEF SessionsInv, UploadsInvited
  <2>3. ~Restart
    BY <1>1, <1>2, RestartEndsUploads
  <2>4. ASSUME s \notin active'
        PROVE  AllReceived(s)' \/ TornDown(s)'
    <3>1. CASE s \in active
      BY <2>3, <2>4, <3>1, LeavingExplained
    <3>2. CASE s \notin active
      <4>1. AllReceived(s) \/ TornDown(s)
        BY <1>2, <2>1, <3>2 DEF SessionsInv, OrphansExplained
      <4> QED
        BY <1>1, <2>2, <4>1, AllReceivedStays, TornDownStays
    <3> QED
      BY <3>1, <3>2
  <2>5. pc'[u] = "announce" => s \notin active'
    <3>1. CASE pc[u] = "announce"
      BY <1>1, <2>1, <2>2, <3>1, SessionsOfStep
         DEF SessionsInv, OrphansExplained
    <3>2. CASE pc'[u] = "announce" /\ pc[u] # "announce"
      <4>1. AccountFile(u)
        <5>1. UploadStep(u) \/ DropUpload(u)
          BY <1>1, <1>2, <2>3, <3>2, UploadsOfStep
        <5> QED
          BY <1>1, <3>2, <5>1
             DEF TypeOK, UploadStep, CreateDestination, CheckSession,
                 ReceiveChunk, WriteFails, StreamEnds, StreamBreaks,
                 RemoveFile, Flush, AnnounceCompletion, DropUpload, Goto
      <4>2. pc'[u] = IF s \in active /\ Left(u) # {} THEN "OK" ELSE "announce"
        BY <1>1, <2>1, <4>1 DEF AccountFile, Goto, TypeOK
      <4>3. ~(s \in active /\ Left(u) # {})
        BY <3>2, <4>2
      <4> QED
        BY <2>1, <4>1, <4>3 DEF AccountFile, Forget
    <3> QED
      BY <3>1, <3>2
  <2>6. (AllReceived(s)' <=> AllReceived(SessionOf(u))')
        /\ (TornDown(s)' <=> TornDown(SessionOf(u))')
    BY <2>1 DEF AllReceived, TornDown, Sent
  <2> QED
    BY <2>1, <2>4, <2>5, <2>6
<1>3. CASE pc'[u] \notin Live
  BY <1>3
<1>4. ASSUME pc[u] = "idle", NEW s \in Sessions, NEW f \in FileIds,
             query'[u] = [session |-> s, file |-> f],
             pc'[u] \in {"create", "FORBIDDEN", "NOT_FOUND"},
             pc'[u] = "create" => s \in active' /\ f \in tokens[s]
      PROVE  /\ pc'[u] # "announce"
             /\ pc'[u] \in Live => SessionOf(u)' \in active'
  BY <1>4 DEF SessionOf
<1>5. CASE UploadStep(u) \/ DropUpload(u)
  <2>1. query' = query /\ (pc'[u] \in Live => pc[u] \in Live)
    BY <1>1, <1>5 DEF TypeOK, UploadStep, CreateDestination,
       CheckSession, ReceiveChunk, WriteFails, StreamEnds, StreamBreaks,
       RemoveFile, Flush, AccountFile, AnnounceCompletion, DropUpload, Goto
  <2> QED
    BY <1>2, <1>3, <2>1
<1>6. CASE Restart
  BY <1>1, <1>3, <1>6, RestartEndsUploads
<1>7. CASE pc'[u] = pc[u] /\ query'[u] = query[u]
  BY <1>2, <1>3, <1>7
<1> QED
  BY <1>1, <1>4, <1>5, <1>6, <1>7, UploadsOfStep

LEMMA CompletionStaysTruthful ==
  SessionsInv /\ [Next]_vars => CompletionIsTruthful'
<1> SUFFICES ASSUME SessionsInv, [Next]_vars, NEW s \in Sessions,
                    Sent(s, Completed)', ~TornDown(s)'
             PROVE  AllReceived(s)'
  BY DEF CompletionIsTruthful
<1>1. TypeOK
  BY DEF SessionsInv
<1>2. ~TornDown(s)
  BY <1>1, TornDownStays
<1>3. CASE Sent(s, Completed)
  <2>1. AllReceived(s)
    BY <1>2, <1>3 DEF SessionsInv, CompletionIsTruthful
  <2>2. prep[s] # "unused"
    BY <1>3 DEF SessionsInv, UnusedIsFresh, Sent
  <2> QED
    BY <1>1, <2>1, <2>2, AllReceivedStays
<1>4. CASE ~Sent(s, Completed)
  <2>1. PICK e \in Event :
          /\ sent'[s] = Append(sent[s], e)
          /\ e = Completed =>
               \E u \in Uploads : pc[u] = "announce" /\ s = SessionOf(u)
    <3>1. sent'[s] # sent[s]
      BY <1>4 DEF Sent, Completed
    <3> QED
      BY <1>1, <3>1, EventsOfStep
  <2>2. e = Completed
    BY <1>1, <1>4, <2>1, AppendSent DEF Completed
  <2>3. PICK u \in Uploads : pc[u] = "announce" /\ s = SessionOf(u)
    BY <2>1, <2>2
  <2>4. AllReceived(s) /\ prep[s] # "unused"
    BY <1>2, <2>3 DEF SessionsInv, OrphansExplained, UploadsInvited
  <2> QED
    BY <1>1, <2>4, AllReceivedStays
<1> QED
  BY <1>3, <1>4

LEMMA SessionsStep == SessionsInv /\ [Next]_vars => SessionsInv'
BY TypeStep, UnusedStayFresh, UploadsStayInvited, TakenStaySent,
   OrphansStayExplained, CompletionStaysTruthful DEF SessionsInv

LEMMA SessionsAlways == Spec => []SessionsInv
BY SessionsInit, SessionsStep, PTL DEF Spec

\* TransferCompleted never hides a missing file unless the session was torn
\* down: handlers of one session that overlap and finish in any order agree
\* on which of them is the last.
THEOREM CompletionIsAlwaysTruthful == Spec => []CompletionIsTruthful
<1>1. SessionsInv => CompletionIsTruthful
  BY DEF SessionsInv
<1> QED
  BY <1>1, SessionsAlways, PTL

-----------------------------------------------------------------------------
(* Accounts.  What was announced, what a session still waits for, and who    *)
(* calls it complete: a file leaves its session together with the handler    *)
(* that announced it, and the handler that takes the last one will announce  *)
(* the completion.                                                           *)

\* FileReceived is sent of exactly the files that uploads have stored.
ReceivedAreStored ==
  /\ \A u \in Uploads :
       pc[u] \in Stored => Sent(SessionOf(u), Received(FileOf(u)))
  /\ \A s \in Sessions : \A f \in FileIds : Sent(s, Received(f)) =>
       \E u \in Uploads : pc[u] \in Stored /\ query[u] = [session |-> s, file |-> f]

\* A handler that has replied has taken its file off the session or completed
\* it; a session that waits for no file has been completed, or will be unless
\* the process ends there.
FilesAccounted ==
  /\ \A u \in Uploads : pc[u] = "OK" =>
       Sent(SessionOf(u), Completed) \/ FileOf(u) \notin pending[SessionOf(u)]
  /\ \A s \in Sessions :
       prep[s] # "unused" /\ pending[s] = {} /\ tokens[s] # {} =>
         \/ Sent(s, Completed)
         \/ \E u \in Uploads : pc[u] \in {"announce", "cut"} /\ SessionOf(u) = s

AccountsInv == SessionsInv /\ ReceivedAreStored /\ FilesAccounted

Announcing(u, s) == pc[u] = "announce" /\ SessionOf(u) = s

\* Another upload has stored the file that v is about to store.
StoredBefore(v) ==
  \E w \in Uploads \ {v} : pc[w] \in Stored /\ query[w] = query[v]

\* While no file is stored twice and nothing tears the session down, the
\* handlers under way each have a file it waits for; one finds it empty.
Once(s) ==
  /\ \A v \in Uploads : pc[v] \in Live \ {"announce"} /\ SessionOf(v) = s =>
       FileOf(v) \in pending[s] \/ StoredBefore(v)
  /\ \A v \in Uploads : pc[v] \in Live /\ SessionOf(v) = s =>
       s \in active \/ pending[s] = {}
  /\ Sent(s, Completed) \/ (\E v \in Uploads : Announcing(v, s)) =>
       pending[s] = {}
  /\ \A u, v \in Uploads : Announcing(u, s) /\ Announcing(v, s) => u = v
  /\ Sent(s, Completed) => \A v \in Uploads : ~Announcing(v, s)
  /\ \A i, j \in DOMAIN sent[s] :
       sent[s][i] = Completed /\ sent[s][j] = Completed => i = j

OnceInv ==
  /\ SessionsInv
  /\ \A s \in Sessions : TornDown(s) \/ UploadedTwice(s) \/ Once(s)

\* Who says what: TransferCompleted is AnnounceCompletion's, FileReceived is
\* Flush's.
LEMMA TellsOfStep ==
  ASSUME TypeOK, [Next]_vars, NEW s \in Sessions
  PROVE  \/ sent'[s] = sent[s]
         \/ \E e \in Event : /\ sent'[s] = Append(sent[s], e)
                             /\ e # Completed /\ \A f : e # Received(f)
         \/ \E u \in Uploads : /\ AnnounceCompletion(u) /\ s = SessionOf(u)
                               /\ sent'[s] = Append(sent[s], Completed)
         \/ \E u \in Uploads : /\ Flush(u) /\ pc'[u] = "account"
                               /\ s = SessionOf(u)
                               /\ sent'[s] = Append(sent[s], Received(FileOf(u)))
<1> DEFINE Other(e)  == e # Completed /\ \A f : e # Received(f)
           Quiet     == \/ sent'[s] = sent[s]
                        \/ \E e \in Event : /\ sent'[s] = Append(sent[s], e)
                                            /\ Other(e)
           Closes(u) == /\ AnnounceCompletion(u) /\ s = SessionOf(u)
                        /\ sent'[s] = Append(sent[s], Completed)
           Stores(u) == /\ Flush(u) /\ pc'[u] = "account" /\ s = SessionOf(u)
                        /\ sent'[s] = Append(sent[s], Received(FileOf(u)))
<1>1. ASSUME NEW x \in Sessions, NEW e \in Event, Emit(x, e), Other(e)
      PROVE  Quiet
  BY <1>1 DEF Emit, TypeOK
<1>2. Other(Declined) /\ Other(Cancelled) /\ \A f \in FileIds : Other(Failed(f))
  BY DEF Declined, Cancelled, Failed, Completed, Received
<1>3. CASE sent' = sent
  BY <1>3
<1>4. ASSUME NEW x \in Sessions, ReplyPrepare(x) \/ CancelSession(x)
      PROVE  Quiet
  <2>1. sent' = sent \/ Emit(x, Declined) \/ Emit(x, Cancelled)
    BY <1>4 DEF ReplyPrepare, CancelSession
  <2> HIDE DEF Other, Quiet
  <2>2. sent' = sent => Quiet
    BY DEF Quiet
  <2> QED
    BY <1>1, <1>2, <2>1, <2>2, EventsTyped
<1>5. ASSUME NEW x \in Sessions, CancelAll(x)
      PROVE  Quiet
  BY <1>2, <1>5, EventsTyped DEF CancelAll
<1>6. ASSUME NEW u \in Uploads, UploadStep(u)
      PROVE  Quiet \/ Closes(u) \/ Stores(u)
  <2>1. pc[u] # "idle"
    BY <1>6 DEF UploadStep, CreateDestination, CheckSession, ReceiveChunk,
                WriteFails, StreamEnds, StreamBreaks, RemoveFile, Flush,
                AccountFile, AnnounceCompletion
  <2>2. SessionOf(u) \in Sessions /\ FileOf(u) \in FileIds
    BY <2>1, Started
  <2>3. CASE AnnounceCompletion(u)
    BY <2>2, <2>3 DEF AnnounceCompletion, Emit, TypeOK
  <2>4. CASE Flush(u) /\ Emit(SessionOf(u), Received(FileOf(u)))
    <3>1. pc'[u] = "account" \/ sent' = sent
      BY <2>4 DEF Flush, Goto, TypeOK
    <3>2. s = SessionOf(u) => sent'[s] = Append(sent[s], Received(FileOf(u)))
      BY <2>4 DEF Emit, TypeOK
    <3>3. s # SessionOf(u) => sent'[s] = sent[s]
      BY <2>4 DEF Emit, TypeOK
    <3> QED
      BY <2>4, <3>1, <3>2, <3>3
  <2>5. CASE sent' = sent \/ Emit(SessionOf(u), Failed(FileOf(u)))
    <3> HIDE DEF Other, Quiet
    <3>1. sent' = sent => Quiet
      BY DEF Quiet
    <3> QED
      BY <1>1, <1>2, <2>2, <2>5, <3>1, EventsTyped
  <2> HIDE DEF Quiet, Closes, Stores
  <2> QED
    BY <1>6, <2>3, <2>4, <2>5
       DEF UploadStep, CreateDestination, CheckSession, ReceiveChunk,
           WriteFails, StreamEnds, StreamBreaks, RemoveFile, Flush, AccountFile
<1>7. ASSUME NEW x \in Sessions,
             \/ \E offered \in SUBSET FileIds : PrepareUpload(x, offered)
             \/ \E accepted \in BOOLEAN : AnswerRequest(x, accepted)
             \/ DropPrepare(x)
      PROVE  sent' = sent
  BY <1>7 DEF PrepareUpload, AnswerRequest, DropPrepare
<1>8. ASSUME NEW u \in Uploads,
             \/ \E x \in Sessions : \E f, t \in FileIds : StartUpload(u, x, f, t)
             \/ DropUpload(u)
      PROVE  sent' = sent
  BY <1>8 DEF StartUpload, DropUpload
<1>9. Restart \/ UNCHANGED vars => sent' = sent
  BY DEF Restart, vars
<1> HIDE DEF Quiet, Closes, Stores
<1>10. Quiet \/ \E u \in Uploads : Closes(u) \/ Stores(u)
  <2>1. sent' = sent => Quiet
    BY DEF Quiet
  <2> QED
    BY <1>4, <1>5, <1>6, <1>7, <1>8, <1>9, <2>1 DEF Next
<1> QED
  BY <1>10 DEF Quiet, Closes, Stores


\* A session opens with a token for each file it waits for.
LEMMA UnusedBegins ==
  ASSUME TypeOK, [Next]_vars, NEW s \in Sessions,
         prep[s] = "unused", prep'[s] # "unused"
  PROVE  pending'[s] = tokens'[s]
<1> USE DEF sessionVars
<1>1. ASSUME NEW x \in Sessions, NEW offered \in SUBSET FileIds,
             PrepareUpload(x, offered)
      PROVE  pending'[s] = tokens'[s]
  BY <1>1 DEF PrepareUpload, TypeOK
<1>2. ASSUME NEW x \in Sessions,
             \/ \E accepted \in BOOLEAN : AnswerRequest(x, accepted)
             \/ ReplyPrepare(x) \/ DropPrepare(x)
             \/ CancelSession(x) \/ CancelAll(x)
      PROVE  FALSE
  BY <1>2 DEF AnswerRequest, ReplyPrepare, DropPrepare, CancelSession,
              CancelAll, TypeOK
<1>3. ASSUME NEW u \in Uploads,
             \/ UploadStep(u) \/ DropUpload(u)
             \/ \E x \in Sessions : \E f, t \in FileIds : StartUpload(u, x, f, t)
      PROVE  prep' = prep
  BY <1>3 DEF UploadStep, CreateDestination, CheckSession, ReceiveChunk,
     WriteFails, StreamEnds, StreamBreaks, RemoveFile, Flush, AccountFile,
     AnnounceCompletion, DropUpload, StartUpload
<1>4. Restart \/ UNCHANGED vars => prep'[s] = "unused"
  BY DEF Restart, vars, TypeOK
<1> QED
  BY <1>1, <1>2, <1>3, <1>4 DEF Next

\* The files a session that is in use still waits for.
LEMMA PendingKept ==
  ASSUME TypeOK, [Next]_vars, NEW s \in Sessions
  PROVE  \/ prep[s] = "unused" /\ prep'[s] # "unused" /\ pending'[s] = tokens'[s]
         \/ pending'[s] = pending[s]
         \/ \E u \in Uploads : /\ AccountFile(u) /\ SessionOf(u) = s
                               /\ s \in active /\ pending'[s] = Left(u)
<1> DEFINE Opens   == /\ prep[s] = "unused" /\ prep'[s] # "unused"
                      /\ pending'[s] = tokens'[s]
           Takes(u) == /\ AccountFile(u) /\ SessionOf(u) = s
                       /\ s \in active /\ pending'[s] = Left(u)
<1> USE DEF sessionVars
<1>1. ASSUME NEW x \in Sessions, NEW offered \in SUBSET FileIds,
             PrepareUpload(x, offered)
      PROVE  Opens \/ pending'[s] = pending[s]
  BY <1>1 DEF PrepareUpload, TypeOK
<1>2. ASSUME NEW x \in Sessions,
             \/ \E accepted \in BOOLEAN : AnswerRequest(x, accepted)
             \/ ReplyPrepare(x) \/ DropPrepare(x)
             \/ CancelSession(x) \/ CancelAll(x)
      PROVE  pending' = pending
  BY <1>2 DEF AnswerRequest, ReplyPrepare, DropPrepare, CancelSession,
              CancelAll
<1>3. ASSUME NEW u \in Uploads, AccountFile(u)
      PROVE  Takes(u) \/ pending'[s] = pending[s]
  <2>1. CASE pending' = [pending EXCEPT ![SessionOf(u)] = Left(u)]
             /\ SessionOf(u) \in active
    BY <1>3, <2>1 DEF TypeOK
  <2> HIDE DEF Takes
  <2> QED
    BY <1>3, <2>1 DEF AccountFile
<1>4. ASSUME NEW u \in Uploads,
             \/ UploadStep(u) /\ ~AccountFile(u)
             \/ DropUpload(u)
             \/ \E x \in Sessions : \E f, t \in FileIds : StartUpload(u, x, f, t)
      PROVE  pending' = pending
  BY <1>4 DEF UploadStep, CreateDestination, CheckSession, ReceiveChunk,
     WriteFails, StreamEnds, StreamBreaks, RemoveFile, Flush,
     AnnounceCompletion, DropUpload, StartUpload
<1>5. Restart \/ UNCHANGED vars => pending' = pending
  BY DEF Restart, vars
<1> HIDE DEF Opens, Takes
<1>6. Opens \/ pending'[s] = pending[s] \/ \E u \in Uploads : Takes(u)
  BY <1>1, <1>2, <1>3, <1>4, <1>5 DEF Next
<1> QED
  BY <1>6 DEF Opens, Takes

\* Where an upload can have come from, and whither it goes.
LEMMA UploadMoves ==
  ASSUME TypeOK, [Next]_vars, NEW u \in Uploads
  PROVE  /\ pc[u] # "idle" => /\ pc'[u] # "idle" /\ query'[u] = query[u]
                              /\ SessionOf(u)' = SessionOf(u)
                              /\ FileOf(u)' = FileOf(u)
         /\ pc'[u] \in Live \ {"announce"} =>
              \/ pc[u] \in Live \ {"announce"} /\ ~AccountFile(u)
              \/ /\ pc[u] = "idle"
                 /\ SessionOf(u)' \in active'
                 /\ FileOf(u)' \in pending'[SessionOf(u)']
         /\ pc'[u] = "announce" => pc[u] = "announce" \/ AccountFile(u)
         /\ pc'[u] \in Stored =>
              pc[u] \in Stored \/ (Flush(u) /\ pc'[u] = "account")
         /\ pc'[u] = "OK" =>
              pc[u] = "OK" \/ AccountFile(u) \/ AnnounceCompletion(u)
         /\ pc[u] \in {"announce", "cut"} =>
              pc'[u] \in {"announce", "cut"} \/ AnnounceCompletion(u)
<1> DEFINE Goal ==
      /\ pc[u] # "idle" => pc'[u] # "idle" /\ query'[u] = query[u]
      /\ pc'[u] \in Live \ {"announce"} =>
           \/ pc[u] \in Live \ {"announce"} /\ ~AccountFile(u)
           \/ /\ pc[u] = "idle"
              /\ SessionOf(u)' \in active'
              /\ FileOf(u)' \in pending'[SessionOf(u)']
      /\ pc'[u] = "announce" => pc[u] = "announce" \/ AccountFile(u)
      /\ pc'[u] \in Stored =>
           pc[u] \in Stored \/ (Flush(u) /\ pc'[u] = "account")
      /\ pc'[u] = "OK" =>
           pc[u] = "OK" \/ AccountFile(u) \/ AnnounceCompletion(u)
      /\ pc[u] \in {"announce", "cut"} =>
           pc'[u] \in {"announce", "cut"} \/ AnnounceCompletion(u)
<1>0. AccountFile(u) => pc[u] = "account" /\ pc'[u] \in {"OK", "announce"}
  BY DEF AccountFile, Goto, TypeOK
<1>1. ASSUME pc'[u] = pc[u] /\ query'[u] = query[u]
      PROVE  Goal
  BY <1>0, <1>1
<1>2. ASSUME pc[u] = "idle", NEW s \in Sessions, NEW f \in FileIds,
             query'[u] = [session |-> s, file |-> f],
             pc'[u] \in {"create", "FORBIDDEN", "NOT_FOUND"},
             pc'[u] = "create" => s \in active' /\ f \in pending'[s]
      PROVE  Goal
  BY <1>2 DEF SessionOf, FileOf
<1>3. ASSUME UploadStep(u) \/ DropUpload(u)
      PROVE  Goal
  BY <1>0, <1>3 DEF TypeOK, UploadStep, CreateDestination, CheckSession,
     ReceiveChunk, WriteFails, StreamEnds, StreamBreaks, RemoveFile, Flush,
     AccountFile, AnnounceCompletion, DropUpload, Goto
<1>4. ASSUME Restart
      PROVE  Goal
  <2>1. query' = query /\ pc'[u] \notin Live
    BY <1>4, RestartEndsUploads DEF Restart
  <2>2. pc[u] \in Places
    BY DEF TypeOK
  <2>3. pc'[u] = pc[u] \/ pc'[u] = "dropped"
        \/ (pc[u] \in {"account", "announce"} /\ pc'[u] = "cut")
    BY <1>4, <2>2 DEF Restart, TypeOK
  <2>4. pc[u] # "idle" => pc'[u] # "idle"
    BY <1>4 DEF Restart, TypeOK
  <2>5. pc[u] \in {"announce", "cut"} => pc'[u] \in {"announce", "cut"}
    BY <1>4 DEF Restart, TypeOK
  <2> QED
    BY <2>1, <2>2, <2>3, <2>4, <2>5
<1> HIDE DEF Goal
<1>5. Goal
  BY <1>1, <1>2, <1>3, <1>4, UploadsOfStep
<1>6. pc[u] # "idle" => SessionOf(u)' = SessionOf(u) /\ FileOf(u)' = FileOf(u)
  BY <1>5 DEF Goal, SessionOf, FileOf
<1> QED
  BY <1>5, <1>6 DEF Goal

LEMMA ReceivedStayStored == AccountsInv /\ [Next]_vars => ReceivedAreStored'
<1> SUFFICES ASSUME AccountsInv, [Next]_vars PROVE ReceivedAreStored'
  OBVIOUS
<1>1. TypeOK
  BY DEF AccountsInv, SessionsInv
<1>2. ASSUME NEW u \in Uploads, pc'[u] \in Stored
      PROVE  Sent(SessionOf(u), Received(FileOf(u)))'
  <2>1. PICK s \in Sessions, f \in FileIds :
          /\ SessionOf(u) = s /\ FileOf(u) = f
          /\ SessionOf(u)' = s /\ FileOf(u)' = f
    <3>1. pc[u] # "idle"
      BY <1>1, <1>2, UploadMoves DEF Flush
    <3> QED
      BY <1>1, <3>1, Started, UploadMoves
  <2>2. Sent(s, Received(f))'
    <3>1. CASE pc[u] \in Stored
      <4>1. Sent(s, Received(f))
        BY <2>1, <3>1 DEF AccountsInv, ReceivedAreStored
      <4> QED
        BY <1>1, <4>1, SentStays DEF Received
    <3>2. CASE Flush(u) /\ pc'[u] = "account"
      <4>1. Emit(s, Received(f))
        BY <1>1, <2>1, <3>2 DEF Flush, Goto, TypeOK
      <4> QED
        BY <1>1, <4>1, EmitSent, EventsTyped DEF Received
    <3> QED
      BY <1>1, <1>2, <3>1, <3>2, UploadMoves
  <2> QED
    BY <2>1, <2>2 DEF Sent, Received
<1>3. ASSUME NEW s \in Sessions, NEW f \in FileIds, Sent(s, Received(f))'
      PROVE  \E u \in Uploads :
               pc'[u] \in Stored /\ query'[u] = [session |-> s, file |-> f]
  <2>1. CASE Sent(s, Received(f))
    <3>1. PICK u \in Uploads :
            pc[u] \in Stored /\ query[u] = [session |-> s, file |-> f]
      BY <2>1 DEF AccountsInv, ReceivedAreStored
    <3> QED
      BY <1>1, <3>1, StoredStays
  <2>2. CASE \E u \in Uploads :
               /\ Flush(u) /\ pc'[u] = "account" /\ s = SessionOf(u)
               /\ sent'[s] = Append(sent[s], Received(FileOf(u)))
             /\ ~Sent(s, Received(f))
    <3>1. PICK u \in Uploads :
               /\ Flush(u) /\ pc'[u] = "account" /\ s = SessionOf(u)
               /\ sent'[s] = Append(sent[s], Received(FileOf(u)))
      BY <2>2
    <3>2. query[u] \in Query /\ FileOf(u) \in FileIds
      BY <1>1, <3>1, Started DEF Flush
    <3>3. Received(f) = Received(FileOf(u))
      <4>1. PICK e \in Event : e = Received(FileOf(u))
        BY <3>2, EventsTyped
      <4>2. Sent(s, Received(f))' <=> Sent(s, Received(f)) \/ Received(f) = e
        BY <1>1, <3>1, <4>1, AppendSent DEF Received
      <4> QED
        BY <1>3, <2>2, <4>1, <4>2
    <3>4. f = FileOf(u)
      BY <3>3 DEF Received
    <3>5. query'[u] = [session |-> s, file |-> f]
      BY <3>1, <3>2, <3>4 DEF Flush, Query, SessionOf, FileOf
    <3> QED
      BY <3>1, <3>5
  <2>3. ASSUME NEW e \in Event, sent'[s] = Append(sent[s], e),
               e # Received(f)
        PROVE  Sent(s, Received(f))
    BY <1>1, <1>3, <2>3, AppendSent DEF Received
  <2>4. sent'[s] = sent[s] => Sent(s, Received(f))
    BY <1>3 DEF Sent, Received
  <2>5. Completed \in Event /\ Completed # Received(f)
    BY EventsTyped DEF Completed, Received
  <2> QED
    BY <1>1, <2>1, <2>2, <2>3, <2>4, <2>5, TellsOfStep
<1> QED
  BY <1>2, <1>3 DEF ReceivedAreStored

LEMMA FilesStayAccounted == AccountsInv /\ [Next]_vars => FilesAccounted'
<1> SUFFICES ASSUME AccountsInv, [Next]_vars PROVE FilesAccounted'
  OBVIOUS
<1>1. TypeOK
  BY DEF AccountsInv, SessionsInv
<1>2. ASSUME NEW u \in Uploads, AnnounceCompletion(u)
      PROVE  Sent(SessionOf(u), Completed)' /\ SessionOf(u)' = SessionOf(u)
  <2>1. PICK s \in Sessions : s = SessionOf(u)
    BY <1>1, <1>2, Started DEF AnnounceCompletion
  <2>2. Sent(s, Completed)'
    BY <1>1, <1>2, <2>1, EmitSent, EventsTyped DEF AnnounceCompletion, Completed
  <2> QED
    BY <1>2, <2>1, <2>2 DEF AnnounceCompletion, SessionOf, Sent, Completed
<1>3. ASSUME NEW u \in Uploads, pc'[u] = "OK"
      PROVE  \/ Sent(SessionOf(u), Completed)'
             \/ FileOf(u)' \notin pending'[SessionOf(u)']
  <2>1. PICK s \in Sessions, f \in FileIds :
          /\ SessionOf(u) = s /\ FileOf(u) = f
          /\ SessionOf(u)' = s /\ FileOf(u)' = f
    <3>1. pc[u] # "idle"
      BY <1>1, <1>3, UploadMoves DEF AccountFile, AnnounceCompletion
    <3> QED
      BY <1>1, <3>1, Started, UploadMoves
  <2>2. Sent(s, Completed)' => Sent(SessionOf(u), Completed)'
    BY <2>1 DEF Sent, Completed
  <2>3. CASE pc[u] = "OK"
    <3>1. Sent(s, Completed) \/ f \notin pending[s]
      BY <2>1, <2>3 DEF AccountsInv, FilesAccounted
    <3>2. Sent(s, Completed) => Sent(s, Completed)'
      BY <1>1, SentStays DEF Completed
    <3>3. prep[s] # "unused"
      BY <2>1, <2>3 DEF AccountsInv, SessionsInv, UploadsInvited
    <3>4. pending'[s] \subseteq pending[s]
      BY <1>1, <3>3, PendingKept DEF Left
    <3> QED
      BY <2>1, <2>2, <3>1, <3>2, <3>4
  <2>4. CASE AccountFile(u)
    BY <1>1, <1>3, <2>1, <2>4 DEF AccountFile, Goto, Left, TypeOK
  <2>5. CASE AnnounceCompletion(u)
    <3>1. Sent(SessionOf(u), Completed)'
      BY <1>2, <2>5
    <3> QED
      BY <3>1
  <2> QED
    BY <1>1, <1>3, <2>3, <2>4, <2>5, UploadMoves
<1>4. ASSUME NEW s \in Sessions,
             prep'[s] # "unused", pending'[s] = {}, tokens'[s] # {}
      PROVE  \/ Sent(s, Completed)'
             \/ \E u \in Uploads : /\ pc'[u] \in {"announce", "cut"}
                                   /\ SessionOf(u)' = s
  <2>1. prep[s] # "unused" \/ pending'[s] = pending[s]
        \/ \E u \in Uploads : AccountFile(u) /\ SessionOf(u) = s
    BY <1>1, <1>4, PendingKept
  <2>2. ASSUME NEW u \in Uploads, AccountFile(u), SessionOf(u) = s, s \in active,
               pending'[s] = Left(u)
        PROVE  pc'[u] = "announce" /\ SessionOf(u)' = s
    BY <1>1, <1>4, <2>2 DEF AccountFile, Goto, TypeOK, SessionOf
  <2>3. CASE prep[s] # "unused" /\ pending[s] = {}
    <3>1. tokens[s] # {}
      BY <1>1, <1>4, <2>3, SessionsOfStep
    <3>2. CASE Sent(s, Completed)
      BY <1>1, <3>2, SentStays DEF Completed
    <3>3. ASSUME NEW u \in Uploads, pc[u] \in {"announce", "cut"},
                 SessionOf(u) = s
          PROVE  \/ pc'[u] \in {"announce", "cut"} /\ SessionOf(u)' = s
                 \/ Sent(s, Completed)'
      <4>1. SessionOf(u)' = s
        BY <1>1, <3>3, UploadMoves
      <4>2. AnnounceCompletion(u) => Sent(s, Completed)'
        BY <1>2, <3>3, <4>1 DEF Sent, Completed
      <4> QED
        BY <1>1, <3>3, <4>1, <4>2, UploadMoves
    <3> QED
      BY <2>3, <3>1, <3>2, <3>3 DEF AccountsInv, FilesAccounted
  <2>4. CASE prep[s] = "unused"
    <3>1. prep'[s] # "unused"
      BY <1>4
    <3>2. pending'[s] = tokens'[s]
      BY <1>1, <2>4, <3>1, UnusedBegins
    <3> QED
      BY <1>4, <3>2
  <2> QED
    BY <1>1, <1>4, <2>2, <2>3, <2>4, PendingKept
<1> QED
  BY <1>3, <1>4 DEF FilesAccounted

LEMMA AccountsInit == Init => AccountsInv
<1> SUFFICES ASSUME Init PROVE AccountsInv
  OBVIOUS
<1>1. \A u \in Uploads : pc[u] = "idle"
  BY DEF Init
<1>2. \A s \in Sessions : prep[s] = "unused" /\ sent[s] = << >>
  BY DEF Init
<1>3. ReceivedAreStored
  BY <1>1, <1>2 DEF ReceivedAreStored, Sent
<1>4. FilesAccounted
  BY <1>1, <1>2 DEF FilesAccounted
<1> QED
  BY <1>3, <1>4, SessionsInit DEF AccountsInv

LEMMA AccountsStep == AccountsInv /\ [Next]_vars => AccountsInv'
BY SessionsStep, ReceivedStayStored, FilesStayAccounted DEF AccountsInv

LEMMA AccountsAlways == Spec => []AccountsInv
BY AccountsInit, AccountsStep, PTL DEF Spec

LEMMA TwiceStays ==
  ASSUME TypeOK, [Next]_vars, NEW s \in Sessions, UploadedTwice(s)
  PROVE  UploadedTwice(s)'
<1>1. PICK u, v \in Uploads : /\ u # v
                              /\ pc[u] \in Stored /\ pc[v] \in Stored
                              /\ query[u] = query[v] /\ SessionOf(u) = s
  BY DEF UploadedTwice
<1>2. /\ pc'[u] \in Stored /\ query'[u] = query[u]
      /\ pc'[v] \in Stored /\ query'[v] = query[v]
  BY <1>1, StoredStays
<1>3. SessionOf(u)' = s
  BY <1>1, <1>2 DEF SessionOf
<1> QED
  BY <1>1, <1>2, <1>3 DEF UploadedTwice

\* A handler about to account for its file finds the session waiting for it.
LEMMA AccountsForItsOwn ==
  ASSUME NEW s \in Sessions, Once(s), ~UploadedTwice(s), NEW u \in Uploads,
         pc[u] = "account", SessionOf(u) = s
  PROVE  FileOf(u) \in pending[s]
<1>1. CASE StoredBefore(u)
  <2>1. PICK w \in Uploads \ {u} : pc[w] \in Stored /\ query[w] = query[u]
    BY <1>1 DEF StoredBefore
  <2> QED
    BY <2>1 DEF UploadedTwice
<1> QED
  BY <1>1 DEF Once

LEMMA OnceStep ==
  ASSUME SessionsInv, [Next]_vars, NEW s \in Sessions,
         Once(s), ~UploadedTwice(s), ~TornDown(s)'
  PROVE  Once(s)'
<1>1. TypeOK
  BY DEF SessionsInv
<1>2. ASSUME NEW u \in Uploads, pc[u] # "idle"
      PROVE  /\ SessionOf(u)' = SessionOf(u) /\ FileOf(u)' = FileOf(u)
             /\ query'[u] = query[u]
  BY <1>1, <1>2, UploadMoves
<1>3. (\E u \in Uploads : pc[u] # "idle" /\ SessionOf(u) = s)
        => pending'[s] \subseteq pending[s]
  <2>1. (\E u \in Uploads : pc[u] # "idle" /\ SessionOf(u) = s)
          => prep[s] # "unused"
    BY DEF SessionsInv, UploadsInvited
  <2> QED
    BY <1>1, <2>1, PendingKept DEF Left
<1>4. ASSUME NEW u \in Uploads, AccountFile(u), SessionOf(u) = s
      PROVE  pc[u] = "account" /\ FileOf(u) \in pending[s]
  BY <1>4, AccountsForItsOwn DEF AccountFile
<1>5. ASSUME NEW v \in Uploads, pc'[v] \in Live \ {"announce"},
             SessionOf(v)' = s
      PROVE  FileOf(v)' \in pending'[s] \/ StoredBefore(v)'
  <2>1. CASE pc[v] \in Live \ {"announce"} /\ ~AccountFile(v)
    <3>1. SessionOf(v) = s /\ FileOf(v)' = FileOf(v) /\ query'[v] = query[v]
      BY <1>2, <1>5, <2>1
    <3>2. CASE StoredBefore(v)
      <4>1. PICK w \in Uploads \ {v} : pc[w] \in Stored /\ query[w] = query[v]
        BY <3>2 DEF StoredBefore
      <4>2. pc'[w] \in Stored /\ query'[w] = query[w]
        BY <1>1, <4>1, StoredStays
      <4> QED
        BY <3>1, <4>1, <4>2 DEF StoredBefore
    <3>3. CASE FileOf(v) \in pending[s]
      <4>1. prep[s] # "unused"
        BY <2>1, <3>1 DEF SessionsInv, UploadsInvited
      <4>2. CASE pending'[s] = pending[s]
        BY <3>1, <3>3, <4>2
      <4>3. ASSUME NEW u \in Uploads, AccountFile(u), SessionOf(u) = s,
                   pending'[s] = Left(u)
            PROVE  FileOf(v)' \in pending'[s] \/ StoredBefore(v)'
        <5>1. CASE FileOf(v) # FileOf(u)
          BY <3>1, <3>3, <4>3, <5>1 DEF Left
        <5>2. CASE FileOf(v) = FileOf(u)
          <6>1. u # v
            BY <2>1, <4>3
          <6>2. pc[u] = "account"
            BY <4>3 DEF AccountFile
          <6>3. query[u] \in Query /\ query[v] \in Query
            BY <1>1, <2>1, <6>2, Started
          <6>4. query[u] = query[v]
            BY <3>1, <4>3, <5>2, <6>3 DEF Query, SessionOf, FileOf
          <6>5. pc'[u] \in Stored /\ query'[u] = query[u]
            BY <1>1, <6>2, StoredStays
          <6> QED
            BY <3>1, <6>1, <6>4, <6>5 DEF StoredBefore
        <5> QED
          BY <5>1, <5>2
      <4> QED
        BY <1>1, <4>1, <4>2, <4>3, PendingKept
    <3> QED
      BY <2>1, <3>1, <3>2, <3>3 DEF Once
  <2> QED
    BY <1>1, <1>5, <2>1, UploadMoves
<1>6. ASSUME NEW v \in Uploads, pc'[v] \in Live, SessionOf(v)' = s
      PROVE  s \in active' \/ pending'[s] = {}
  <2>1. CASE pc[v] \in Live
    <3>1. SessionOf(v) = s
      BY <1>2, <1>6, <2>1
    <3>2. CASE pending[s] = {}
      BY <1>3, <2>1, <3>1, <3>2
    <3>3. CASE s \in active /\ s \notin active'
      <4>1. ~Restart
        BY <1>1, <1>6, RestartEndsUploads
      <4>2. PICK u \in Uploads : AccountFile(u) /\ SessionOf(u) = s
        BY <1>1, <3>3, <4>1, LeavesComplete DEF SessionsInv
      <4>3. Left(u) = {}
        BY <3>3, <4>2 DEF AccountFile
      <4>4. pending'[s] = Left(u)
        BY <1>1, <3>3, <4>2 DEF AccountFile, TypeOK
      <4> QED
        BY <4>3, <4>4
    <3> QED
      BY <2>1, <3>1, <3>2, <3>3 DEF Once
  <2>2. CASE pc[v] = "idle" /\ SessionOf(v)' \in active'
    BY <1>6, <2>2
  <2>3. CASE AccountFile(v)
    BY <2>1, <2>3 DEF AccountFile
  <2> QED
    BY <1>1, <1>6, <2>1, <2>2, <2>3, UploadMoves
<1>7. ASSUME NEW v \in Uploads, AccountFile(v), SessionOf(v) = s,
             pc'[v] = "announce"
      PROVE  /\ pending'[s] = {}
             /\ pending[s] # {}
             /\ \A u \in Uploads \ {v} : pc'[u] = pc[u]
             /\ sent' = sent
  <2>1. pc[v] = "account" /\ FileOf(v) \in pending[s]
    BY <1>4, <1>7
  <2>2. s \in active
    BY <1>7, <2>1 DEF Once
  <2>3. Left(v) = {}
    BY <1>1, <1>7, <2>2 DEF AccountFile, Goto, TypeOK
  <2> QED
    BY <1>1, <1>7, <2>1, <2>2, <2>3 DEF AccountFile, Goto, TypeOK
<1>8. ASSUME NEW v \in Uploads, Announcing(v, s)'
      PROVE  Announcing(v, s) \/ (AccountFile(v) /\ SessionOf(v) = s)
  <2>1. pc[v] # "idle"
    BY <1>1, <1>8, UploadMoves DEF Announcing, AccountFile
  <2> QED
    BY <1>1, <1>2, <1>8, <2>1, UploadMoves DEF Announcing
<1>9. CASE \E v \in Uploads :
             AccountFile(v) /\ SessionOf(v) = s /\ pc'[v] = "announce"
  <2>1. PICK v \in Uploads :
             AccountFile(v) /\ SessionOf(v) = s /\ pc'[v] = "announce"
    BY <1>9
  <2>2. /\ pending'[s] = {} /\ pending[s] # {} /\ sent' = sent
        /\ \A u \in Uploads \ {v} : pc'[u] = pc[u]
    BY <1>7, <2>1
  <2>3. ~Sent(s, Completed) /\ \A u \in Uploads : ~Announcing(u, s)
    BY <2>2 DEF Once
  <2>4. \A u \in Uploads : Announcing(u, s)' => u = v
    <3> SUFFICES ASSUME NEW u \in Uploads, u # v, Announcing(u, s)'
                 PROVE  FALSE
      OBVIOUS
    <3>1. pc[u] = "announce"
      BY <2>2 DEF Announcing
    <3>2. SessionOf(u) = s
      BY <1>2, <3>1 DEF Announcing
    <3> QED
      BY <2>3, <3>1, <3>2 DEF Announcing
  <2>5. ~Sent(s, Completed)'
    BY <2>2, <2>3 DEF Sent, Completed
  <2>6. \A i \in DOMAIN sent'[s] : sent'[s][i] # Completed
    BY <2>2, <2>3 DEF Sent
  <2> QED
    BY <1>5, <1>6, <2>2, <2>4, <2>5, <2>6 DEF Once, Completed
<1>10. CASE ~\E v \in Uploads :
              AccountFile(v) /\ SessionOf(v) = s /\ pc'[v] = "announce"
  <2>1. \A v \in Uploads : Announcing(v, s)' => Announcing(v, s)
    BY <1>8, <1>10 DEF Announcing
  <2>2. ASSUME NEW u \in Uploads, AnnounceCompletion(u), s = SessionOf(u),
               sent'[s] = Append(sent[s], Completed)
        PROVE  Once(s)'
    <3>1. Announcing(u, s)
      BY <2>2 DEF AnnounceCompletion, Announcing
    <3>2. ~Sent(s, Completed) /\ pending[s] = {}
          /\ \A v \in Uploads : Announcing(v, s) => v = u
      BY <3>1 DEF Once
    <3>3. \A v \in Uploads : ~Announcing(v, s)'
      <4>1. ~Announcing(u, s)'
        BY <1>1, <2>2 DEF AnnounceCompletion, Goto, TypeOK, Announcing
      <4> QED
        BY <2>1, <3>2, <4>1
    <3>4. pending'[s] = {}
      BY <1>3, <3>1, <3>2 DEF Announcing
    <3>5. \A i, j \in DOMAIN sent'[s] :
            sent'[s][i] = Completed /\ sent'[s][j] = Completed => i = j
      <4> DEFINE n == Len(sent[s])
      <4>1. /\ DOMAIN sent'[s] = 1 .. n + 1 /\ DOMAIN sent[s] = 1 .. n
            /\ n \in Nat
            /\ \A i \in 1 .. n : sent'[s][i] = sent[s][i]
        BY <1>1, <2>2 DEF TypeOK
      <4>2. \A i \in 1 .. n : sent'[s][i] # Completed
        BY <3>2, <4>1 DEF Sent
      <4>3. \A i \in 1 .. n + 1 : i \in 1 .. n \/ i = n + 1
        BY <4>1
      <4> HIDE DEF n
      <4> QED
        BY <4>1, <4>2, <4>3
    <3> QED
      BY <1>5, <1>6, <3>3, <3>4, <3>5 DEF Once, Completed
  <2>3. ASSUME sent'[s] = sent[s] \/ \E e \in Event :
                 sent'[s] = Append(sent[s], e) /\ e # Completed
        PROVE  Once(s)'
    <3>1. Sent(s, Completed)' <=> Sent(s, Completed)
      <4>1. sent'[s] = sent[s] => (Sent(s, Completed)' <=> Sent(s, Completed))
        BY DEF Sent, Completed
      <4> QED
        BY <1>1, <2>3, <4>1, AppendSent DEF Completed
    <3>2. Sent(s, Completed)' \/ (\E v \in Uploads : Announcing(v, s)')
            => pending'[s] = {}
      <4>1. Sent(s, Completed) => prep[s] # "unused"
        BY DEF Sent, SessionsInv, UnusedIsFresh
      <4>2. Sent(s, Completed) => pending'[s] \subseteq pending[s]
        BY <1>1, <4>1, PendingKept DEF Left
      <4>3. (\E v \in Uploads : Announcing(v, s))
              => pending'[s] \subseteq pending[s]
        BY <1>3 DEF Announcing
      <4> QED
        BY <2>1, <3>1, <4>2, <4>3 DEF Once
    <3>3. \A i, j \in DOMAIN sent'[s] :
            sent'[s][i] = Completed /\ sent'[s][j] = Completed => i = j
      <4>1. CASE sent'[s] = sent[s]
        BY <4>1 DEF Once
      <4>2. ASSUME NEW e \in Event, sent'[s] = Append(sent[s], e), e # Completed
            PROVE  \A i, j \in DOMAIN sent'[s] :
                     sent'[s][i] = Completed /\ sent'[s][j] = Completed => i = j
        <5> DEFINE n == Len(sent[s])
        <5>1. /\ DOMAIN sent'[s] = 1 .. n + 1 /\ DOMAIN sent[s] = 1 .. n
              /\ n \in Nat
              /\ \A i \in 1 .. n : sent'[s][i] = sent[s][i]
              /\ sent'[s][n + 1] = e
          BY <1>1, <4>2 DEF TypeOK
        <5>2. \A i \in 1 .. n + 1 : i \in 1 .. n \/ i = n + 1
          BY <5>1
        <5> HIDE DEF n
        <5> QED
          BY <4>2, <5>1, <5>2 DEF Once
      <4> QED
        BY <2>3, <4>1, <4>2
    <3> QED
      BY <1>5, <1>6, <2>1, <3>1, <3>2, <3>3 DEF Once, Completed
  <2>4. \A f : Received(f) # Completed
    BY DEF Received, Completed
  <2>5. ASSUME NEW u \in Uploads, Flush(u), s = SessionOf(u),
               sent'[s] = Append(sent[s], Received(FileOf(u)))
        PROVE  Once(s)'
    <3>1. FileOf(u) \in FileIds
      BY <1>1, <2>5, Started DEF Flush
    <3> QED
      BY <2>3, <2>4, <2>5, <3>1, EventsTyped
  <2> QED
    BY <1>1, <2>2, <2>3, <2>5, TellsOfStep
<1> QED
  BY <1>9, <1>10

LEMMA OnceAlways == Spec => []OnceInv
<1>1. Init => OnceInv
  <2> SUFFICES ASSUME Init PROVE OnceInv
    OBVIOUS
  <2>1. \A u \in Uploads : pc[u] = "idle"
    BY DEF Init
  <2>2. \A s \in Sessions : sent[s] = << >>
    BY DEF Init
  <2>3. ASSUME NEW s \in Sessions
        PROVE  Once(s)
    <3>1. DOMAIN sent[s] = {}
      BY <2>2
    <3>2. ~Sent(s, Completed)
      BY <3>1 DEF Sent
    <3>3. \A u \in Uploads : pc[u] \notin Live /\ ~Announcing(u, s)
      BY <2>1 DEF Announcing
    <3> QED
      BY <3>1, <3>2, <3>3 DEF Once
  <2> QED
    BY <2>3, SessionsInit DEF OnceInv
<1>2. OnceInv /\ [Next]_vars => OnceInv'
  <2> SUFFICES ASSUME OnceInv, [Next]_vars PROVE OnceInv'
    OBVIOUS
  <2>1. SessionsInv /\ TypeOK
    BY DEF OnceInv, SessionsInv
  <2>2. ASSUME NEW s \in Sessions
        PROVE  TornDown(s)' \/ UploadedTwice(s)' \/ Once(s)'
    BY <2>1, TornDownStays, TwiceStays, OnceStep DEF OnceInv
  <2> QED
    BY <2>1, <2>2, SessionsStep DEF OnceInv
<1> QED
  BY <1>1, <1>2, PTL DEF Spec

\* A session is called complete once, unless it was torn down or a file of it
\* was sent twice at the same time: of the handlers that finish together one
\* alone finds the file table empty, and no later one finds it at all.
THEOREM CompletesOnce == Spec => []CompletedOnce
<1>1. OnceInv => CompletedOnce
  BY DEF OnceInv, Once, CompletedOnce
<1> QED
  BY <1>1, OnceAlways, PTL

-----------------------------------------------------------------------------
(* Partial files.                                                          *)

LEMMA NoPartialStep ==
  FilesInv /\ NoPartialLeftBehind /\ [Next]_vars => NoPartialLeftBehind'
<1> SUFFICES ASSUME FilesInv, NoPartialLeftBehind, [Next]_vars,
                    "disk" \notin Faults,
                    NEW p \in DOMAIN disk', NEW u \in Uploads, disk'[p].by = u
             PROVE  pc'[u] \in Partial \cup Stored \cup {"dropped"}
  BY DEF NoPartialLeftBehind
<1>0. TypeOK /\ TypeOK' /\ FilesInv'
  BY TypeStep, FilesStep DEF FilesInv
<1>1. p = Path(u)' /\ pc'[u] \notin {"idle", "create"}
  BY <1>0 DEF FilesInv, FilesOwned
<1>2. CASE UploadStep(u) \/ DropUpload(u)
  <2>1. CASE RemoveFile(u)
    <3>1. /\ disk' = [q \in DOMAIN disk \ {Path(u)} |-> disk[q]]
          /\ UNCHANGED <<query, attempt>>
      BY <2>1 DEF RemoveFile
    <3>2. Path(u)' = Path(u)
      BY <3>1 DEF Path, FileOf
    <3> QED
      BY <1>1, <3>1, <3>2
  <2>2. CASE CreateDestination(u)
    <3>1. pc[u] = "create" /\ pc'[u] \notin {"idle", "create"}
      BY <1>1, <2>2 DEF CreateDestination
    <3>2. pc'[u] \in {"check", "SERVER_ERROR"}
      BY <1>0, <2>2, <3>1 DEF CreateDestination, Goto, TypeOK
    <3>3. CASE pc'[u] = "check"
      BY <3>3
    <3>4. CASE pc'[u] = "SERVER_ERROR"
      <4>1. disk' = disk
        BY <1>0, <2>2, <3>1, <3>4 DEF CreateDestination, Goto, TypeOK
      <4> QED
        BY <3>1, <4>1 DEF FilesInv, FilesOwned
    <3> QED
      BY <3>2, <3>3, <3>4
  <2>3. CASE ~RemoveFile(u) /\ ~CreateDestination(u)
    BY <1>0, <1>2, <2>3
       DEF TypeOK, UploadStep, CheckSession, ReceiveChunk, WriteFails,
           StreamEnds, StreamBreaks, Flush, AccountFile, AnnounceCompletion,
           DropUpload, Goto
  <2> QED
    BY <2>1, <2>2, <2>3
<1>3. CASE Restart
  <2>1. disk' = disk
    BY <1>3 DEF Restart
  <2>2. pc[u] \in Partial \cup Stored \cup {"dropped"}
    BY <2>1 DEF NoPartialLeftBehind
  <2> QED
    BY <1>0, <1>3, <2>2 DEF Restart, TypeOK
<1>4. CASE ~Restart /\ p \in DOMAIN disk /\ disk[p].by = u
  <2>1. pc[u] \in Partial \cup Stored \cup {"dropped"}
    BY <1>4 DEF NoPartialLeftBehind
  <2> QED
    BY <1>0, <1>2, <1>4, <2>1, UploadsOfStep
<1>5. CASE ~(p \in DOMAIN disk /\ disk[p].by = u)
  <2>1. disk' # disk
    BY <1>5
  <2>2. PICK v \in Uploads : UploadStep(v) \/ DropUpload(v)
    BY <2>1 DEF Next, vars, PrepareUpload, AnswerRequest, ReplyPrepare,
       DropPrepare, CancelSession, CancelAll, StartUpload, Restart
  <2>3. OtherFilesAlone(v)
    BY <2>2, OwnStepLocal
  <2>4. v = u
    BY <1>5, <2>3 DEF OtherFilesAlone
  <2> QED
    BY <1>2, <2>2, <2>4
<1> QED
  BY <1>3, <1>4, <1>5

\* While the disk works, every way out of handle_upload that gives up takes the
\* partial file with it: a file of an ended upload was announced.
THEOREM NoPartialIsLeft == Spec => []NoPartialLeftBehind
<1>1. Init => NoPartialLeftBehind
  BY ServerAssumption DEF Init, NoPartialLeftBehind
<1> QED
  BY <1>1, NoPartialStep, FilesAlways, PTL DEF Spec

-----------------------------------------------------------------------------
(* Refinement.  The inbox of the contract is a function of the uploads that  *)
(* have announced their file: only Flush adds one to them.                   *)

VerdictBar == [s \in Sessions |-> Verdict(prep[s])]

InboxBar == [p \in Delivered |-> [session |-> SessionOf(disk[p].by),
                                  file    |-> FileOf(disk[p].by),
                                  length  |-> disk[p].length]]

\* Uploads whose file has been announced.
Landed == {u \in Uploads : pc[u] \in Stored}

\* The record of upload u in the inbox.
Entry(u) == [session |-> SessionOf(u), file |-> FileOf(u),
             length |-> Size(u)]

\* The inbox, told by those uploads.
LandedShape ==
  /\ Delivered = {Path(u) : u \in Landed}
  /\ \A u \in Landed : InboxBar[Path(u)] = Entry(u)

LEMMA InboxOfLanded == FilesInv => LandedShape
<1> SUFFICES ASSUME FilesInv PROVE LandedShape
  OBVIOUS
<1>1. ASSUME NEW u \in Landed
      PROVE  /\ Path(u) \in Delivered
             /\ disk[Path(u)].by = u
             /\ disk[Path(u)].length = Size(u)
  <2>1. /\ Path(u) \in DOMAIN disk
        /\ disk[Path(u)] = [by |-> u, length |-> bytes[u]]
    BY OwnFile DEF Landed
  <2>2. bytes[u] = Size(u)
    BY DEF Landed, FilesInv, CountsBounded
  <2> QED
    BY <2>1, <2>2 DEF Delivered, Landed
<1>2. ASSUME NEW p \in Delivered
      PROVE  \E u \in Landed : p = Path(u)
  BY DEF Delivered, Landed, FilesInv, FilesOwned
<1>3. Delivered = {Path(u) : u \in Landed}
  BY <1>1, <1>2
<1>4. \A u \in Landed : InboxBar[Path(u)] = Entry(u)
  BY <1>1 DEF InboxBar, Entry
<1> QED
  BY <1>3, <1>4 DEF LandedShape

LEMMA InboxOfLandedNext == FilesInv' => LandedShape'
BY InboxOfLanded, PTL

\* As long as the same uploads have landed, the inbox is the same.
LEMMA InboxUnchanged ==
  ASSUME FilesInv, FilesInv', Landed' = Landed,
         \A u \in Landed : query'[u] = query[u] /\ attempt'[u] = attempt[u]
  PROVE  InboxBar' = InboxBar
<1>1. \A u \in Landed : Path(u)' = Path(u) /\ Entry(u)' = Entry(u)
  BY DEF Path, Entry, SessionOf, FileOf, Size
<1>2. Delivered' = Delivered
  <2>1. Delivered = {Path(u) : u \in Landed}
    BY InboxOfLanded DEF LandedShape
  <2>2. Delivered' = {Path(u)' : u \in Landed'}
    BY InboxOfLandedNext DEF LandedShape
  <2> QED
    BY <1>1, <2>1, <2>2
<1>3. ASSUME NEW p \in Delivered
      PROVE  InboxBar'[p] = InboxBar[p]
  <2>1. PICK u \in Landed : p = Path(u)
    BY InboxOfLanded DEF LandedShape
  <2>2. InboxBar[p] = Entry(u)
    BY <2>1, InboxOfLanded DEF LandedShape
  <2>3. InboxBar'[Path(u)'] = Entry(u)'
    BY InboxOfLandedNext DEF LandedShape
  <2> QED
    BY <1>1, <2>1, <2>2, <2>3
<1>4. /\ InboxBar = [p \in Delivered |-> InboxBar[p]]
      /\ InboxBar' = [p \in Delivered' |-> InboxBar'[p]]
  BY DEF InboxBar
<1> QED
  BY <1>2, <1>3, <1>4

\* A new file in the inbox: the path was free, in the inbox and for the user.
LEMMA InboxGrows ==
  ASSUME FilesInv, FilesInv', NEW u \in Uploads,
         pc[u] = "flush", pc'[u] = "account", Landed' = Landed \cup {u},
         UNCHANGED <<query, attempt>>
  PROVE  /\ Path(u) \notin DOMAIN InboxBar \cup UserFiles
         /\ InboxBar' = [p \in DOMAIN InboxBar \cup {Path(u)} |->
                           IF p = Path(u) THEN Entry(u) ELSE InboxBar[p]]
<1>0. DOMAIN InboxBar = Delivered
  BY DEF InboxBar
<1>1. Path(u) \in DOMAIN disk /\ disk[Path(u)].by = u
  BY OwnFile
<1>2. Path(u) \notin Delivered
  BY <1>1 DEF Delivered
<1>3. Path(u) \notin UserFiles
  BY <1>1, ServerAssumption DEF FilesInv, UserFilesKept
<1>4. \A v \in Uploads : Path(v)' = Path(v) /\ Entry(v)' = Entry(v)
  BY DEF Path, Entry, SessionOf, FileOf, Size
<1>5. Delivered' = Delivered \cup {Path(u)}
  <2>1. Delivered = {Path(v) : v \in Landed} /\ Landed \subseteq Uploads
    BY InboxOfLanded DEF LandedShape, Landed
  <2>2. Delivered' = {Path(v)' : v \in Landed'}
    BY InboxOfLandedNext DEF LandedShape
  <2> QED
    BY <1>4, <2>1, <2>2
<1>6. ASSUME NEW p \in Delivered'
      PROVE  InboxBar'[p] = IF p = Path(u) THEN Entry(u) ELSE InboxBar[p]
  <2>1. \A v \in Landed' : InboxBar'[Path(v)'] = Entry(v)'
    BY InboxOfLandedNext DEF LandedShape
  <2>2. CASE p = Path(u)
    BY <1>4, <2>1, <2>2
  <2>3. CASE p # Path(u)
    <3>1. PICK v \in Landed : p = Path(v)
      BY <1>5, <2>3, InboxOfLanded DEF LandedShape
    <3>2. InboxBar[p] = Entry(v)
      BY <3>1, InboxOfLanded DEF LandedShape
    <3>3. v \in Landed' /\ v \in Uploads
      BY <3>1 DEF Landed
    <3> QED
      BY <1>4, <2>1, <2>3, <3>1, <3>2, <3>3
  <2> QED
    BY <2>2, <2>3
<1>7. InboxBar' = [p \in Delivered' |-> InboxBar'[p]]
  BY DEF InboxBar
<1> QED
  BY <1>0, <1>2, <1>3, <1>5, <1>6, <1>7

\* Steps other than a successful Flush land nothing.
LEMMA NothingLands ==
  ASSUME FilesInv, [Next]_vars,
         \A u \in Uploads : ~(Flush(u) /\ pc'[u] = "account")
  PROVE  InboxBar' = InboxBar
<1>0. TypeOK /\ FilesInv /\ FilesInv'
  BY FilesStep DEF FilesInv
<1>1. ASSUME NEW u \in Uploads
      PROVE  /\ pc'[u] \in Stored <=> pc[u] \in Stored
             /\ pc[u] \in Stored => /\ query'[u] = query[u]
                                    /\ attempt'[u] = attempt[u]
  <2>1. CASE UploadStep(u) \/ DropUpload(u)
    BY <1>0, <2>1
       DEF TypeOK, UploadStep, CreateDestination, CheckSession, ReceiveChunk,
           WriteFails, StreamEnds, StreamBreaks, RemoveFile, Flush,
           AccountFile, AnnounceCompletion, DropUpload, Goto
  <2>2. CASE Restart
    <3>1. pc'[u] \in Stored <=> pc[u] \in Stored
      <4>1. CASE pc[u] \in Live \ Stored
        BY <1>0, <2>2, <4>1 DEF Restart, TypeOK
      <4>2. CASE pc[u] \in Live \cap Stored
        BY <1>0, <2>2, <4>2 DEF Restart, TypeOK
      <4>3. CASE pc[u] \notin Live
        BY <1>0, <2>2, <4>3 DEF Restart, TypeOK
      <4> QED
        BY <4>1, <4>2, <4>3
    <3> QED
      BY <2>2, <3>1 DEF Restart
  <2>3. attempt'[u] = attempt[u] \/ pc[u] = "create"
    <3>1. ASSUME NEW v \in Uploads, UploadStep(v) \/ DropUpload(v)
          PROVE  attempt'[u] = attempt[u] \/ pc[u] = "create"
      BY <3>1, OwnStepLocal DEF OthersAlone
    <3> QED
      BY <3>1 DEF Next, vars, uploadVars, PrepareUpload, AnswerRequest,
         ReplyPrepare, DropPrepare, CancelSession, CancelAll, StartUpload,
         Restart
  <2> QED
    BY <1>0, <2>1, <2>2, <2>3, UploadsOfStep
<1>2. Landed' = Landed
  BY <1>1 DEF Landed
<1> QED
  BY <1>0, <1>1, <1>2, InboxUnchanged DEF Landed

LEMMA NothingLandsAtRest ==
  ASSUME FilesInv, [Next]_vars, pc' = pc
  PROVE  InboxBar' = InboxBar
<1>1. \A u \in Uploads : ~(Flush(u) /\ pc'[u] = "account")
  BY DEF Flush
<1> QED
  BY <1>1, NothingLands

LEMMA ContractInit == Init => Contract!Init
<1> SUFFICES ASSUME Init PROVE Contract!Init
  OBVIOUS
<1>1. Delivered = {}
  BY DEF Init, Delivered
<1>2. VerdictBar = [s \in Sessions |-> "none"]
  BY DEF Init, VerdictBar, Verdict
<1> QED
  BY <1>1, <1>2 DEF Contract!Init, Init, VerdictBar

\* A step that settles no request and lands no file is a stutter.
LEMMA Stutter ==
  ASSUME VerdictBar' = VerdictBar, tokens' = tokens, InboxBar' = InboxBar
  PROVE  UNCHANGED Contract!inboxVars
BY DEF Contract!inboxVars, VerdictBar, InboxBar

LEMMA ContractStep ==
  FilesInv /\ SessionsInv /\ [Next]_vars
    => [Contract!Next]_(Contract!inboxVars)
<1> SUFFICES ASSUME FilesInv, SessionsInv, [Next]_vars
             PROVE  Contract!Next \/ UNCHANGED Contract!inboxVars
  BY DEF Contract!inboxVars
<1>0. TypeOK /\ FilesInv'
  BY FilesStep DEF FilesInv
<1> USE DEF sessionVars, uploadVars
<1>1. ASSUME NEW s \in Sessions, NEW offered \in SUBSET FileIds,
             PrepareUpload(s, offered)
      PROVE  Contract!Next
  <2>1. InboxBar' = InboxBar
    BY <1>1, NothingLandsAtRest DEF PrepareUpload
  <2>2. /\ VerdictBar[s] = "none"
        /\ VerdictBar' = [VerdictBar EXCEPT ![s] = "asked"]
        /\ tokens' = [tokens EXCEPT ![s] = offered]
    BY <1>0, <1>1 DEF PrepareUpload, VerdictBar, Verdict, TypeOK
  <2>3. Contract!Ask(s, offered)
    BY <2>1, <2>2 DEF Contract!Ask, VerdictBar, InboxBar
  <2> QED
    BY <2>3 DEF Contract!Next
<1>2. ASSUME NEW s \in Sessions, NEW accepted \in BOOLEAN,
             AnswerRequest(s, accepted)
      PROVE  UNCHANGED Contract!inboxVars
  <2>1. InboxBar' = InboxBar
    BY <1>2, NothingLandsAtRest DEF AnswerRequest
  <2>2. VerdictBar' = VerdictBar /\ tokens' = tokens
    BY <1>0, <1>2 DEF AnswerRequest, VerdictBar, Verdict, TypeOK
  <2> QED
    BY <2>1, <2>2, Stutter
<1>3. ASSUME NEW s \in Sessions, ReplyPrepare(s) \/ DropPrepare(s)
      PROVE  Contract!Next
  <2>1. InboxBar' = InboxBar
    BY <1>3, NothingLandsAtRest DEF ReplyPrepare, DropPrepare
  <2>2. PICK p \in {"accepted", "refused", "dropped"} :
          /\ prep[s] \in Waiting
          /\ prep' = [prep EXCEPT ![s] = p]
          /\ tokens' = tokens
    BY <1>3 DEF ReplyPrepare, DropPrepare
  <2>3. PICK v \in {"accepted", "refused"} : v = Verdict(p)
    BY DEF Verdict
  <2>4. /\ VerdictBar[s] = "asked"
        /\ VerdictBar' = [VerdictBar EXCEPT ![s] = v]
    BY <1>0, <2>2, <2>3 DEF VerdictBar, Verdict, TypeOK
  <2>5. Contract!Settle(s, v)
    BY <2>1, <2>2, <2>4 DEF Contract!Settle, VerdictBar, InboxBar
  <2> QED
    BY <2>5 DEF Contract!Next
<1>4. ASSUME NEW s \in Sessions, CancelSession(s) \/ CancelAll(s)
      PROVE  UNCHANGED Contract!inboxVars
  <2>1. InboxBar' = InboxBar
    BY <1>4, NothingLandsAtRest DEF CancelSession, CancelAll
  <2>2. VerdictBar' = VerdictBar /\ tokens' = tokens
    BY <1>4 DEF CancelSession, CancelAll, VerdictBar
  <2> QED
    BY <2>1, <2>2, Stutter
<1>5. ASSUME NEW u \in Uploads, Flush(u), pc'[u] = "account"
      PROVE  Contract!Next
  <2>1. /\ pc[u] = "flush" /\ pc' = [pc EXCEPT ![u] = "account"]
        /\ UNCHANGED <<query, attempt, prep, tokens>>
    BY <1>0, <1>5 DEF Flush, Goto, TypeOK
  <2>2. Landed' = Landed \cup {u}
    BY <1>0, <2>1 DEF Landed, TypeOK
  <2>3. /\ Path(u) \notin DOMAIN InboxBar \cup UserFiles
        /\ InboxBar' = [p \in DOMAIN InboxBar \cup {Path(u)} |->
                          IF p = Path(u) THEN Entry(u) ELSE InboxBar[p]]
    BY <1>0, <1>5, <2>1, <2>2, InboxGrows
  <2>4. PICK s \in Sessions, f \in FileIds, p \in DOMAIN InboxBar' :
          s = SessionOf(u) /\ f = FileOf(u) /\ p = Path(u)
    BY <1>0, <2>1, <2>3, Started
  <2>5. prep[s] = "accepted" /\ f \in tokens[s]
    BY <2>1, <2>4 DEF SessionsInv, UploadsInvited
  <2>6. VerdictBar[s] = "accepted" /\ VerdictBar' = VerdictBar
    BY <2>1, <2>5 DEF VerdictBar, Verdict
  <2>7. Contract!Deliver(s, f, p)
    BY <2>1, <2>3, <2>4, <2>5, <2>6
       DEF Contract!Deliver, VerdictBar, InboxBar, Entry, Size
  <2> QED
    BY <2>4, <2>7 DEF Contract!Next, InboxBar
<1>6. ASSUME NEW u \in Uploads,
             \/ UploadStep(u) \/ DropUpload(u)
             \/ \E s \in Sessions : \E f, t \in FileIds : StartUpload(u, s, f, t),
             \A v \in Uploads : ~(Flush(v) /\ pc'[v] = "account")
      PROVE  UNCHANGED Contract!inboxVars
  <2>1. prep' = prep /\ tokens' = tokens
    BY <1>6 DEF UploadStep, CreateDestination, CheckSession, ReceiveChunk,
       WriteFails, StreamEnds, StreamBreaks, RemoveFile, Flush, AccountFile,
       AnnounceCompletion, DropUpload, StartUpload
  <2>2. VerdictBar' = VerdictBar
    BY <2>1 DEF VerdictBar
  <2> QED
    BY <1>6, <2>1, <2>2, NothingLands, Stutter
<1>7. CASE Restart
  <2>1. \A v \in Uploads : ~(Flush(v) /\ pc'[v] = "account")
    BY <1>0, <1>7, RestartEndsUploads
  <2>2. InboxBar' = InboxBar
    BY <2>1, NothingLands
  <2>3. VerdictBar' = [s \in Sessions |-> IF VerdictBar[s] = "asked"
                                          THEN "refused" ELSE VerdictBar[s]]
    BY <1>0, <1>7 DEF Restart, VerdictBar, Verdict, TypeOK
  <2>4. Contract!SettleAll
    BY <1>7, <2>2, <2>3 DEF Contract!SettleAll, Restart, VerdictBar, InboxBar
  <2> QED
    BY <2>4 DEF Contract!Next
<1>8. CASE UNCHANGED vars
  <2>1. InboxBar' = InboxBar
    BY <1>8 DEF vars, InboxBar, Delivered, SessionOf, FileOf
  <2>2. VerdictBar' = VerdictBar /\ tokens' = tokens
    BY <1>8 DEF vars, VerdictBar
  <2> QED
    BY <2>1, <2>2, Stutter
<1> QED
  BY <1>1, <1>2, <1>3, <1>4, <1>5, <1>6, <1>7, <1>8 DEF Next

\* The server implements its contract: what it has announced stays where it
\* was put, whole; it takes the place of nothing; and it was offered in a
\* request that the user accepted.
THEOREM ServerImplementsInbox == Spec => ImplementsInbox
<1>1. Spec => Contract!Init /\ [][Contract!Next]_(Contract!inboxVars)
  BY ContractInit, ContractStep, FilesAlways, SessionsAlways, PTL DEF Spec
<1> QED
  BY <1>1 DEF ImplementsInbox, Contract!Spec

=============================================================================
