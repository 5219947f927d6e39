-------------------------- MODULE ShareScreenProofs --------------------------
(***************************************************************************)
(* Theorems about ShareScreen, for every value of its constants: whatever  *)
(* devices announce themselves, whatever is asked of the picker's server   *)
(* and whatever the task reports.                                          *)
(***************************************************************************)
EXTENDS ShareScreen, TLAPS

Progresses == "TransferProgress"
Successes  == "TransferCompleted"
Failures   == "TransferFailed"

-----------------------------------------------------------------------------
(* The channel.                                                            *)

\* Whatever is in it, the channel is a sequence.
IsChannel == \E S : events \in Seq(S)

LEMMA ChannelGrows ==
  ASSUME IsChannel, NEW e, events' = Append(events, e)
  PROVE  /\ IsChannel'
         /\ Len(events) \in Nat /\ Len(events') = Len(events) + 1
         /\ DOMAIN events = 1 .. Len(events)
         /\ DOMAIN events' = 1 .. Len(events) + 1
         /\ \A i \in DOMAIN events : events'[i] = events[i]
         /\ events'[Len(events) + 1] = e
<1>1. PICK S : events \in Seq(S)
  BY DEF IsChannel
<1>2. events \in Seq(S \cup {e})
  BY <1>1
<1>3. events' \in Seq(S \cup {e})
  BY <1>2
<1> QED
  BY <1>2, <1>3 DEF IsChannel

\* What a step of the task says.
TaskSays(e) ==
  \/ e.type = "StatusMessage"
  \/ e.type = Progresses
  \/ e.type = Successes /\ e.from = "task"
  \/ e.type = Failures  /\ e.from = "task"

\* Who can say what.
EventOK(e) ==
  /\ e.type = "PeerDiscovered" => e.from \in Devices
  /\ e.type = Successes => e.from = "task"
  /\ e.type = Failures => e.from \in {"task"} \cup Requests

ChannelInv == IsChannel /\ \A i \in DOMAIN events : EventOK(events[i])

\* The body is only open during an upload, or after a share that failed.
BodyInv == body # "none" => pc \in {"upload", "done"}

\* A step of the task adds one event at most, a success only as its last.
LEMMA TaskSpeaks ==
  ASSUME BodyInv, Task!SendNext
  PROVE  /\ \/ UNCHANGED events
            \/ \E e : TaskSays(e) /\ Task!Emit(e)
                      /\ (e.type = Successes => pc' = "done" /\ body' = "none")
         /\ BodyInv'
         /\ pc = "idle" => pc' = "idle"
         /\ ~(pc = "done" /\ body = "none")
<1> DEFINE Goal ==
      /\ \/ UNCHANGED events
         \/ \E e : TaskSays(e) /\ Task!Emit(e)
                   /\ (e.type = Successes => pc' = "done" /\ body' = "none")
      /\ BodyInv'
      /\ pc = "idle" => pc' = "idle"
      /\ ~(pc = "done" /\ body = "none")
<1>1. /\ TaskSays(Task!NoValidFiles) /\ Task!NoValidFiles.type # Successes
      /\ TaskSays(Task!Failed) /\ Task!Failed.type # Successes
      /\ TaskSays(Task!AlreadyThere) /\ TaskSays(Task!NoneWanted)
      /\ TaskSays(Task!SentAll)
      /\ \A n, t : TaskSays(Task!Progress(n, t))
                   /\ Task!Progress(n, t).type # Successes
  BY DEF TaskSays, Progresses, Successes, Failures, Task!NoValidFiles,
         Task!Failed, Task!AlreadyThere, Task!NoneWanted, Task!SentAll,
         Task!Progress, Task!FromTask, Task!AppEvent
<1> USE DEF BodyInv
<1>2. ASSUME NEW f \in Files, Task!StatFile(f) PROVE Goal
  BY <1>2 DEF Task!StatFile
<1>3. ASSUME Task!Offer PROVE Goal
  BY <1>1, <1>3 DEF Task!Offer
<1>4. ASSUME NEW id \in Files \cup Strangers, Task!NextFile(id) PROVE Goal
  BY <1>4 DEF Task!NextFile
<1>5. ASSUME Task!OpenFile PROVE Goal
  BY <1>1, <1>5 DEF Task!OpenFile
<1>6. ASSUME Task!PostCancel PROVE Goal
  BY <1>6 DEF Task!PostCancel
<1>7. ASSUME Task!Finish PROVE Goal
  BY <1>1, <1>7 DEF Task!Finish
<1>8. ASSUME Task!AnsweredWithout PROVE Goal
  BY <1>1, <1>8 DEF Task!AnsweredWithout
<1>9. ASSUME NEW ids \in SUBSET (offered \cup Strangers), Task!AnsweredWith(ids)
      PROVE  Goal
  BY <1>1, <1>9 DEF Task!AnsweredWith
<1>10. ASSUME NEW n \in ChunkSizes, Task!ReadChunk(n) PROVE Goal
  BY <1>1, <1>10 DEF Task!ReadChunk
<1>11. ASSUME Task!EndOfFile PROVE Goal
  BY <1>11 DEF Task!EndOfFile
<1>12. ASSUME Task!UploadFails PROVE Goal
  BY <1>1, <1>12 DEF Task!UploadFails
<1>13. ASSUME Task!UploadTaken PROVE Goal
  BY <1>1, <1>13 DEF Task!UploadTaken
<1>14. ASSUME Task!DropBody PROVE Goal
  BY <1>14 DEF Task!DropBody
<1> HIDE DEF Goal
<1>15. Goal
  BY <1>2, <1>3, <1>4, <1>5, <1>6, <1>7, <1>8, <1>9, <1>10, <1>11, <1>12,
     <1>13, <1>14
     DEF Task!SendNext, Task!TaskStep, Task!AnswerStep, Task!UploadStep
<1> QED
  BY <1>15 DEF Goal

\* Any step adds one event at most.
LEMMA OneEventEach ==
  ASSUME BodyInv, [Next]_vars
  PROVE  \/ UNCHANGED events
         \/ \E e : EventOK(e) /\ events' = Append(events, e)
<1>1. ASSUME NEW p \in Devices, Announce(p)
      PROVE  EventOK(PeerDiscovered(p)) /\ events' = Append(events, PeerDiscovered(p))
  BY <1>1 DEF Announce, Task!Emit, EventOK, PeerDiscovered, Successes, Failures
<1>2. ASSUME NEW r \in Requests, AskUs(r)
      PROVE  /\ EventOK(IncomingTransfer(r))
             /\ events' = Append(events, IncomingTransfer(r))
  BY <1>2 DEF AskUs, Task!Emit, EventOK, IncomingTransfer, Successes, Failures
<1>3. ASSUME NEW r \in Requests, Refuse(r) \/ CancelUs(r)
      PROVE  EventOK(Dropped(r)) /\ events' = Append(events, Dropped(r))
  BY <1>3 DEF Refuse, CancelUs, Task!Emit, EventOK, Dropped, Successes, Failures
<1>4. CASE SendFiles
  BY <1>4, TaskSpeaks
     DEF SendFiles, Task!Emit, TaskSays, EventOK, Progresses, Successes, Failures
<1>5. CASE \/ \E r \in Requests : HangUp(r)
           \/ HandleEvent \/ Move \/ Enter \/ Quit \/ UNCHANGED vars
  BY <1>5 DEF HangUp, HandleEvent, Move, Enter, Quit, vars, Task!Begin
<1> QED
  BY <1>1, <1>2, <1>3, <1>4, <1>5 DEF Next

LEMMA BodyStep == BodyInv /\ OneShare /\ [Next]_vars => BodyInv'
<1> SUFFICES ASSUME BodyInv, OneShare, [Next]_vars PROVE BodyInv'
  OBVIOUS
<1>1. CASE UNCHANGED <<pc, body>>
  BY <1>1 DEF BodyInv
<1>2. CASE SendFiles
  BY <1>2, TaskSpeaks DEF SendFiles
<1>3. CASE Enter
  BY <1>3 DEF Enter, Task!Begin, OneShare, BodyInv
<1> QED
  BY <1>1, <1>2, <1>3
     DEF Next, Announce, AskUs, Refuse, HangUp, CancelUs, Serve, HandleEvent,
         Move, Quit, vars, taskVars

\* The list is shown only before the share: no event leads back to it.
LEMMA OneShareStep == BodyInv /\ OneShare /\ [Next]_vars => OneShare'
<1> SUFFICES ASSUME BodyInv, OneShare, [Next]_vars PROVE OneShare'
  OBVIOUS
<1>1. CASE UNCHANGED <<pc, screen>>
  BY <1>1 DEF OneShare
<1>2. CASE SendFiles
  BY <1>2, TaskSpeaks DEF SendFiles, appVars, OneShare
<1>3. CASE Enter
  BY <1>3 DEF Enter, OneShare, Selecting, Asking, State
<1>4. CASE HandleEvent
  <2>1. screen' = screen \/ screen' # Selecting
    BY <1>4 DEF HandleEvent, ScreenAfter, State, Selecting
  <2> QED
    BY <1>4, <2>1 DEF HandleEvent, taskVars, OneShare
<1> QED
  BY <1>1, <1>2, <1>3, <1>4
     DEF Next, Announce, AskUs, Refuse, HangUp, CancelUs, Serve, Move, Quit,
         vars, taskVars, appVars

LEMMA ChannelStep == ChannelInv /\ BodyInv /\ [Next]_vars => ChannelInv'
<1> SUFFICES ASSUME ChannelInv, BodyInv, [Next]_vars PROVE ChannelInv'
  OBVIOUS
<1>1. CASE UNCHANGED events
  BY <1>1 DEF ChannelInv, IsChannel
<1>2. ASSUME NEW e, EventOK(e), events' = Append(events, e)
      PROVE  ChannelInv'
  <2>1. /\ IsChannel' /\ \A i \in DOMAIN events : events'[i] = events[i]
        /\ events'[Len(events) + 1] = e
        /\ DOMAIN events = 1 .. Len(events) /\ Len(events) \in Nat
        /\ DOMAIN events' = 1 .. Len(events) + 1
    BY <1>2, ChannelGrows DEF ChannelInv
  <2>2. ASSUME NEW i \in DOMAIN events' PROVE EventOK(events'[i])
    <3>1. i \in DOMAIN events \/ i = Len(events) + 1
      BY <2>1
    <3> QED
      BY <1>2, <2>1, <3>1 DEF ChannelInv
  <2>3. (\A i \in DOMAIN events : EventOK(events[i]))'
    BY <2>2
  <2> QED
    BY <2>1, <2>3 DEF ChannelInv
<1> QED
  BY <1>1, <1>2, OneEventEach

-----------------------------------------------------------------------------
(* The list of devices.                                                    *)

ListInv == TypeOK /\ PeersListed

\* A step that leaves the list alone keeps it.
LEMMA ListKept ==
  ASSUME PeersListed, UNCHANGED <<peers, peerIndexes>>
  PROVE  PeersListed'
BY DEF PeersListed

\* add_peer updates a device where it stands or puts it at the end.
LEMMA AddPeerKeeps ==
  ASSUME ListInv, NEW p \in Devices, ~Passed(p), AddPeer(p)
  PROVE  /\ PeersListed'
         /\ peers' \in Seq(Devices) /\ Len(peers) \in Nat
         /\ Len(peers') \in {Len(peers), Len(peers) + 1}
         /\ DOMAIN peerIndexes' \subseteq {q.fingerprint : q \in Devices}
         /\ \A i \in DOMAIN peers :
              /\ i \in DOMAIN peers'
              /\ peers'[i].fingerprint = peers[i].fingerprint
<1> DEFINE x == p.fingerprint
<1>0. /\ peers \in Seq(Devices) /\ Len(peers) \in Nat
      /\ DOMAIN peers = 1 .. Len(peers)
      /\ \A i \in DOMAIN peers : peers[i] \in Devices
  BY DEF ListInv, TypeOK
<1>1. CASE x \in DOMAIN peerIndexes
  <2>1. /\ peerIndexes[x] \in DOMAIN peers
        /\ peers[peerIndexes[x]].fingerprint = x
    BY <1>1 DEF ListInv, PeersListed
  <2>2. peers' = [peers EXCEPT ![peerIndexes[x]] = p] /\ peerIndexes' = peerIndexes
    BY <1>1 DEF AddPeer
  <2>3. /\ peers' \in Seq(Devices) /\ Len(peers') = Len(peers)
        /\ DOMAIN peers' = DOMAIN peers
        /\ peers'[peerIndexes[x]] = p
        /\ \A i \in DOMAIN peers : i # peerIndexes[x] => peers'[i] = peers[i]
    BY <1>0, <2>1, <2>2
  <2>4. \A i \in DOMAIN peers : peers'[i].fingerprint = peers[i].fingerprint
    BY <2>1, <2>3
  <2>5. PeersListed'
    <3>1. \A y \in DOMAIN peerIndexes :
            /\ peerIndexes[y] \in DOMAIN peers
            /\ peers[peerIndexes[y]].fingerprint = y
      BY DEF ListInv, PeersListed
    <3>2. \A i \in DOMAIN peers :
            /\ peers[i].fingerprint \in DOMAIN peerIndexes
            /\ peerIndexes[peers[i].fingerprint] = i
            /\ ~Passed(peers[i])
      BY DEF ListInv, PeersListed
    <3>3. \A i \in DOMAIN peers : ~Passed(peers'[i])
      BY <2>3, <3>2
    <3>4. (\A y \in DOMAIN peerIndexes :
             /\ peerIndexes[y] \in DOMAIN peers
             /\ peers[peerIndexes[y]].fingerprint = y)'
      BY <2>2, <2>3, <2>4, <3>1
    <3>5. (\A i \in DOMAIN peers :
             /\ peers[i].fingerprint \in DOMAIN peerIndexes
             /\ peerIndexes[peers[i].fingerprint] = i
             /\ ~Passed(peers[i]))'
      BY <2>2, <2>3, <2>4, <3>2, <3>3 DEF Passed
    <3> QED
      BY <3>4, <3>5 DEF PeersListed
  <2> QED
    BY <1>0, <2>2, <2>3, <2>4, <2>5 DEF ListInv, TypeOK
<1>2. CASE x \notin DOMAIN peerIndexes
  <2> DEFINE n == Len(peers) + 1
  <2>1. /\ peers' = Append(peers, p)
        /\ peerIndexes' = [y \in DOMAIN peerIndexes \cup {x} |->
                             IF y = x THEN n ELSE peerIndexes[y]]
    BY <1>2 DEF AddPeer, Listed
  <2>2. /\ peers' \in Seq(Devices) /\ Len(peers') = n
        /\ DOMAIN peers' = DOMAIN peers \cup {n}
        /\ peers'[n] = p
        /\ \A i \in DOMAIN peers : peers'[i] = peers[i] /\ i # n
    BY <1>0, <2>1
  <2>3. PeersListed'
    <3>1. \A y \in DOMAIN peerIndexes :
            /\ peerIndexes[y] \in DOMAIN peers
            /\ peers[peerIndexes[y]].fingerprint = y
      BY DEF ListInv, PeersListed
    <3>2. \A i \in DOMAIN peers :
            /\ peers[i].fingerprint \in DOMAIN peerIndexes
            /\ peerIndexes[peers[i].fingerprint] = i
            /\ ~Passed(peers[i])
      BY DEF ListInv, PeersListed
    <3> HIDE DEF n
    <3>3. /\ DOMAIN peerIndexes' = DOMAIN peerIndexes \cup {x}
          /\ peerIndexes'[x] = n
          /\ \A y \in DOMAIN peerIndexes : peerIndexes'[y] = peerIndexes[y]
      BY <1>2, <2>1
    <3>4. (\A y \in DOMAIN peerIndexes :
             /\ peerIndexes[y] \in DOMAIN peers
             /\ peers[peerIndexes[y]].fingerprint = y)'
      BY <2>2, <3>1, <3>3
    <3>5. (\A i \in DOMAIN peers :
             /\ peers[i].fingerprint \in DOMAIN peerIndexes
             /\ peerIndexes[peers[i].fingerprint] = i
             /\ ~Passed(peers[i]))'
      BY <2>2, <3>2, <3>3 DEF Passed
    <3> QED
      BY <3>4, <3>5 DEF PeersListed
  <2> QED
    BY <1>0, <2>1, <2>2, <2>3 DEF ListInv, TypeOK
<1> QED
  BY <1>1, <1>2

\* Up and Down stay in the list.
LEMMA MoveStays ==
  ASSUME TypeOK, Move
  PROVE  selected' \in Nat /\ selected' < Len(peers)
<1>1. Len(peers) \in Nat /\ Len(peers) > 0 /\ selected \in Nat
      /\ selected < Len(peers)
  BY DEF TypeOK, Move
<1>2. Back \in Nat /\ Back < Len(peers)
  BY <1>1 DEF Back
<1>3. Down \in Nat /\ Down < Len(peers)
  <2>1. CASE selected + 1 < Len(peers)
    BY <1>1, <2>1 DEF Down
  <2>2. CASE selected + 1 = Len(peers)
    BY <1>1, <2>2 DEF Down
  <2> QED
    BY <1>1, <2>1, <2>2
<1> QED
  BY <1>2, <1>3 DEF Move

LEMMA HandledEvent ==
  ASSUME ChannelInv, HandleEvent, handled \in Nat
  PROVE  /\ handled + 1 \in DOMAIN events
         /\ EventOK(events[handled + 1])
         /\ handled' = handled + 1 /\ handled' \in 0 .. Len(events)
<1>1. DOMAIN events = 1 .. Len(events) /\ Len(events) \in Nat
  BY DEF ChannelInv, IsChannel
<1> QED
  BY <1>1 DEF ChannelInv, HandleEvent

LEMMA ListStep ==
  ChannelInv /\ BodyInv /\ ListInv /\ [Next]_vars => ListInv'
<1> SUFFICES ASSUME ChannelInv, BodyInv, ListInv, [Next]_vars PROVE ListInv'
  OBVIOUS
<1>0. TypeOK /\ PeersListed
  BY DEF ListInv
<1>1. handled \in Nat /\ (handled' = handled => handled' \in 0 .. Len(events'))
  <2>1. Len(events) \in Nat /\ Len(events') \in {Len(events), Len(events) + 1}
    <3>1. Len(events) \in Nat
      BY DEF ChannelInv, IsChannel
    <3>2. ASSUME NEW e, events' = Append(events, e)
          PROVE  Len(events') = Len(events) + 1
      BY <3>2, ChannelGrows DEF ChannelInv
    <3> QED
      BY <3>1, <3>2, OneEventEach
  <2> QED
    BY <1>0, <2>1 DEF TypeOK
<1> DEFINE Idle == UNCHANGED <<handled, peers, peerIndexes>>
<1>2. CASE Idle /\ UNCHANGED <<selected, screen, request, running>>
  BY <1>0, <1>1, <1>2, ListKept DEF ListInv, TypeOK
<1>3. ASSUME NEW r \in Requests, NEW from, NEW to \in {"asked", "over"},
             Serve(r, from, to)
      PROVE  ListInv'
  BY <1>0, <1>1, <1>3, ListKept DEF Serve, ListInv, TypeOK
<1>4. CASE HandleEvent
  <2>1. handled' \in 0 .. Len(events') /\ EventOK(events[handled + 1])
        /\ UNCHANGED <<events, selected, running>>
    BY <1>1, <1>4, HandledEvent DEF HandleEvent
  <2>2. screen'.state \in {"Selecting", "Sending", "Completed", "Failed"}
    BY <1>0, <1>4 DEF HandleEvent, ScreenAfter, State, TypeOK
  <2>3. request' \in [Requests -> {"none", "asked", "declined", "over"}]
    BY <1>0, <1>4 DEF HandleEvent, Decline, TypeOK
  <2>4. CASE UNCHANGED <<peers, peerIndexes>>
    BY <1>0, <2>1, <2>2, <2>3, <2>4, ListKept DEF ListInv, TypeOK
  <2>5. ASSUME NEW p, p = events[handled + 1].from, ~Passed(p), AddPeer(p),
               events[handled + 1].type = "PeerDiscovered"
        PROVE  ListInv'
    <3>1. p \in Devices
      BY <2>1, <2>5 DEF EventOK
    <3>2. /\ PeersListed' /\ peers' \in Seq(Devices) /\ Len(peers) \in Nat
          /\ Len(peers') \in {Len(peers), Len(peers) + 1}
          /\ DOMAIN peerIndexes' \subseteq {q.fingerprint : q \in Devices}
      BY <2>5, <3>1, AddPeerKeeps
    <3>3. selected' < Len(peers') \/ selected' = 0
      BY <1>0, <2>1, <3>2 DEF TypeOK
    <3> QED
      BY <1>0, <2>1, <2>2, <2>3, <3>2, <3>3 DEF ListInv, TypeOK
  <2> QED
    BY <1>4, <2>4, <2>5 DEF HandleEvent
<1>5. CASE Move
  <2>1. selected' \in Nat /\ selected' < Len(peers)
    BY <1>0, <1>5, MoveStays
  <2> QED
    BY <1>0, <1>1, <1>5, <2>1, ListKept DEF Move, ListInv, TypeOK
<1>6. CASE Enter
  BY <1>0, <1>1, <1>6, ListKept DEF Enter, Asking, State, ListInv, TypeOK
<1>7. CASE Quit
  BY <1>0, <1>1, <1>7, ListKept DEF Quit, ListInv, TypeOK
<1> QED
  BY <1>2, <1>3, <1>4, <1>5, <1>6, <1>7
     DEF Next, Announce, AskUs, Refuse, HangUp, CancelUs, SendFiles, vars,
         appVars

-----------------------------------------------------------------------------
(* What is shown.  A success is the last the channel gets from the task, so  *)
(* it is the last of the task that the loop takes.                           *)

SuccessIsLast ==
  \A i \in DOMAIN events : events[i].type = Successes =>
    /\ pc = "done" /\ body = "none"
    /\ \A j \in DOMAIN events : j > i =>
         /\ events[j].type \notin {Progresses, Successes}
         /\ events[j].type = Failures => events[j].from \in Requests

ShownWasSent ==
  screen.state = "Completed" =>
    \E i \in 1 .. handled : /\ events[i] = screen.shows
                            /\ events[i].type = Successes

ScreenInv == ChannelInv /\ BodyInv /\ OneShare /\ ListInv
             /\ SuccessIsLast /\ ShownWasSent

LEMMA SuccessStep ==
  ScreenInv /\ [Next]_vars => SuccessIsLast'
<1> SUFFICES ASSUME ScreenInv, [Next]_vars PROVE SuccessIsLast'
  OBVIOUS
<1> USE DEF Progresses, Successes, Failures
<1>0. /\ ChannelInv /\ BodyInv /\ OneShare /\ ListInv /\ SuccessIsLast
      /\ IsChannel
  BY DEF ScreenInv, ChannelInv
<1>1. CASE UNCHANGED <<pc, body, events>>
  BY <1>0, <1>1 DEF SuccessIsLast
\* What does not come from the task leaves the last success the last.
<1>2. ASSUME NEW e, events' = Append(events, e), UNCHANGED <<pc, body>>,
             e.type \notin {Progresses, Successes},
             e.type = Failures => e.from \in Requests
      PROVE  SuccessIsLast'
  <2>1. /\ DOMAIN events = 1 .. Len(events) /\ Len(events) \in Nat
        /\ DOMAIN events' = 1 .. Len(events) + 1
        /\ \A i \in DOMAIN events : events'[i] = events[i]
        /\ events'[Len(events) + 1] = e
    BY <1>0, <1>2, ChannelGrows
  <2> SUFFICES ASSUME NEW i \in DOMAIN events', events'[i].type = Successes
               PROVE  /\ pc' = "done" /\ body' = "none"
                      /\ \A j \in DOMAIN events' : j > i =>
                           /\ events'[j].type \notin {Progresses, Successes}
                           /\ events'[j].type = Failures
                                => events'[j].from \in Requests
    BY DEF SuccessIsLast
  <2>2. i \in DOMAIN events /\ events[i].type = Successes
    BY <1>2, <2>1
  <2>3. /\ pc = "done" /\ body = "none"
        /\ \A j \in DOMAIN events : j > i =>
             /\ events[j].type \notin {Progresses, Successes}
             /\ events[j].type = Failures => events[j].from \in Requests
    BY <1>0, <2>2 DEF SuccessIsLast
  <2>4. \A j \in DOMAIN events' : j \in DOMAIN events \/ j = Len(events) + 1
    BY <2>1
  <2> QED
    BY <1>2, <2>1, <2>3, <2>4
\* There was none if the task can still speak.
<1>3. ASSUME SendFiles PROVE SuccessIsLast'
  <2>1. ~(pc = "done" /\ body = "none")
    BY <1>0, <1>3, TaskSpeaks DEF SendFiles
  <2>2. \A i \in DOMAIN events : events[i].type # Successes
    BY <1>0, <2>1 DEF SuccessIsLast
  <2>3. CASE UNCHANGED events
    BY <2>2, <2>3 DEF SuccessIsLast
  <2>4. ASSUME NEW e, Task!Emit(e),
               e.type = Successes => pc' = "done" /\ body' = "none"
        PROVE  SuccessIsLast'
    <3>1. /\ DOMAIN events = 1 .. Len(events) /\ Len(events) \in Nat
          /\ DOMAIN events' = 1 .. Len(events) + 1
          /\ \A i \in DOMAIN events : events'[i] = events[i]
          /\ events'[Len(events) + 1] = e
      BY <1>0, <2>4, ChannelGrows DEF Task!Emit
    <3>2. \A i \in DOMAIN events' :
            events'[i].type = Successes => i = Len(events) + 1
                                           /\ pc' = "done" /\ body' = "none"
      BY <2>2, <2>4, <3>1
    <3>3. \A j \in DOMAIN events' : ~(j > Len(events) + 1)
      BY <3>1
    <3> QED
      BY <3>2, <3>3 DEF SuccessIsLast
  <2> QED
    BY <1>0, <1>3, <2>3, <2>4, TaskSpeaks DEF SendFiles
<1>4. CASE Enter
  <2>1. /\ pc = "idle" /\ UNCHANGED events
    BY <1>0, <1>4 DEF Enter, OneShare, Task!Begin
  <2>2. \A i \in DOMAIN events : events[i].type # Successes
    BY <1>0, <2>1 DEF SuccessIsLast
  <2> QED
    BY <2>1, <2>2 DEF SuccessIsLast
<1>5. ASSUME NEW p \in Devices, Announce(p) PROVE SuccessIsLast'
  BY <1>2, <1>5 DEF Announce, Task!Emit, PeerDiscovered, taskVars
<1>6. ASSUME NEW r \in Requests, AskUs(r) PROVE SuccessIsLast'
  BY <1>2, <1>6 DEF AskUs, Serve, Task!Emit, IncomingTransfer, taskVars
<1>7. ASSUME NEW r \in Requests, Refuse(r) \/ CancelUs(r) PROVE SuccessIsLast'
  BY <1>2, <1>7 DEF Refuse, CancelUs, Serve, Task!Emit, Dropped, taskVars
<1> QED
  BY <1>1, <1>3, <1>4, <1>5, <1>6, <1>7
     DEF Next, HangUp, Serve, HandleEvent, Move, Quit, vars, taskVars

LEMMA ShownStep == ScreenInv /\ [Next]_vars => ShownWasSent'
<1> SUFFICES ASSUME ScreenInv, [Next]_vars, screen'.state = "Completed"
             PROVE  \E i \in 1 .. handled' :
                      events'[i] = screen'.shows /\ events'[i].type = Successes
  BY DEF ShownWasSent
<1>0. /\ ChannelInv /\ BodyInv /\ TypeOK /\ ShownWasSent /\ IsChannel
      /\ handled \in 0 .. Len(events) /\ Len(events) \in Nat
      /\ DOMAIN events = 1 .. Len(events)
  BY DEF ScreenInv, ListInv, ChannelInv, IsChannel, TypeOK
<1>1. \A i \in DOMAIN events : events'[i] = events[i]
  <2>1. ASSUME NEW e, events' = Append(events, e)
        PROVE  \A i \in DOMAIN events : events'[i] = events[i]
    BY <1>0, <2>1, ChannelGrows
  <2> QED
    BY <1>0, <2>1, OneEventEach
<1>2. CASE UNCHANGED <<screen, handled>>
  <2>1. PICK i \in 1 .. handled : events[i] = screen.shows /\ events[i].type = Successes
    BY <1>0, <1>2 DEF ShownWasSent
  <2>2. i \in DOMAIN events /\ i \in 1 .. handled'
    BY <1>0, <1>2
  <2> QED
    BY <1>1, <1>2, <2>1, <2>2
<1>3. CASE HandleEvent
  <2>1. /\ handled + 1 \in DOMAIN events /\ handled' = handled + 1
        /\ UNCHANGED events /\ screen' = ScreenAfter(events[handled + 1])
    BY <1>0, <1>3, HandledEvent DEF HandleEvent
  <2>2. CASE events[handled + 1].type = Successes
    <3>1. screen'.shows = events[handled + 1]
      BY <2>1, <2>2 DEF ScreenAfter, State, Successes
    <3>2. handled + 1 \in 1 .. handled'
      BY <1>0, <2>1
    <3> QED
      BY <2>1, <2>2, <3>1, <3>2
  <2>3. CASE events[handled + 1].type # Successes
    <3>1. screen' = screen
      BY <2>1, <2>3 DEF ScreenAfter, State, Successes
    <3>2. PICK i \in 1 .. handled : events[i] = screen.shows /\ events[i].type = Successes
      BY <1>0, <3>1 DEF ShownWasSent
    <3>3. i \in 1 .. handled'
      BY <1>0, <2>1
    <3> QED
      BY <2>1, <3>1, <3>2, <3>3
  <2> QED
    BY <2>2, <2>3
<1>4. screen' # Asking
  BY DEF Asking, State
<1> QED
  BY <1>2, <1>3, <1>4
     DEF Next, Announce, AskUs, Refuse, HangUp, CancelUs, Serve, SendFiles,
         Move, Enter, Quit, vars, appVars

LEMMA ScreenAlways == Spec => []ScreenInv
<1>1. Init => ScreenInv
  <2> SUFFICES ASSUME Init PROVE ScreenInv
    OBVIOUS
  <2>1. events = << >> /\ events \in Seq({}) /\ DOMAIN events = {} /\ Len(events) = 0
    BY DEF Init, Task!Init
  <2>2. ChannelInv /\ SuccessIsLast
    BY <2>1 DEF ChannelInv, IsChannel, SuccessIsLast
  <2>3. BodyInv /\ OneShare /\ ShownWasSent
    BY DEF Init, Task!Init, Task!SendInit, BodyInv, OneShare, ShownWasSent,
           Selecting, State
  <2>4. peers = << >> /\ peers \in Seq(Devices) /\ DOMAIN peers = {}
        /\ DOMAIN peerIndexes = {}
    BY DEF Init
  <2>5. TypeOK
    BY <2>1, <2>4 DEF Init, TypeOK, Selecting, State
  <2>6. PeersListed
    BY <2>4 DEF PeersListed
  <2> QED
    BY <2>2, <2>3, <2>5, <2>6 DEF ScreenInv, ListInv
<1>2. ScreenInv /\ [Next]_vars => ScreenInv'
  BY ChannelStep, BodyStep, OneShareStep, ListStep, SuccessStep, ShownStep
     DEF ScreenInv
<1> QED
  BY <1>1, <1>2, PTL DEF Spec

-----------------------------------------------------------------------------

\* The picker's state keeps its shape; the highlight never leaves the list.
THEOREM ScreenTypeCorrect == Spec => []TypeOK
<1>1. ScreenInv => TypeOK
  BY DEF ScreenInv, ListInv
<1> QED
  BY <1>1, ScreenAlways, PTL

\* Every listed device is found where it stands, each once, and none is us:
\* add_peer keeps peers and peer_indexes together for any announcements.
THEOREM ListIsIndexed == Spec => []PeersListed
<1>1. ScreenInv => PeersListed
  BY DEF ScreenInv, ListInv
<1> QED
  BY <1>1, ScreenAlways, PTL

\* No second task is started: nothing that comes in leads back to the list.
THEOREM NeverTwoShares == Spec => []OneShare
<1>1. ScreenInv => OneShare
  BY DEF ScreenInv
<1> QED
  BY <1>1, ScreenAlways, PTL

\* News of devices never moves another device under the highlight.
THEOREM HighlightStays == Spec => HighlightKept
<1>1. ScreenInv /\ [Next]_vars
        => [handled' # handled /\ peers # << >>
              => peers'[selected' + 1].fingerprint
                   = peers[selected + 1].fingerprint]_vars
  <2> SUFFICES ASSUME ScreenInv, [Next]_vars, handled' # handled, peers # << >>
               PROVE  peers'[selected' + 1].fingerprint
                        = peers[selected + 1].fingerprint
    OBVIOUS
  <2>1. HandleEvent
    BY DEF Next, Announce, AskUs, Refuse, HangUp, CancelUs, Serve, SendFiles,
           Move, Enter, Quit, vars, appVars
  <2>2. ListInv /\ ChannelInv /\ TypeOK /\ handled \in Nat
    BY DEF ScreenInv, ListInv, TypeOK
  <2>3. EventOK(events[handled + 1])
    BY <2>1, <2>2, HandledEvent
  <2>4. selected + 1 \in DOMAIN peers
    <3>1. peers \in Seq(Devices) /\ Len(peers) \in Nat /\ Len(peers) # 0
          /\ DOMAIN peers = 1 .. Len(peers) /\ selected \in Nat
      BY <2>2 DEF TypeOK
    <3> QED
      BY <2>2, <3>1 DEF TypeOK
  <2>5. CASE UNCHANGED peers
    BY <2>1, <2>5 DEF HandleEvent
  <2>6. ASSUME NEW p, p = events[handled + 1].from, ~Passed(p), AddPeer(p),
               events[handled + 1].type = "PeerDiscovered"
        PROVE  peers'[selected + 1].fingerprint
                 = peers[selected + 1].fingerprint
    <3>1. p \in Devices
      BY <2>3, <2>6 DEF EventOK
    <3> QED
      BY <2>2, <2>4, <2>6, <3>1, AddPeerKeeps
  <2> QED
    BY <2>1, <2>5, <2>6 DEF HandleEvent
<1> QED
  BY <1>1, ScreenAlways, PTL DEF Spec, HighlightKept

\* A success on the screen is the task's last word, and stays there until
\* another device's request fails at the picker's own server.
THEOREM SuccessStaysShown == Spec => SuccessStands
<1>1. ScreenInv => (screen.state = "Completed"
                      => pc = "done" /\ screen.shows.from = "task")
  <2> SUFFICES ASSUME ScreenInv, screen.state = "Completed"
               PROVE  pc = "done" /\ screen.shows.from = "task"
    OBVIOUS
  <2>1. PICK i \in 1 .. handled : events[i] = screen.shows /\ events[i].type = Successes
    BY DEF ScreenInv, ShownWasSent
  <2>2. i \in DOMAIN events
    BY DEF ScreenInv, ListInv, TypeOK, ChannelInv, IsChannel
  <2> QED
    BY <2>1, <2>2 DEF ScreenInv, SuccessIsLast, ChannelInv, EventOK
<1>2. ScreenInv /\ [Next]_vars
        => [screen.state = "Completed" /\ screen' # screen
              => screen'.shows.from \in Requests]_vars
  <2> SUFFICES ASSUME ScreenInv, [Next]_vars, screen.state = "Completed",
                      screen' # screen
               PROVE  screen'.shows.from \in Requests
    OBVIOUS
  <2>1. HandleEvent
    BY DEF Next, Announce, AskUs, Refuse, HangUp, CancelUs, Serve, SendFiles,
           Move, Enter, Quit, Selecting, State, vars, appVars
  <2>2. PICK i \in 1 .. handled : events[i].type = Successes
    BY DEF ScreenInv, ShownWasSent
  <2>3. /\ i \in DOMAIN events /\ handled + 1 \in DOMAIN events
        /\ handled + 1 > i
    BY <2>1, HandledEvent DEF ScreenInv, ListInv, TypeOK, ChannelInv, IsChannel
  <2> DEFINE e == events[handled + 1]
  <2>4. /\ e.type \notin {Progresses, Successes}
        /\ e.type = Failures => e.from \in Requests
    BY <2>2, <2>3 DEF ScreenInv, SuccessIsLast
  <2>5. screen' = ScreenAfter(e)
    BY <2>1 DEF HandleEvent
  <2> HIDE DEF e
  <2>6. e.type = Failures /\ screen'.shows = e
    BY <2>4, <2>5 DEF ScreenAfter, State, Progresses, Successes, Failures
  <2> QED
    BY <2>4, <2>6
<1> QED
  BY <1>1, <1>2, ScreenAlways, PTL DEF Spec, SuccessStands
=============================================================================
