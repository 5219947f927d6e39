----------------------------- MODULE ShareScreen -----------------------------
(***************************************************************************)
(* `monosend share` (src/src/share.rs): the picker that lists devices,     *)
(* starts send_files for the highlighted one and shows what comes of it.   *)
(* One loop draws, takes keys and takes AppEvents from a channel; the      *)
(* discovery engine, the task of send_files (SendFiles) and the small      *)
(* LocalSend server that the picker runs all write to that channel.        *)
(*                                                                         *)
(* Everything ends with the process, so no action is enabled after a quit. *)
(***************************************************************************)
EXTENDS Naturals, Sequences, FiniteSets

CONSTANTS
  Files, Strangers, FileSize, MaxLength, ChunkSizes, None, Hitches,
  Devices,       \* announcements that discovery can hear: Peer records
  Ourselves,     \* our own fingerprint
  OurAlias,      \* our own alias
  LocalIps,      \* get_local_v4_ips
  Requests,      \* prepare-upload requests that other devices post to us
  MaxAnnounced   \* bound on the announcements heard

VARIABLES
  pc, todo, offered, wanted, file, body, position, base, taken,
  changed,
  events,        \* the channel: every AppEvent sent so far
  handled,       \* how many of them the loop has taken
  peers,         \* ShareApp.peers, numbered from 1
  peerIndexes,   \* ShareApp.peer_indexes: fingerprint -> place in peers
  selected,      \* ShareApp.selected, from 0
  screen,        \* ShareApp.state and the event it shows
  request,       \* request[r]: where the handler of request r stands
  running        \* the loop has not ended

Task == INSTANCE SendFiles

taskVars == <<pc, todo, offered, wanted, file, body, position, base, taken,
              changed>>
appVars  == <<handled, peers, peerIndexes, selected, screen, request, running>>
vars     == <<taskVars, events, appVars>>

-----------------------------------------------------------------------------
(* Events that do not come from the task.                                  *)

PeerDiscovered(p)   == [type |-> "PeerDiscovered", from |-> p]
IncomingTransfer(r) == [type |-> "IncomingTransfer", from |-> r]
\* TransferFailed of the server: declined, or "cancelled by sender".
Dropped(r)          == [type |-> "TransferFailed", from |-> r]

Announced == {i \in DOMAIN events : events[i].type = "PeerDiscovered"}

\* ShareState, with the event whose text it shows.
State(name, e) == [state |-> name, shows |-> e]
Selecting == State("Selecting", None)
Asking    == State("Sending", None)  \* "Waiting for ... to accept"

Init ==
  /\ Task!Init
  /\ handled = 0
  /\ peers = << >> /\ peerIndexes = [x \in {} |-> 0] /\ selected = 0
  /\ screen = Selecting
  /\ request = [r \in Requests |-> "none"]
  /\ running = TRUE

-----------------------------------------------------------------------------
(* What other devices make the discovery engine and the server send.       *)

\* An announcement over UDP or a register request, rescan or not.
Announce(p) ==
  /\ running
  /\ Cardinality(Announced) < MaxAnnounced
  /\ Task!Emit(PeerDiscovered(p))
  /\ UNCHANGED <<taskVars, appVars>>

\* A handler of the server goes on, with or without an event.
Serve(r, from, to) ==
  /\ running
  /\ request[r] \in from
  /\ request' = [request EXCEPT ![r] = to]
  /\ UNCHANGED <<taskVars, handled, peers, peerIndexes, selected, screen,
                 running>>

\* prepare-upload asks the loop and waits; the loop always says no.
AskUs(r)     == Serve(r, {"none"}, "asked") /\ Task!Emit(IncomingTransfer(r))
Refuse(r)    == Serve(r, {"declined"}, "over") /\ Task!Emit(Dropped(r))
\* The other side hangs up, and the handler is dropped.
HangUp(r)    == Serve(r, {"asked", "declined"}, "over") /\ UNCHANGED events
\* A cancel for a session that the server need not know.
CancelUs(r)  == Serve(r, {"none"}, "over") /\ Task!Emit(Dropped(r))

-----------------------------------------------------------------------------
(* The loop.                                                               *)

\* Variant: Enter awaits send_files where it is.
AwaitingShare == running /\ pc \in {"idle", "done"}

\* The loop is at its select!, also while a share runs: that is a task.
AtSelect == running

-----------------------------------------------------------------------------
(* handle_event                                                            *)

\* add_peer passes over ourselves: this picker, or a receiver on this host.
Passed(p) ==
  p.fingerprint = Ourselves \/ (p.alias = OurAlias /\ p.ip \in LocalIps)

\* Variant: new devices go to the top of the list.
ListedFirst(p) == <<p>> \o peers

\* A new device goes to the end of the list.
Listed(p) == Append(peers, p)

AddPeer(p) ==
  LET x == p.fingerprint
  IN IF x \in DOMAIN peerIndexes
     THEN /\ peers' = [peers EXCEPT ![peerIndexes[x]] = p]
          /\ UNCHANGED peerIndexes
     ELSE /\ peers' = Listed(p)
          /\ peerIndexes' = [y \in DOMAIN peerIndexes \cup {x} |->
                               IF y = x THEN Len(peers) + 1
                                        ELSE peerIndexes[y]]

\* Variants: a failure leads back to the list; a success is not shown; either
\* is shown as a success.
BackToList(e) ==
  IF e.type = "TransferFailed" THEN Selecting ELSE screen
OnlyFailures(e) ==
  IF e.type = "TransferFailed" THEN State("Failed", e) ELSE screen

EitherWay(e) ==
  IF e.type \in {"TransferCompleted", "TransferFailed"}
  THEN State("Completed", e) ELSE screen

\* The state an event leads to, whatever the state was.
ScreenAfter(e) ==
  CASE e.type = "TransferProgress"  -> State("Sending", e)
    [] e.type = "TransferCompleted" -> State("Completed", e)
    [] e.type = "TransferFailed"    -> State("Failed", e)
    [] OTHER                        -> screen

\* Every request from another device is declined.
Decline(e) ==
  [r \in Requests |->
     IF e.type = "IncomingTransfer" /\ e.from = r /\ request[r] = "asked"
     THEN "declined" ELSE request[r]]

HandleEvent ==
  /\ AtSelect
  /\ handled < Len(events)
  /\ LET e == events[handled + 1]
     IN /\ screen'  = ScreenAfter(e)
        /\ request' = Decline(e)
        /\ IF e.type = "PeerDiscovered" /\ ~Passed(e.from)
           THEN AddPeer(e.from)
           ELSE UNCHANGED <<peers, peerIndexes>>
  /\ handled' = handled + 1
  /\ UNCHANGED <<taskVars, events, selected, running>>

-----------------------------------------------------------------------------
(* handle_key                                                              *)

\* Variant: no wrap at the end of the list.
Onward == selected + 1

Back == IF selected = 0 THEN Len(peers) - 1 ELSE selected - 1
Down == (selected + 1) % Len(peers)

\* Up and Down move the highlight, round the ends of the list.
Move ==
  /\ AtSelect /\ screen = Selecting /\ peers # << >>
  /\ selected' \in {Back, Down}
  /\ UNCHANGED <<taskVars, events, handled, peers, peerIndexes, screen,
                 request, running>>

\* Enter starts the task for the highlighted device, if there is one.
Enter ==
  /\ AtSelect /\ screen = Selecting /\ selected + 1 \in DOMAIN peers
  /\ screen' = Asking
  /\ Task!Begin
  /\ UNCHANGED <<handled, peers, peerIndexes, selected, request, running>>

\* Ctrl+C, q or Esc at any time, Enter on an outcome, the end of the input.
Quit ==
  /\ AtSelect
  /\ running' = FALSE
  /\ UNCHANGED <<taskVars, events, handled, peers, peerIndexes, selected,
                 screen, request>>

-----------------------------------------------------------------------------
SendFiles == running /\ Task!SendNext /\ UNCHANGED appVars

Next ==
  \/ \E p \in Devices : Announce(p)
  \/ \E r \in Requests : AskUs(r) \/ Refuse(r) \/ HangUp(r) \/ CancelUs(r)
  \/ SendFiles
  \/ HandleEvent
  \/ Move
  \/ Enter
  \/ Quit

Spec == Init /\ [][Next]_vars

\* The loop takes what is in its channel: select! picks a ready branch at
\* random.  Nothing is owed by devices, receivers or the user.
FairSpec == Spec /\ WF_vars(HandleEvent)

-----------------------------------------------------------------------------
(* Properties.                                                             *)

\* Shapes; the highlight is always on a device, if any is listed.
TypeOK ==
  /\ handled \in 0 .. Len(events)
  /\ peers \in Seq(Devices)
  /\ selected \in Nat
  /\ selected < Len(peers) \/ selected = 0
  /\ DOMAIN peerIndexes \subseteq {p.fingerprint : p \in Devices}
  /\ screen.state \in {"Selecting", "Sending", "Completed", "Failed"}
  /\ request \in [Requests -> {"none", "asked", "declined", "over"}]
  /\ running \in BOOLEAN

\* peer_indexes finds every listed device where it stands, so no device is
\* listed twice and news of one never overwrites another (add_peer), and we
\* are not in the list.
PeersListed ==
  /\ \A x \in DOMAIN peerIndexes :
       /\ peerIndexes[x] \in DOMAIN peers
       /\ peers[peerIndexes[x]].fingerprint = x
  /\ \A i \in DOMAIN peers :
       /\ peers[i].fingerprint \in DOMAIN peerIndexes
       /\ peerIndexes[peers[i].fingerprint] = i
       /\ ~Passed(peers[i])

\* Whatever is discovered between two keys, the device under the highlight
\* stays the same device: Enter sends to the one the user sees (add_peer
\* updates in place and appends, `selected` is a position).
HighlightKept ==
  [][handled' # handled /\ peers # << >>
       => peers'[selected' + 1].fingerprint
            = peers[selected + 1].fingerprint]_vars

\* No second share can be started: once the task runs the list never comes
\* back, whatever comes in from the task, the server and the network.
OneShare == screen = Selecting => pc = "idle"

\* A success is only shown when the task has ended, and only another device's
\* request takes it off the screen: no progress of the share comes after it.
SuccessStands ==
  /\ [](screen.state = "Completed"
           => pc = "done" /\ screen.shows.from = "task")
  /\ [][screen.state = "Completed" /\ screen' # screen
          => screen'.shows.from \in Requests]_vars

\* What the task reports at the end of a successful share gets to the screen.
OutcomeShown ==
  (\E i \in DOMAIN events : i > handled /\ events[i] = Task!SentAll)
    ~> (screen.shows = Task!SentAll \/ ~running)

\* Nobody who asks us waits for ever, though our own share may: whoever we send
\* to can leave send_files waiting without a limit, and the loop goes on taking
\* events, and declining requests, all the while.
RequestsAnswered ==
  \A r \in Requests : request[r] = "asked" ~> request[r] # "asked" \/ ~running

\* What the sources say and the code does not do.
\* "A small LocalSend server is needed while sharing because devices answer an
\* active discovery scan through the HTTPS registration endpoint."
\* (share.rs:65): what else reaches that server leaves the share alone.
OwnFailuresOnly ==
  screen.state = "Failed" => screen.shows.from = "task"

\* "Transient status bar notification message." (events.rs:40): there is a
\* status bar to show it in, and the screen does not wait for a task that
\* has ended.
StatusIsSeen ==
  screen = Asking /\ handled = Len(events) => pc # "done"
=============================================================================
