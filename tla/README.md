# A verification model of monosend

monosend sends and receives files on a local network with the LocalSend
protocol. `monosend receive` runs an HTTPS server and asks the user, through
desktop notifications, about every request; `monosend share` is a terminal
picker that offers files to a device it discovers. This directory holds TLA+
modules of what the program does, the TLC configurations that check them, and
TLAPS proofs of every safety property that they check.

File names below are relative to the repository (`src/...` there is
`src/src/...` in `PROJECT.json`).

## Inventory

| Component | State it keeps | Operations | Hard behaviour |
|---|---|---|---|
| upload server, `localsend/server.rs` | `active_sessions` (session -> files still expected, tokens), the download directory, one suspended future per request | prepare-upload, upload, cancel, register, info | handlers of one session overlap at every await; lock released between lookups; bodies that stall, break, overrun; cancel in the middle; restart over partial files; names chosen by trying |
| sending task, `localsend/client.rs` | maps of offered files, accepted files, byte counters | `send_files` | the body is read by the connection beside the task; files vanish or change length; any error path must give one verdict; the receiver may answer anything |
| share picker, `share.rs` | list and index of peers, highlight, what is shown | `handle_event`, `handle_key`, `add_peer` | one channel with three writers (task, server, discovery); events that come late, twice or from others |
| receive loop, `receive.rs` | none but its tasks | answer a request, notify, copy text to the clipboard | tasks run side by side; clipboard programs fail, hang, are killed or outlive everything; Ctrl+C or a failing service at any moment |
| discovery engine, `localsend/discovery.rs` | the UDP socket | announce, listen, reply to an announcement, scan | lost and repeated datagrams, ourselves among the peers, links that work one way, messages with fields left out |
| command line, `main.rs`, and the start of both programs | locals of the parsers, the temporary clipboard file | parse, look at files, read the clipboard, start, clean up | options, values and names that look like one another; failures at every step of the start |
| TLS identity, wire format, formatting, theme | none | construct, serialise, draw | none: no state of their own |

They interact as follows. Server and discovery send `AppEvent`s over an
unbounded channel to the loop of `receive.rs` or `share.rs`. For
`IncomingTransfer` the server's handler waits on a oneshot channel that the loop
(or a task it spawns) answers; for `FileReceived` the loop spawns a copy to the
clipboard. The picker spawns `send_files`, which writes to the same channel and
talks HTTPS to the server of another device. A device that hears an announcement
posts to the announcer's server, which reports the peer to its loop.

What makes each correct:

* server: uploads never share a file or touch one of the user's; what was
  announced is whole and stays; what failed leaves nothing; completion is
  reported when it is true, and once; sessions and handlers end.
* sending task: one verdict; success only for what was confirmed; progress that
  advances within its total; it ends once it was answered.
* picker: list, index and highlight agree and the highlight keeps its device;
  one share per run; the outcome is shown and stays; other devices cannot
  disturb it; their requests are answered.
* a share from end to end: what the sender calls sent was received, what the
  receiver completes was sent, neither waits for the other for ever.
* receive loop: every request gets one answer, nothing comes in uninvited; the
  clipboard ends up with a whole received text or as it was.
* the text of a request: the user is told of as many files and bytes as are let in.
* discovery: devices that stay find each other if datagrams get through one way;
  a run of a program is one peer, and nobody a peer of its own.
* command line and start: receiver and picker get what the line says; nothing
  temporary outlives the process.

The hazards behind these, each with its line, are in `PROJECT.json`.

## Modules

| Module | Models |
|---|---|
| `UploadServer` | the handlers that share `active_sessions`, the files they create, the answer of the loop, restarts |
| `Inbox` | what a receiver promises, without tables, handlers or partial files |
| `SendFiles` | the task of `send_files` and the body that the connection reads |
| `Transfer` | `SendFiles` (INSTANCE) and `UploadServer` (EXTENDS) over a connection that breaks |
| `Delivery` | what sender and receiver promise together |
| `Receiver` | the loop of `receive.rs` with its tasks, and the `UploadServer` it serves (EXTENDS) |
| `OfferedFiles` | one prepare-upload request, entry by entry, as the server and the user see it |
| `ShareScreen` | the picker's loop composed with `SendFiles` (INSTANCE, over the shared channel) and with a server that asks it |
| `Discovery` | devices that announce themselves, listen, answer, scan and register |
| `Launch` | one process from its command line to its end |
| `UploadServerProofs`, `SendFilesProofs`, `TransferProofs`, `ReceiverProofs`, `OfferedFilesProofs`, `ShareScreenProofs`, `DiscoveryProofs`, `LaunchProofs` | the safety of the module each is named after, proved; the first and the third also the refinements |
| `MC*` | values for the constants |

### UploadServer

A handler is split at its awaits and at its critical sections, because that is
where others can run: the runtime is multi-threaded and the mutex is held only
for a lookup or an update. `pc[u]` is the place where upload `u` stands:
`create` (the loop of `create_destination`), `check` (is the session still in
the table), `read` (waiting for a chunk), the `undo` places (removing the
partial file, which is an await), `flush`, `account` (after `FileReceived`),
`announce` (between unlocking the table and `TransferCompleted`), and the status
it replied. `prep[s]` does the same for the request that created session `s`.
`sent[s]` is the history of the events about `s`.

The data is abstract: a file identifier stands for the offered file with its
name and size; a token is the file it was drawn for, since tokens are UUIDs; a
name is a base, the numbers in parentheses after it and an extension, so that
`note (1).txt` can be an offered name as well as what `note.txt` falls back to.
The content of a file is who wrote it and how much. Progress events are left
out, as is the content of the request before it is parsed.

`Faults` selects what can go wrong: `disk` (any file operation fails), `drop`
(hyper drops a handler whose connection is gone; a `remove_file` already handed to
the blocking pool still happens), `crash` (the process ends and a new one starts
on the same directory). Broken, stalled, short and long bodies and unknown
files, tokens and sessions need no fault: a sender does that.

A sender knows a session, and its tokens, from the reply to its request; that
is why `StartUpload` and `CancelSession` require `prep[s] = "accepted"`.
A cancel without a session id is possible before.

### Inbox

`Ask`, `Settle`, `Deliver`: a file is delivered only for an accepted request that
offered it, at a path that held nothing, with its declared length, for good. The
mapping takes as delivered the files whose upload has passed `FileReceived`.

### SendFiles

`pc` runs through the stat loop, the request, the loop over accepted files, the
upload, and the cancel after a file could not be opened. `body` is the
`ReaderStream` with the counting closure: `ReadChunk`, `EndOfFile` and `DropBody`
belong to the connection (HTTP/1.1, its own task) and go on after the task has
ended. `Hitches` selects whether files cannot be read at stat time, cannot be
opened, or change their length in between. The receiver may answer with any
subset of the offered identifiers and unknown ones. One assumption is made about it: it
confirms an upload after it has read the whole body, as `handle_upload` does.

### Transfer

Each action is a step of one end together with what it puts on the connection or
takes off it. What each module leaves open about the other is closed here: the
answer that `SendFiles` takes is the one the handler gave, the tokens are those
the server drew, the chunks that `UploadServer` reads are bytes the task has
sent (`pipe`, at most `Window` of them on the way). `Troubles` selects whether
the connection breaks, a body stalls for 5 seconds, or the picker is left while
its task runs. A break is final in the model, since `send_files` retries nothing, and may
happen between the last byte and the reply. (reqwest opens a new connection for
the next request when the old one has gone between two; no handler is at work then,
so such a break changes nothing at either end, and the behaviours without it are
those.) Besides, the receiver may also restart or
run out of disk. A third device may cancel without an id.

`Delivery` is the contract: files are taken up one at a time, the sender says
"sent" only when all are there, and once it has given up at most the file in
hand still arrives.

### Receiver

The loop handles an event by spawning a task, so the order of its events is no
constraint: `ask[s]` is the task of `answer_request`, `copy[u]` the task of
`copy_received_text`. `write_clipboard` goes through the programs one by
one (`tool`); `child` is the process it has started, and `strays` are processes
that still run and nobody waits for: `wait()` has failed, the only arm of
`write_clipboard` that goes on without a kill (`LeaveProgram`).

The receiver ends between any two steps, in one of two ways. Ctrl+C
(`Interrupted`) reaches every process of its group. When a service fails
(`ServicesEnd`: discovery, or the server with an error of `accept`), or when only the
process itself is killed, its tasks are dropped and nobody kills the programs: the
pipes are closed, and a program that was still reading sees the end of a part
(`orphans`, with `cut`). `TakeLate` is what such a process does in the end.

External: `notify-send` comes back with any word, an error, or never. A clipboard
program changes the clipboard only once it has seen the end of its input, and
reports success only after that; it may also fail, close its input or hang.

### OfferedFiles

A request is a map or an array of entries, each with an identifier, a name and a
size that may be missing, repeated or contradict its key. `TakeEntry` fills
the three tables of `handle_prepare_upload`, `ShowRequest` is the text of the
notification: the count of the files, the sum of their sizes, the first `MaxNames` names
and how many more there are (no file's own size is told). `Upload` is `handle_upload` as far as it
matters for the end of the session. `UploadServer` starts from its result.

### ShareScreen

`events` is the channel, never shortened; `handled` is how far the loop is. The
screen remembers the event it shows. The server inside the picker is reduced to
what reaches the loop: a request (`AskUs`, declined by `HandleEvent`, reported by
`Refuse`), a handler that is dropped (`HangUp`), a cancel (`CancelUs`); nothing
can be uploaded to it since nothing is accepted. Rescanning only changes the
status line and makes answers more likely, which `Announce` allows at any time.

### Discovery

`air` holds datagrams, `posts` the HTTPS requests that answer them, `found[d]` the
`PeerDiscovered` events of `d`. A datagram reaches whom `network` says, and may be
lost, repeated or overtaken. The listener and `handle_register` each derive a peer from the
same fields (`HeardPeer`, `RegisteredPeer`): they are two pieces of code and two
definitions. A device is one run of a program. A program that is started again at its
old address is another device there, with another fingerprint, and a request that
was meant for the run before reaches it. A picker whose server or listener did not
start, or whose server fails later (`LoseServer`), goes on without it; a receiver ends. Interfaces, subnets and the three destinations of a datagram are
one "may get through".

### Launch

`place` is what the process is at. `ParseReceiveOption` and `ParseShareArgument`
take one word (or `--port` and its value) per step, as the loops of `main.rs` do;
the steps of the start follow in their order, each with its failures. A word is
a string or a value that is no UTF-8. The picker and the receive loop are one place
each: `ShareScreen` and `Receiver` are about what they do there.

## Runs

| Run | Shows |
|---|---|
| `server_faults` | no shared file, whole files, truthful completion, refinement of `Inbox`; two sessions, two uploads, disk errors, dropped connections and restarts |
| `server_live` | the user's files are kept, no partial file left, completion once, uploads end, finished sessions leave the table; two uploads of one session, chunks of 1 or 2, dropped connections and restarts |
| `sender` | progress, one verdict, honest success, termination; files that vanish or change |
| `picker` | list, index and highlight; one share, its outcome shown and final, requests answered also while the share hangs |
| `transfer` | "sent" means received, "completed" means sent, refinement of `Delivery`, no mutual waiting, no session left by an unbroken share |
| `receiver` | nothing uninvited, the clipboard gets whole texts, or a part from a program that a failed service cut off, requests answered, copies end; two overlapping copies |
| `discovery` | one peer per run and none for oneself; devices find each other over one-way links; one device takes over another's address |
| `launch` | receiver and picker get what the command line says, no temporary file left, every start ends |
| `offered` | the user is told of as many files and bytes as the session lets in, names are one part, a session can be closed |

Three further runs expect a violation; they are listed under Findings.

**Bounds.** Two uploads are enough for two handlers to interfere; two sessions for
one to suffer from another's cancel. The names are `note.txt`, taken by the user, and
`note (1).txt`, which the first falls back to: with two or three attempts allowed,
uploads collide with the user's file, with one another, and run out of names.
`MaxAttempts` stands for 10 000. Sizes 0, 1 and 2 with chunks of 1 and 2 give bodies
that are empty, exact, short by one and long by one. In `SendFiles` the files have two
bytes and one, may be read as up to three, and one identifier of the receiver is
unknown. `Transfer` has the same two files, a stranger's session, and a connection
that holds two bytes, less than the longest body: sender and handler do wait for
each other. In `ShareScreen` four bounds matter: one file, `MaxAnnounced`, the
requests (each is used once), and one share per run, which is the code's own
limit (`OneShare`). `Receiver` has one text that a sender uploads twice, so that two
copies overlap; two programs (three in the code) give a first, a last and a fallback. `MaxStrays` caps how many
programs are left running at a time, at one.
`Discovery` has a picker that sends every field, a device that sends none, and a receiver that
comes to the second one's address; and two networks: both ways between the first two and one
way to the third, or only towards the picker, which also hears itself. `OnePeerEach` excepts a picker
that took over an address; the instance has none, the theorem covers it. `Launch` tries every line of up to four words over a set with a
member for each branch of the parsers. `OfferedFiles` has two entries, or three plain ones, and numbers of
two bits, so that a size and a sum can be too large; `MaxNames` is 2 (4 in the code), so that
a third file is not named.

**Fairness.** `UploadServer`: weak fairness of each upload's own steps: a spawned
future is polled, chunks come or the timer of 5 seconds fires, file operations
return. Senders, users and faults owe nothing. Nothing is assumed of a
prepare-upload handler, which waits without a limit. `SendFiles`: weak fairness of
the task and of an upload in progress (`UploadsEnd` gives an answer by a monosend
receiver, TCP an error otherwise), none of the answer to the request. `Transfer` removes that
assumption: the task is polled, the connection reads its body, a request that is sent arrives or the
connection breaks, handlers run and their timer fires; the user owes no answer.
`ShareScreen`: weak fairness of `HandleEvent`; `select!` picks a ready branch at
random. `Receiver`: the loop takes events, tasks run, the timer of 5 seconds of
`write_clipboard` fires; nothing of the user and of the programs, which may hang.
`Discovery`: the ticker ticks (WF), and what is sent again and again to somebody
who takes it arrives in the end (SF of `Hear` and `Register`): the network may lose
any message, not all of them. `Launch`: the process goes on; a program that prints
the clipboard has no time limit and may hang, the user may stay. `OfferedFiles`: the
handler goes on, the user decides, the sender sends every file it has a token
for, which is the premise of the claim in the code.

`server_live` leaves out disk errors, which could otherwise be the only way
out of a loop. Deadlock is not checked: the systems come to rest when the bounded supply of
requests, uploads, shares or programs is used up.

## Proofs

Every invariant and every action property that a run checks is a theorem, for every
value of the constants, and so are both refinements. What the constants are assumed
to be:

* `ServerAssumption`: sizes are natural numbers, chunks are not empty (HTTP/1.1 has no empty ones; an HTTP/2 peer could send empty
  DATA frames, which `UploadsEnd` therefore leaves out), at least one
  name is tried, the markers for "nobody" and "nothing" are not among the values
  they are distinguished from. Any number of files may share a name.
* `SendAssumption`: a share has finitely many files, with sizes; the receiver's
  unknown identifiers are unknown. `TransferAssumption` makes both ends agree on the
  files and gives each file one upload, as `send_files` does.
* `ReceiverAssumption`: what the user had on the clipboard is no received text.
* `OfferedAssumption`: the keys of a map differ, a name that is there is a sequence
  of parts, and so is the list of entries.
* `IdentityAssumption` (Discovery): fingerprints are drawn anew by every run, and none
  looks like an address. Any number of runs may follow one another at an address.
* `LaunchAssumption`: the options start with a hyphen, and nothing that does reads as
  a u16.

`UploadServer`:

* `TypeCorrect`: `TypeOK` is inductive by itself.
* `FilesInv` carries the safety of files. It adds to the types that every upload
  with an open or announced file is the recorded maker of the file at its path
  (`FilesOwned`), that no more was counted than declared unless the upload is on
  its way out, and that an announced file has its declared size (`CountsBounded`),
  and that an upload that has not read anything has counted nothing.
  `FilesNotShared` is not inductive alone: an upload in `create` could hold bytes
  already, and one in `flush` too many. The step is proved once for the upload that
  moves (`OwnStepOK`) and once for the others (`OtherUploadsOK`): they use other
  paths, because one path has one maker (`PathsApart`). From it follow
  `FilesAreNotShared`, `ReceivedFilesAreComplete` and `UserFilesAreKept`.
* `SessionsInv` carries `CompletionIsAlwaysTruthful`. It adds that a session that
  was never requested is fresh, that uploads belong to requested sessions
  (`UploadsInvited`), that a file that left a session was announced
  (`TakenAreSent`), and that a session missing from the table was received in
  whole or torn down (`OrphansExplained`): this is what the branch
  `else { true }` of `handle_upload` relies on.
* `OnceInv` carries `CompletesOnce`: as long as a session is neither torn down nor
  sent a file twice at a time, each handler under way has a file that the session
  still waits for, so that only one finds the table empty and no other is left
  when it announces. The property excepts exactly the sessions for which the
  branch `else { true }` breaks this.
* `NoPartialIsLeft`: while the disk works, a handler that has replied has announced
  its file or removed it. Connections that drop and restarts are included: a dropped
  handler has not replied, a restart leaves none. It uses the ownership in `FilesInv`.
* `ServerImplementsInbox`: initial states map to initial states, each action to
  a step or a stutter. `Flush` is the only delivery; `InboxGrows` and
  `InboxUnchanged` say what the mapped inbox does when one upload lands or none.

`SendFiles`:

* `TypeCorrect` needs `Phases`: which file is in hand, which are still to come and
  when a body is open depend on the place in `send_files`.
* `VerdictOnce` and `SuccessEarned`, from `SendInv`: no verdict before the task is on
  its way out, and in the upload loop each wanted file is confirmed, in hand or
  still to come.
* `ProgressNeverGoesBack`, from `ProgressInv`: `cumulative_bytes_sent` is the sum of the
  sizes of the confirmed files, so that the file in hand has room in the total
  (`RoomLeft`), and every report is at most base plus position (`Level`). The sums
  over sets come with their lemmas (`SumWithout`, `SumGrows`), proved by taking a
  smallest set that fails (`SmallestSubset`), since the provers cannot use the
  induction theorems of the library.

`Transfer`:

* `BothEndsBehave`: each behaviour of the pair is one of `UploadServer` and one of
  `SendFiles`, whose theorems therefore hold of it. Neither end can be shown alone:
  that the tokens are offered files needs the task's types, that the wanted ones are
  offered needs the server's (`PairInv`, with `Agreed` and the shape of the pipe).
* `SentIsAlwaysReceived` and `ReceivedIsAlwaysSent`, from `LinkInv` on top of the
  invariants of both ends: each upload is that of its own file, whose body is on
  the connection or was (`Matched`), what the task takes for confirmed was replied to
  with OK (`Confirmed`), and a failure over a connection that holds has its reason in the
  receiver (`FailureHasReason`).
* `TransferImplementsDelivery`, step by step, from the same invariants.

`Receiver`: `ReceiverRunsServer` carries the invariants of the server over;
`NothingComesUninvited` adds which answer a request can have got. `ClipboardGetsTexts`
rests on two invariants: that a program is alive only while its copy waits for it and
holds the text of that copy (`CopyInv`), and that each program that nobody waits for
holds the text of a received file and, if its receiver still runs, all of it (`LeftInv`).

`OfferedFiles`: `OfferInv` says that each file of the session is the entry at which its
token was drawn, so that files and shown entries correspond one to one.
`ConsentIsEnough` counts and adds up along this (`NoMoreThanListed`, `TotalWithin`; the sums are
those of `SendFilesProofs`, over the sizes of records): `ToldInv` ties the text to the list, and a file
that is not named is at one of the places past the first `MaxNames`.
`NamesAreSafe` is about `SafeFileName`
for any name and holds in every state because of the same correspondence.

`ShareScreen`: `ScreenInv` has the shape of the shared channel (`ChannelInv`), the list and
its index together (`ListInv`: neither half is inductive), `OneShare`, and that nothing
of the task follows its success (`SuccessIsLast`). From it `ScreenTypeCorrect`,
`ListIsIndexed`, `NeverTwoShares`, `HighlightStays` and `SuccessStaysShown`.

`Discovery`: `PeersInv` says that whatever is found is the one peer that `HeardPeer` and
`RegisteredPeer` both derive of some run (`BothHearTheSame`), and not of the finder's own unless an
answer meant for an earlier run at its address reached it. `EachIsOnePeer` follows: a key
is a fingerprint, which names one run, or an address (`KeyLeadsHome`), and the peers at an
address are an image of the runs there (`PeersAreRuns`).

`Launch`: `NoCopyLeftBehind` needs only the places at which a temporary file can exist.
`ReceiverDoesAsTold` and `SharesAsNamed` follow the parsers word by word: `ReceiveInv` says
what the words read so far amount to (the last port among them, the options, none
skipped), `ArgumentsInv` that paths are the names among them in their order, each at
its rank, and `FilesInv` how the looked-at files continue them.

Only model-checked are the liveness properties (`UploadsEnd`, `ReceivedSessionsClose`,
`SendingEnds`, `OutcomeShown`, `RequestsAnswered`, `ShareEnds`, `SessionsSettle`, `CopiesEnd`,
`FoundWhenReachable`, `LaunchEnds`, `AcceptedCloses`): TLAPS proves none under fairness, which is
about ENABLED.

## Findings

Each has a run in which TLC finds the behaviour; `PROJECT.json` quotes the lines.

1. `server_completed`: an upload that finishes after its session was cancelled or
   failed reports that the session completed (server.rs:527).
2. `picker_stranger`: another device's request or cancel shows the user's own
   share as failed (share.rs:201). The claim it is held against is indirect: the comment
   at share.rs:65 says what the server in the picker is there for, and this is not it.
3. `picker_waiting`: with nothing left to send the picker waits for ever
   (client.rs:81).

Noticed while modelling, and part of the models, without a run of their own:

* A declined or dropped request stays in `active_sessions` (server.rs:357), as does
  a session whose connection breaks or whose disk fails; `SessionsSettle` names
  the cases that do not, and excepts the rest. A request that offers nothing has no
  upload that could close it.
* A cancel without a session id ends everybody's sessions (server.rs:573).
* The connection may report progress after the task has reported the failure
  (client.rs:216); the picker then goes back from the failure to the progress
  screen.
* `send_files` passes over a file whose metadata cannot be read and still ends with
  "Successfully sent files" (client.rs:55), which `SuccessIsEarned` therefore states
  about offered files only. The same message follows when the receiver asked for
  unknown identifiers alone.
* `write_all` to a clipboard program has no time limit (receive.rs:242): a program that
  reads nothing keeps a text larger than the pipe waiting, so `CopiesEnd` is about
  texts that fit.
* When discovery or server fail, or the process alone is killed, a clipboard program
  that is being fed is not (receive.rs:61, no `kill_on_drop`) and takes the part it got for
  the whole; one whose `wait()` fails may change the clipboard after a later text
  (receive.rs:257). `ClipboardGetsWholeTexts` says there is no other way to a part.
* A picker whose server has no port finds only devices whose own datagrams reach it
  (share.rs:552); `FoundWhenReachable` asks for the server.
* A peer stays in the picker's list when its device is gone, and a device that was started
  again is a second entry at the same address; `OnePeerEach` bounds the entries by the runs.
* Which of two texts stays on the clipboard is up to the programs, and "Copied ..."
  may be about a text that is gone already (receive.rs:109).
* The temporary clipboard directory stays when the write into it fails
  (share.rs:578), and after a signal.
* The sum of the declared sizes is a u64 (receive.rs:283): it wraps in a release
  build, and in a debug build the panic declines the request.
* Two entries of an array that carry one identifier are both listed, and one of them
  is let in; of more than four files the notification names the first four, and it tells no
  file's own size.

## Not modelled

* TLS (`tls.rs`): making certificates and clients is library calls; that a fingerprint names
  one run of a program is an assumption of `Discovery`.
* The wire format (`protocol.rs`): data types; what handlers do with the fields is
  modelled where they do it.
* Drawing, formatting, themes, the wording of messages and help.
* `GET /info` keeps no state.
* The choice of network interfaces and the computation of subnets; device names.
* That removing the temporary clipboard file fails; that two paths of a command line are
  the same file (they are two files to `send_files` as well).
* Connections that reqwest opens anew between two requests of a share (see Transfer).
* Empty DATA frames of an HTTP/2 sender.

## Plan

Done: every component that keeps state, with the contracts of the server and of the
pair; every safety property and both refinements proved.

Next:

1. What liveness rests on and can be proved without ENABLED: for the loops of
   `handle_upload`, `create_destination`, `send_files` and the parsers a measure that
   each of their steps lowers.
2. A receiver whose text exceeds the pipe, with a program that reads slowly, so that
   `CopiesEnd` can say under which promise of the program such a copy ends.
