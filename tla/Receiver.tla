------------------------------ MODULE Receiver ------------------------------
(***************************************************************************)
(* `monosend receive` (src/src/receive.rs): the loop that takes AppEvents  *)
(* from the server (UploadServer) and starts a task for each that needs    *)
(* one: to ask the user about a request through a desktop notification,    *)
(* and to copy a received text file to the desktop clipboard.  The tasks   *)
(* run side by side with one another and with the server's handlers.       *)
(*                                                                         *)
(* The loop handles an event by spawning, so the order in which it takes   *)
(* events is no constraint on what its tasks do: an event that was sent is *)
(* taken at some time, once.                                               *)
(*                                                                         *)
(* notify-send and the clipboard programs are external.  Of a clipboard    *)
(* program it is assumed that it changes the clipboard only once it has    *)
(* seen the end of its input, to what came before that end, and that it    *)
(* reports success only after that.                                        *)
(***************************************************************************)
EXTENDS UploadServer, FiniteSets

CONSTANTS
  Tools,       \* how many clipboard programs are tried: 3 in the code
  TextTypes,   \* spellings of the extension that is_text_file looks for
  PipeBuffer,  \* what can be written to a program that reads nothing
  MaxStrays,   \* bound: the programs that are left running at a time
  Theirs       \* what the user had on the clipboard

ASSUME ReceiverAssumption ==
  /\ Tools \in Nat \ {0}
  /\ PipeBuffer \in Nat
  /\ MaxStrays \in Nat
  /\ Theirs \notin [by : Uploads, length : Nat]

VARIABLES
  autoaccept,  \* the option
  ask,         \* ask[s]: the task of answer_request for request s
  choice,      \* choice[s]: what its notification came back with
  copy,        \* copy[u]: the task that copies what upload u received
  text,        \* text[u]: the contents it has read, while it runs
  tool,        \* tool[u]: the program it is at, from 1; 0 outside the loop
  child,       \* child[u]: the process of that program: "running", "fed" once
               \* its input has ended, "took" once it changed the clipboard
  strays,      \* programs that still run and nobody waits for
  orphans,     \* programs that a receiver left behind when it ended
  clipboard    \* what is on the clipboard

askVars      == <<ask, choice>>
leftVars     == <<strays, orphans>>
copyVars     == <<copy, text, tool, child, leftVars, clipboard>>
loopVars     == <<autoaccept, askVars, copyVars>>
receiverVars == <<vars, loopVars>>

ReceiverInit ==
  /\ Init
  /\ autoaccept \in BOOLEAN
  /\ ask    = [s \in Sessions |-> "none"]
  /\ choice = [s \in Sessions |-> "none"]
  /\ copy   = [u \in Uploads |-> "none"]
  /\ text   = [u \in Uploads |-> None]
  /\ tool   = [u \in Uploads |-> 0]
  /\ child  = [u \in Uploads |-> "none"]
  /\ strays = {} /\ orphans = {}
  /\ clipboard = Theirs

-----------------------------------------------------------------------------
(* Requests.                                                               *)

\* IncomingTransfer: a task asks the user.
HandleRequest(s) ==
  /\ prep[s] # "unused"
  /\ ask[s] = "none"
  /\ ask' = [ask EXCEPT ![s] = "shown"]
  /\ UNCHANGED <<vars, autoaccept, choice, copyVars>>

\* notify-send ends: with "accept", or with anything else: "decline", nothing
\* because it was closed, an error because it is not installed.
Notified(s, word) ==
  /\ ask[s] = "shown" /\ ~autoaccept
  /\ choice[s] = "none"
  /\ choice' = [choice EXCEPT ![s] = word]
  /\ UNCHANGED <<vars, autoaccept, ask, copyVars>>

\* Variant: a notification that was closed accepts.
AcceptedOnceOver(s) == autoaccept \/ choice[s] # "none"

Accepted(s) == autoaccept \/ choice[s] = "accept"

\* Variant: a task that accepts by itself first waits for the notification that
\* informs of it, which may never end.
InformedFirst(s) == ~autoaccept /\ choice[s] # "none"

\* With the option the answer is known at once: the notification that informs of
\* it is a task of its own, and how it ends concerns nobody.
Decided(s) == autoaccept \/ choice[s] # "none"

\* The answer goes to the handler, if that still waits.
AnswerAsked(s) ==
  /\ ask[s] = "shown"
  /\ Decided(s)
  /\ ask' = [ask EXCEPT ![s] = "over"]
  /\ IF prep[s] = "waiting" THEN AnswerRequest(s, Accepted(s))
                            ELSE UNCHANGED vars
  /\ UNCHANGED <<autoaccept, choice, copyVars>>

-----------------------------------------------------------------------------
(* Received text.                                                          *)

IsTextFile(name) == name.ext \in TextTypes

\* FileReceived: a task copies a text file.
HandleFile(u) ==
  /\ pc[u] \in Stored
  /\ IsTextFile(FileName[FileOf(u)])
  /\ copy[u] = "none"
  /\ copy' = [copy EXCEPT ![u] = "read"]
  /\ UNCHANGED <<vars, autoaccept, askVars, text, tool, child, leftVars, clipboard>>

\* The file is read as a whole, or it cannot be read any more.
ReadText(u) ==
  /\ copy[u] = "read"
  /\ \/ /\ copy' = [copy EXCEPT ![u] = "spawn"]
        /\ text' = [text EXCEPT ![u] = disk[Path(u)]]
        /\ tool' = [tool EXCEPT ![u] = 1]
     \/ copy' = [copy EXCEPT ![u] = "failed"] /\ UNCHANGED <<text, tool>>
  /\ UNCHANGED <<vars, autoaccept, askVars, child, leftVars, clipboard>>

\* The task ends, and what it held is gone.
EndCopy(u, result) ==
  /\ copy' = [copy EXCEPT ![u] = result]
  /\ text' = [text EXCEPT ![u] = None]
  /\ tool' = [tool EXCEPT ![u] = 0]

\* Variant: the same program is tried again.
SameTool(u) ==
  copy' = [copy EXCEPT ![u] = "spawn"] /\ UNCHANGED <<text, tool>>

\* The loop of write_clipboard goes on with the next program, if there is one.
NextTool(u) ==
  \/ /\ tool[u] < Tools
     /\ copy' = [copy EXCEPT ![u] = "spawn"]
     /\ tool' = [tool EXCEPT ![u] = @ + 1]
     /\ UNCHANGED text
  \/ /\ tool[u] >= Tools
     /\ EndCopy(u, "failed")

\* A program starts, or it is not installed or cannot be started.
Spawn(u) ==
  /\ copy[u] = "spawn"
  /\ \/ /\ child' = [child EXCEPT ![u] = "running"]
        /\ copy'  = [copy EXCEPT ![u] = "write"]
        /\ UNCHANGED <<text, tool>>
     \/ NextTool(u) /\ UNCHANGED child
  /\ UNCHANGED <<vars, autoaccept, askVars, leftVars, clipboard>>

\* write_all and shutdown; only a program that reads lets a text through that
\* the pipe cannot hold.
WriteText(u) ==
  /\ copy[u] = "write"
  /\ child' = [child EXCEPT ![u] = "fed"]
  /\ copy'  = [copy EXCEPT ![u] = "wait"]
  /\ UNCHANGED <<vars, autoaccept, askVars, text, tool, leftVars, clipboard>>

\* The program of a copy when its input is closed, perhaps before the text ends.
Program(u) ==
  [text |-> text[u], tool |-> tool[u], cut |-> child[u] = "running"]

\* Variant: the program is left alone, and sees its input end.
LeftAlone(u) == {Program(u)}

\* kill() ends a program that still runs, and only then its input is dropped.
Survivors(u) == {}

\* The program has closed its input or ended in failure, or has not ended in 5
\* seconds: it is killed.
GiveUpOn(u) ==
  /\ copy[u] \in {"write", "wait"}
  /\ child'  = [child EXCEPT ![u] = "none"]
  /\ strays' = strays \cup Survivors(u)
  /\ NextTool(u)
  /\ UNCHANGED <<vars, autoaccept, askVars, orphans, clipboard>>

\* wait() itself fails: the program goes on, with all of its input.
LeaveProgram(u) ==
  /\ copy[u] = "wait"
  /\ Cardinality(strays) < MaxStrays
  /\ child'  = [child EXCEPT ![u] = "none"]
  /\ strays' = IF child[u] = "fed" THEN strays \cup {Program(u)} ELSE strays
  /\ NextTool(u)
  /\ UNCHANGED <<vars, autoaccept, askVars, orphans, clipboard>>

\* The program ends with success.
Copied(u) ==
  /\ copy[u] = "wait"
  /\ child[u] = "took"
  /\ child' = [child EXCEPT ![u] = "none"]
  /\ EndCopy(u, "copied")
  /\ UNCHANGED <<vars, autoaccept, askVars, leftVars, clipboard>>

\* A program that has seen all of its input changes the clipboard.
Take(u) ==
  /\ child[u] = "fed"
  /\ child' = [child EXCEPT ![u] = "took"]
  /\ clipboard' = text[u]
  /\ UNCHANGED <<vars, autoaccept, askVars, copy, text, tool, leftVars>>

\* So does one that nobody waits for; it may have got a part only.
TakeLate(x) ==
  /\ x \in strays \cup orphans
  /\ \E n \in 0 .. x.text.length :
       /\ x.cut \/ n = x.text.length
       /\ clipboard' = [by |-> x.text.by, length |-> n]
  /\ strays'  = strays \ {x}
  /\ orphans' = orphans \ {x}
  /\ UNCHANGED <<vars, autoaccept, askVars, copy, text, tool, child>>

-----------------------------------------------------------------------------
(* The receiver ends, and is started again.  What the loop had not taken   *)
(* from its channel is lost.                                               *)

StopTasks ==
  /\ Restart
  /\ ask'   = [s \in Sessions |-> IF prep[s] = "unused" THEN "none" ELSE "over"]
  /\ copy'  = [u \in Uploads |->
                 IF pc[u] = "idle" \/ copy[u] \in {"copied", "failed"}
                 THEN copy[u] ELSE "failed"]
  /\ child' = [u \in Uploads |-> "none"]
  /\ text'  = [u \in Uploads |-> None]
  /\ tool'  = [u \in Uploads |-> 0]
  /\ UNCHANGED <<autoaccept, choice, clipboard>>

\* Ctrl+C reaches every program that this receiver started.
Interrupted == StopTasks /\ strays' = {} /\ UNCHANGED orphans

\* The server or the discovery fails, and the loop with it: nobody kills the
\* programs, and those that still read see the end of what was written so far.
ServicesEnd ==
  /\ StopTasks
  /\ strays'  = {}
  /\ orphans' = orphans \cup strays
       \cup {Program(u) : u \in {v \in Uploads : child[v] \in {"running", "fed"}}}

\* What the server does by itself and what its senders do.
ServerStep ==
  /\ \/ \E s \in Sessions :
          \/ \E offered \in SUBSET FileIds : PrepareUpload(s, offered)
          \/ ReplyPrepare(s)
          \/ DropPrepare(s)
          \/ CancelSession(s)
          \/ CancelAll(s)
     \/ \E u \in Uploads :
          \/ \E s \in Sessions : \E f, t \in FileIds : StartUpload(u, s, f, t)
          \/ DropUpload(u)
  /\ UNCHANGED loopVars

HandlerStep(u) == UploadStep(u) /\ UNCHANGED loopVars

AskStep(s) == HandleRequest(s) \/ AnswerAsked(s)

\* A task goes on without a program's help.
CopyStep(u) ==
  \/ HandleFile(u)
  \/ ReadText(u)
  \/ Spawn(u)
  \/ copy[u] = "write" /\ text[u].length <= PipeBuffer /\ WriteText(u)
  \/ copy[u] = "wait" /\ (GiveUpOn(u) \/ LeaveProgram(u))

\* What takes the program to read, to end, or to close its input.
ProgramStep(u) ==
  \/ copy[u] = "write" /\ (WriteText(u) \/ GiveUpOn(u))
  \/ Copied(u)
  \/ Take(u)

ReceiverNext ==
  \/ ServerStep
  \/ \E s \in Sessions :
       AskStep(s) \/ \E word \in {"accept", "other"} : Notified(s, word)
  \/ \E u \in Uploads : HandlerStep(u) \/ CopyStep(u) \/ ProgramStep(u)
  \/ \E x \in strays \cup orphans : TakeLate(x)
  \/ Interrupted
  \/ ServicesEnd

ReceiverSpec == ReceiverInit /\ [][ReceiverNext]_receiverVars

\* The loop takes events, its tasks run, and the 5 s timer fires; handlers run
\* as in UploadServer.  Neither the user nor a clipboard program owes anything.
ReceiverFairSpec ==
  /\ ReceiverSpec
  /\ \A s \in Sessions : WF_receiverVars(AskStep(s))
  /\ \A u \in Uploads : WF_receiverVars(HandlerStep(u))
                        /\ WF_receiverVars(CopyStep(u))

-----------------------------------------------------------------------------
(* Properties.                                                             *)

\* Nothing comes to the disk that the user, or the option, has not let in: an
\* upload only ever works for a request whose own notification came back with
\* "accept" (ask_through_notification, through the oneshot channel, the reply,
\* and the table, to create_destination).
NothingUninvited ==
  \A p \in DOMAIN disk : disk[p].by \in Uploads =>
    autoaccept \/ choice[SessionOf(disk[p].by)] = "accept"

\* Copies run side by side, and programs outlive the task that started them, but
\* a change of the clipboard is the whole text of a text file that was received.
\* A part of one can only come from a program that the end of an earlier receiver
\* cut off: as long as the receiver runs, write_clipboard keeps the input of a
\* program open until all is written or kill() is over.
ClipboardGetsWholeTexts ==
  [][clipboard' # clipboard =>
       \E u \in Uploads :
         /\ pc[u] \in Stored
         /\ IsTextFile(FileName[FileOf(u)])
         /\ clipboard'.by = u
         /\ clipboard'.length # Size(u) =>
              /\ clipboard'.length \in 0 .. Size(u)
              /\ \E x \in orphans : x.text.by = u /\ x.cut]_receiverVars

\* A request is answered unless the option is off and its notification is still
\* open: with the option, nothing that notify-send does holds the sender up.
RequestsAnswered ==
  \A s \in Sessions :
    prep[s] = "waiting" ~>
      \/ prep[s] # "waiting"
      \/ ask[s] = "shown" /\ ~autoaccept /\ choice[s] = "none"

\* Copying a text that fits into a pipe ends, whatever the programs do: each
\* has 5 seconds once its input is written, and there are few of them.  A longer
\* text waits for as long as a program does not read it.
CopiesEnd ==
  \A u \in Uploads :
    (copy[u] # "none" /\ Size(u) <= PipeBuffer) ~> copy[u] \in {"copied", "failed"}
=============================================================================
