-------------------------------- MODULE Launch --------------------------------
(***************************************************************************)
(* One run of monosend from its command line to its end (src/src/main.rs,  *)
(* and run of receive.rs and share.rs): the arguments are read one by one; *)
(* `receive` starts its services; `share` looks at the files, may put the  *)
(* clipboard into a temporary one, opens the picker (ShareScreen) and      *)
(* takes the temporary file away.                                          *)
(*                                                                         *)
(* A word of the command line is a string, or a value that is no UTF-8.    *)
(* The file system and the programs that print the clipboard are external. *)
(***************************************************************************)
EXTENDS Naturals, Sequences, FiniteSetsExt, SequencesExt

CONSTANTS
  CommandLines,  \* the command lines, without the program's name
  Number,        \* Number[w]: what a word that reads as a u16 stands for
  Assigned,      \* Assigned[w]: the value of a word `--port=VALUE`
  Hyphened,      \* words in UTF-8 that start with a hyphen
  Raw,           \* words that are no UTF-8
  File,          \* File[w]: the regular file that a word names, resolved
  ClipboardTxt,  \* the temporary file
  DefaultPort,   \* LOCALSEND_DEFAULT_PORT
  Tools          \* programs that read the clipboard: 3 in the code

AutoOptions     == {"--autoaccept", "--autoaceept"}
Help            == {"-h", "--help"}
Version         == {"-V", "--version"}
PortOption      == "--port"
ClipboardOption == "--clipboard"
EndOfOptions    == "--"

MaxPort == 65535  \* a port is a u16

\* The options that are one word each; `--port=VALUE` is one more.
Options ==
  AutoOptions \cup Help \cup {PortOption, ClipboardOption, EndOfOptions}

\* What starts with a hyphen is in UTF-8 and does not read as a number.
ASSUME LaunchAssumption ==
  /\ \A line \in CommandLines :
       Len(line) \in Nat /\ DOMAIN line = 1 .. Len(line)
  /\ \A w \in DOMAIN Number : Number[w] \in 0 .. MaxPort
  /\ DefaultPort \in 1 .. MaxPort
  /\ Tools \in Nat
  /\ Options \cup DOMAIN Assigned \subseteq Hyphened
  /\ Options \cap DOMAIN Assigned = {}
  /\ Hyphened \cap (DOMAIN Number \cup Raw) = {}

VARIABLES
  argv,        \* the command line
  at,          \* the next argument, from 1
  place,       \* what the process is at, in the end how it ended
  port, autoaccept,               \* locals of parse_receive_args
  paths, clipboard, positional,   \* locals of parse_share_args
  files,       \* the files looked at, in the end those to share
  tool,        \* the clipboard program tried, from 1
  temp         \* the temporary directory: "none", "empty", with the "file"

vars == <<argv, at, place, port, autoaccept, paths, clipboard, positional,
          files, tool, temp>>

receiveVars == <<port, autoaccept>>
shareVars   == <<paths, clipboard, positional>>
workVars    == <<files, tool, temp>>

\* How a process ends: "usage" reads the command line no further; "failed" is
\* any other error; "unwritten" is the one of a temporary file half made.
Over == {"help", "version", "usage", "failed", "unwritten", "done", "killed"}

Init ==
  /\ argv \in CommandLines
  /\ at = 1
  /\ place = "command"
  /\ port = DefaultPort /\ autoaccept = FALSE
  /\ paths = << >> /\ clipboard = FALSE /\ positional = FALSE
  /\ files = << >> /\ tool = 1 /\ temp = "none"

Goto(p) == place' = p
Ended   == at > Len(argv)
Word    == argv[at]

-----------------------------------------------------------------------------
(* The command line.                                                       *)

ParseCommand ==
  /\ place = "command"
  /\ Goto(CASE Ended                             -> "help"
            [] ~Ended /\ Word = "receive"        -> "options"
            [] ~Ended /\ Word = "share"          -> "arguments"
            [] ~Ended /\ Word \in Help \cup {"help"}   -> "help"
            [] ~Ended /\ Word \in Version  -> "version"
            [] OTHER                             -> "usage")
  /\ at' = at + 1
  /\ UNCHANGED <<argv, receiveVars, shareVars, workVars>>

\* Variant: the first port counts.
FirstPort(value) == IF port = DefaultPort THEN Number[value] ELSE port

NewPort(value) == Number[value]

\* Variant: the words are looked at, not taken.
Peeked(n) == at

Past(n) == at + n

\* A port and the n words that name it are read; zero is none.
TakePort(value, n) ==
  IF value \in DOMAIN Number /\ Number[value] # 0
  THEN port' = NewPort(value) /\ at' = Past(n) /\ UNCHANGED place
  ELSE Goto("usage") /\ UNCHANGED <<port, at>>

ParseReceiveOption ==
  /\ place = "options" /\ ~Ended
  /\ \/ /\ Word = PortOption /\ at < Len(argv)
        /\ TakePort(argv[at + 1], 2)
        /\ UNCHANGED autoaccept
     \/ /\ Word \in DOMAIN Assigned
        /\ TakePort(Assigned[Word], 1)
        /\ UNCHANGED autoaccept
     \/ /\ Word \in AutoOptions
        /\ autoaccept' = TRUE
        /\ at' = Past(1)
        /\ UNCHANGED <<place, port>>
     \/ /\ Word \in Help
        /\ Goto("help")
        /\ UNCHANGED <<at, receiveVars>>
     \/ /\ Word \notin AutoOptions \cup Help \cup DOMAIN Assigned
        /\ Word = PortOption => at = Len(argv)
        /\ Goto("usage")
        /\ UNCHANGED <<at, receiveVars>>
  /\ UNCHANGED <<argv, shareVars, workVars>>

\* Variant: options are read after `--` too.
AnyWord == TRUE

\* Is the next word looked at as an option?
Optional == ~positional /\ Word \notin Raw

ParseShareArgument ==
  /\ place = "arguments" /\ ~Ended
  /\ \/ /\ Optional /\ Word = EndOfOptions
        /\ positional' = TRUE /\ at' = at + 1
        /\ UNCHANGED <<place, paths, clipboard>>
     \/ /\ Optional /\ Word = ClipboardOption
        /\ clipboard' = TRUE /\ at' = at + 1
        /\ UNCHANGED <<place, paths, positional>>
     \/ /\ Optional /\ Word \in Help
        /\ Goto("help")
        /\ UNCHANGED <<at, shareVars>>
     \/ /\ Optional
        /\ Word \in Hyphened \ ({EndOfOptions, ClipboardOption} \cup Help)
        /\ Goto("usage")
        /\ UNCHANGED <<at, shareVars>>
     \/ /\ ~(Optional /\ Word \in Hyphened)
        /\ paths' = Append(paths, Word) /\ at' = at + 1
        /\ UNCHANGED <<place, clipboard, positional>>
  /\ UNCHANGED <<argv, receiveVars, workVars>>

\* All arguments are read; share needs something to share.
ParseEnds ==
  /\ Ended
  /\ \/ place = "options" /\ Goto("start")
     \/ /\ place = "arguments"
        /\ Goto(IF paths = << >> /\ ~clipboard THEN "usage" ELSE "files")
  /\ UNCHANGED <<argv, at, receiveVars, shareVars, workVars>>

-----------------------------------------------------------------------------
(* receive                                                                 *)

\* The directory, the certificate and the clients come to be, or the run ends.
StartReceiver ==
  /\ place = "start"
  /\ place' \in {"receiving", "failed"}
  /\ UNCHANGED <<argv, at, receiveVars, shareVars, workVars>>

\* A service cannot start or go on; or Ctrl+C.
StopReceiver ==
  /\ place = "receiving"
  /\ place' \in {"failed", "done"}
  /\ UNCHANGED <<argv, at, receiveVars, shareVars, workVars>>

-----------------------------------------------------------------------------
(* share                                                                   *)

\* The next file to look at.
Named == paths[Len(files) + 1]

\* validate_files: each is read about and resolved; the first that is no
\* regular file, or that is gone meanwhile, ends the run.
ValidateFile ==
  /\ place = "files" /\ Len(files) < Len(paths)
  /\ \/ /\ Named \in DOMAIN File
        /\ files' = Append(files, File[Named])
        /\ UNCHANGED place
     \/ Goto("failed") /\ UNCHANGED files
  /\ UNCHANGED <<argv, at, receiveVars, shareVars, tool, temp>>

FilesValid ==
  /\ place = "files" /\ Len(files) = Len(paths)
  /\ Goto(IF clipboard THEN "clipboard" ELSE "setup")
  /\ UNCHANGED <<argv, at, receiveVars, shareVars, workVars>>

\* read_clipboard: a program is not there or fails, or prints the clipboard,
\* which may be empty.  There is no time limit.
TryProgram ==
  /\ place = "clipboard" /\ tool <= Tools
  /\ \/ tool' = tool + 1 /\ UNCHANGED place
     \/ place' \in {"directory", "failed"} /\ UNCHANGED tool
  /\ UNCHANGED <<argv, at, receiveVars, shareVars, files, temp>>

NoProgram ==
  /\ place = "clipboard" /\ tool > Tools
  /\ Goto("failed")
  /\ UNCHANGED <<argv, at, receiveVars, shareVars, workVars>>

\* ClipboardFile::create
MakeDirectory ==
  /\ place = "directory"
  /\ \/ temp' = "empty" /\ Goto("write")
     \/ Goto("failed") /\ UNCHANGED temp
  /\ UNCHANGED <<argv, at, receiveVars, shareVars, files, tool>>

\* A write that fails leaves the directory, and perhaps part of the file.
WriteClipboard ==
  /\ place = "write"
  /\ \/ /\ temp' = "file"
        /\ files' = Append(files, ClipboardTxt)
        /\ Goto("setup")
     \/ /\ temp' \in {"empty", "file"}
        /\ Goto("unwritten")
        /\ UNCHANGED files
  /\ UNCHANGED <<argv, at, receiveVars, shareVars, tool>>

\* The certificate, the port and the clients, the services in the background,
\* the first scan, the terminal; a failure (or, from ratatui::init, a panic)
\* is the result of run_tui.
OpenPicker ==
  /\ place = "setup"
  /\ place' \in {"picker", "broken"}
  /\ UNCHANGED <<argv, at, receiveVars, shareVars, workVars>>

\* The user quits, or the terminal fails.
ClosePicker ==
  /\ place = "picker"
  /\ place' \in {"closed", "broken"}
  /\ UNCHANGED <<argv, at, receiveVars, shareVars, workVars>>

\* Variant: only a run that went well drops the file.
DroppedIfWell == IF place = "closed" THEN "none" ELSE temp

\* Drop of ClipboardFile, whatever the result: the file goes, and with it what
\* its directory holds.  (That remove_file can fail is left out.)
DroppedFile == "none"

LeaveShare ==
  /\ place \in {"closed", "broken"}
  /\ temp' = DroppedFile
  /\ Goto(IF place = "closed" THEN "done" ELSE "failed")
  /\ UNCHANGED <<argv, at, receiveVars, shareVars, files, tool>>

-----------------------------------------------------------------------------
\* A signal that nobody handles: `share` has no handler, `receive` has one
\* only once it listens.  (In the picker Ctrl+C is a key.)
Kill ==
  /\ place \notin Over
  /\ Goto("killed")
  /\ UNCHANGED <<argv, at, receiveVars, shareVars, workVars>>

\* What the process does by itself.
Step ==
  \/ ParseCommand \/ ParseReceiveOption \/ ParseShareArgument \/ ParseEnds
  \/ StartReceiver
  \/ ValidateFile \/ FilesValid
  \/ NoProgram
  \/ MakeDirectory \/ WriteClipboard
  \/ OpenPicker \/ LeaveShare

Next == Step \/ TryProgram \/ StopReceiver \/ ClosePicker \/ Kill

Spec == Init /\ [][Next]_vars

\* The process runs.  A clipboard program may hang, and the user stay.
FairSpec == Spec /\ WF_vars(Step)

-----------------------------------------------------------------------------
(* Properties.                                                             *)

\* The words that name a port.  Once the line is read without an error, a word
\* after `--port` is its value.
PortWords ==
  {i \in DOMAIN argv : i > 1 /\ (argv[i] \in DOMAIN Assigned
                                 \/ argv[i - 1] = PortOption)}

PortNamed ==
  IF PortWords = {} THEN DefaultPort
  ELSE LET last == argv[Max(PortWords)]
       IN Number[IF last \in DOMAIN Assigned THEN Assigned[last] ELSE last]

\* A receiver listens where the last port on its command line says, asks unless
\* either spelling of --autoaccept is there, and no word was passed over
\* (parse_receive_args takes the word after --port whatever it looks like).
ReceivesAsAsked ==
  place \in {"start", "receiving"} =>
    /\ port = PortNamed /\ port > 0
    /\ autoaccept <=> \E i \in DOMAIN argv : argv[i] \in AutoOptions
    /\ \A i \in DOMAIN argv \ {1} :
         argv[i] \in AutoOptions \cup {PortOption} \/ i \in PortWords

\* The words of a share line that are names: those after the first `--`, and
\* before it those that are no option.
NameWords ==
  {i \in DOMAIN argv \ {1} :
     \/ \E j \in 2 .. i - 1 : argv[j] = EndOfOptions
     \/ argv[i] \notin {EndOfOptions, ClipboardOption}}

AskedForClipboard ==
  \E i \in DOMAIN argv : argv[i] = ClipboardOption /\ i \notin NameWords

\* The place of a name among the names.
Rank(i) == Cardinality({j \in NameWords : j <= i})

\* The picker opens on the named files in their order, each a regular file, and
\* last the clipboard's, which then exists, if and only if it was asked for
\* (parse_share_args, validate_files and ClipboardFile::create together).
SharesWhatWasNamed ==
  place = "picker" =>
    /\ \A i \in NameWords :
         argv[i] \in DOMAIN File /\ files[Rank(i)] = File[argv[i]]
    /\ IF AskedForClipboard
       THEN /\ Len(files) = Cardinality(NameWords) + 1
            /\ Last(files) = ClipboardTxt
            /\ temp = "file"
       ELSE /\ Len(files) = Cardinality(NameWords)
            /\ temp = "none"
    /\ files # << >>

\* The temporary copy of the clipboard does not outlive the process, however
\* that ends; except by a signal, or by a write that fails half-way, before
\* there is a ClipboardFile whose drop could clean up.
NothingLeftBehind ==
  place \in Over \ {"killed", "unwritten"} => temp = "none"

\* Every run comes to its service or its end, unless a program that prints the
\* clipboard hangs: the parsers and the chain of programs always go on.
LaunchEnds ==
  place \in {"command", "directory"} ~>
    place \in Over \cup {"receiving", "picker", "clipboard"}
=============================================================================
