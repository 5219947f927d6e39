---------------------------- MODULE LaunchProofs ----------------------------
(***************************************************************************)
(* Theorems about Launch, for any command lines.                           *)
(***************************************************************************)
EXTENDS Launch, FiniteSetTheorems, TLAPS

-----------------------------------------------------------------------------
(* The temporary file.                                                     *)

Kept == {"write", "setup", "picker", "closed", "broken",
         "killed", "unwritten"}

TempInv == temp = "none" \/ place \in Kept

\* Only LeaveShare, a signal and a failed write end a run that has made the
\* temporary directory, and LeaveShare takes it away.
THEOREM NoCopyLeftBehind == Spec => []NothingLeftBehind
<1>1. Init => TempInv
  BY DEF Init, TempInv
<1>2. TempInv /\ [Next]_vars => TempInv'
  <2> SUFFICES ASSUME TempInv, [Next]_vars PROVE TempInv'
    OBVIOUS
  <2> USE DEF TempInv, Kept, Goto
  <2>1. CASE UNCHANGED temp /\ place \notin Kept
    BY <2>1
  <2>2. CASE MakeDirectory \/ WriteClipboard \/ LeaveShare
    BY <2>2 DEF MakeDirectory, WriteClipboard, LeaveShare, DroppedFile
  <2>3. CASE OpenPicker \/ ClosePicker \/ Kill
    BY <2>3 DEF OpenPicker, ClosePicker, Kill, workVars
  <2> QED
    BY <2>1, <2>2, <2>3
       DEF Next, Step, ParseCommand, ParseReceiveOption, ParseShareArgument,
           ParseEnds, StartReceiver, ValidateFile, FilesValid, NoProgram,
           TryProgram, StopReceiver, workVars, vars
<1>3. TempInv => NothingLeftBehind
  BY DEF TempInv, Kept, NothingLeftBehind, Over
<1> QED
  BY <1>1, <1>2, <1>3, PTL DEF Spec

-----------------------------------------------------------------------------
(* The command line, from its first word on.                               *)

LineInv ==
  /\ argv \in CommandLines
  /\ place = "command" =>
       /\ at = 1 /\ port = DefaultPort /\ autoaccept = FALSE
       /\ paths = << >> /\ clipboard = FALSE /\ positional = FALSE
       /\ files = << >> /\ temp = "none"

LEMMA LineIs ==
  ASSUME LineInv
  PROVE  Len(argv) \in Nat /\ DOMAIN argv = 1 .. Len(argv)
BY LaunchAssumption DEF LineInv

LEMMA LineStep == LineInv /\ [Next]_vars => LineInv' /\ argv' = argv
<1> SUFFICES ASSUME LineInv, [Next]_vars PROVE LineInv' /\ argv' = argv
  OBVIOUS
<1>1. argv' = argv
  BY DEF Next, Step, ParseCommand, ParseReceiveOption, ParseShareArgument,
         ParseEnds, StartReceiver, ValidateFile, FilesValid, NoProgram,
         TryProgram, StopReceiver, MakeDirectory, WriteClipboard, OpenPicker,
         LeaveShare, ClosePicker, Kill, vars
<1>2. CASE UNCHANGED vars
  BY <1>2 DEF vars, LineInv
<1>3. CASE place' # "command"
  BY <1>1, <1>3 DEF LineInv
<1>4. CASE place = "command" /\ ~UNCHANGED vars
  <2>1. place' # "command"
    BY <1>4 DEF Next, Step, ParseCommand, ParseReceiveOption,
         ParseShareArgument, ParseEnds, StartReceiver, ValidateFile,
         FilesValid, NoProgram, TryProgram, StopReceiver, MakeDirectory,
         WriteClipboard, OpenPicker, LeaveShare, ClosePicker, Kill, Goto
  <2> QED
    BY <1>3, <2>1
<1>5. CASE place # "command" /\ ~UNCHANGED vars
  <2>1. place' # "command"
    BY <1>5 DEF Next, Step, ParseCommand, ParseReceiveOption, TakePort,
         ParseShareArgument, ParseEnds, StartReceiver, ValidateFile,
         FilesValid, NoProgram, TryProgram, StopReceiver, MakeDirectory,
         WriteClipboard, OpenPicker, LeaveShare, ClosePicker, Kill, Goto
  <2> QED
    BY <1>3, <2>1
<1> QED
  BY <1>2, <1>4, <1>5

-----------------------------------------------------------------------------
(* receive: what was read so far.                                          *)

Receiving == {"options", "start", "receiving"}

ValueOf(w) == Number[IF w \in DOMAIN Assigned THEN Assigned[w] ELSE w]

\* The last of the words read that name a port gave its value.
PortIsLast ==
  \/ port = DefaultPort /\ \A i \in PortWords : i >= at
  \/ \E i \in PortWords : /\ i < at /\ port = ValueOf(argv[i])
                          /\ \A j \in PortWords : j < at => j <= i

AutoRead == autoaccept <=> \E i \in 1 .. at - 1 : argv[i] \in AutoOptions

NoneSkipped ==
  \A i \in 2 .. at - 1 : argv[i] \in AutoOptions \cup {PortOption} \/ i \in PortWords

ReceiveInv ==
  place \in Receiving =>
    /\ at \in 2 .. Len(argv) + 1
    /\ argv[1] = "receive" /\ argv[at - 1] # PortOption
    /\ port \in 1 .. MaxPort /\ autoaccept \in BOOLEAN
    /\ PortIsLast /\ AutoRead /\ NoneSkipped
    /\ place # "options" => at = Len(argv) + 1

LEMMA OptionsDiffer ==
  /\ PortOption \notin AutoOptions /\ "receive" # PortOption
  /\ ClipboardOption # EndOfOptions
  /\ "share" \notin {ClipboardOption, EndOfOptions}
  /\ {ClipboardOption, EndOfOptions} \cap Help = {}
BY Zenon DEF PortOption, AutoOptions, ClipboardOption, EndOfOptions, Help

LEMMA ReceiveBegins ==
  ASSUME LineInv, ParseCommand PROVE ReceiveInv'
<1> SUFFICES ASSUME place' \in Receiving PROVE ReceiveInv'
  BY DEF ReceiveInv
<1>1. /\ place = "command" /\ place' = "options"
      /\ at = 1 /\ at' = 2 /\ argv' = argv /\ 1 <= Len(argv)
      /\ argv[1] = "receive"
      /\ port' = DefaultPort /\ autoaccept' = FALSE
  BY LineIs DEF ParseCommand, Receiving, Goto, Ended, Word, LineInv, receiveVars
<1>2. \A i \in PortWords' : i >= 2 /\ i \in Nat
  BY <1>1, LineIs DEF PortWords
<1>3. PortIsLast' /\ NoneSkipped'
  BY <1>1, <1>2 DEF PortIsLast, NoneSkipped
<1>4. AutoRead'
  BY <1>1 DEF AutoRead, AutoOptions
<1>5. at' \in 2 .. Len(argv') + 1 /\ argv'[at' - 1] # PortOption
  BY <1>1, OptionsDiffer, LineIs
<1> QED
  BY <1>1, <1>3, <1>4, <1>5, LaunchAssumption DEF ReceiveInv

\* Reading a port: with the n words that name it, at the last of them.
LEMMA PortTaken ==
  ASSUME LineInv, ReceiveInv, place = "options",
         NEW n \in {1, 2}, at + n - 1 <= Len(argv), at' = at + n,
         UNCHANGED <<argv, place, autoaccept>>,
         at + n - 1 \in PortWords,
         n = 2 => argv[at] = PortOption,
         port' = ValueOf(argv[at + n - 1]), port' \in 1 .. MaxPort,
         argv[at + n - 1] \notin AutoOptions \cup {PortOption}
  PROVE  ReceiveInv'
<1>0. /\ at \in 2 .. Len(argv) + 1 /\ Len(argv) \in Nat
      /\ argv[1] = "receive" /\ argv[at - 1] # PortOption
      /\ DOMAIN argv = 1 .. Len(argv) /\ autoaccept \in BOOLEAN
      /\ PortIsLast /\ AutoRead /\ NoneSkipped
      /\ PortWords \subseteq Nat /\ at \in Nat
  BY LineIs DEF ReceiveInv, Receiving, PortWords
<1>1. PortWords' = PortWords
  BY DEF PortWords
<1>2. PortIsLast'
  BY <1>0, <1>1 DEF PortIsLast
<1>3. AutoRead'
  <2>1. \A i \in at .. at + n - 1 : argv[i] \notin AutoOptions
    <3>1. \A i \in at .. at + n - 1 : i = at + n - 1 \/ (n = 2 /\ i = at)
      BY <1>0
    <3> QED
      BY <3>1, OptionsDiffer
  <2>2. \A i \in 1 .. at' - 1 : i \in 1 .. at - 1 \/ i \in at .. at + n - 1
    BY <1>0
  <2>3. \A i \in 1 .. at - 1 : i \in 1 .. at' - 1
    BY <1>0
  <2>4. (\E i \in 1 .. at' - 1 : argv[i] \in AutoOptions)
          <=> (\E i \in 1 .. at - 1 : argv[i] \in AutoOptions)
    BY <2>1, <2>2, <2>3
  <2> QED
    BY <1>0, <2>4 DEF AutoRead
<1>4. NoneSkipped'
  <2>1. ASSUME NEW i \in 2 .. at' - 1
        PROVE  argv[i] \in AutoOptions \cup {PortOption} \/ i \in PortWords
    <3>1. i \in 2 .. at - 1 \/ i = at + n - 1 \/ (n = 2 /\ i = at)
      BY <1>0
    <3> QED
      BY <1>0, <3>1 DEF NoneSkipped
  <2> QED
    BY <1>1, <2>1 DEF NoneSkipped
<1>5. at' \in 2 .. Len(argv) + 1 /\ argv[at' - 1] # PortOption
  BY <1>0
<1> QED
  BY <1>0, <1>2, <1>3, <1>4, <1>5 DEF ReceiveInv

LEMMA ReceiveReads ==
  ASSUME LineInv, ReceiveInv, ParseReceiveOption PROVE ReceiveInv'
<1>0. /\ at \in 2 .. Len(argv) /\ Len(argv) \in Nat /\ at \in Nat
      /\ argv[1] = "receive" /\ argv[at - 1] # PortOption
      /\ DOMAIN argv = 1 .. Len(argv) /\ autoaccept \in BOOLEAN
      /\ PortIsLast /\ AutoRead /\ NoneSkipped
      /\ PortWords \subseteq Nat /\ argv' = argv
      /\ place = "options" /\ port \in 1 .. MaxPort
  BY LineIs DEF ReceiveInv, Receiving, PortWords, ParseReceiveOption, Ended
<1>1. CASE place' \notin Receiving
  BY <1>1 DEF ReceiveInv
<1>2. ASSUME at < Len(argv), Word = PortOption, TakePort(argv[at + 1], 2),
             UNCHANGED autoaccept, place' \in Receiving
      PROVE  ReceiveInv'
  <2>1. /\ argv[at + 1] \in DOMAIN Number /\ Number[argv[at + 1]] # 0
        /\ port' = Number[argv[at + 1]] /\ at' = at + 2 /\ place' = place
    BY <1>2 DEF TakePort, NewPort, Past, Goto, Receiving
  <2>2. argv[at + 1] \notin AutoOptions \cup {PortOption} \cup DOMAIN Assigned
    BY <2>1, LaunchAssumption DEF Options
  <2>3. port' = ValueOf(argv[at + 1]) /\ port' \in 1 .. MaxPort
    BY <2>1, <2>2, LaunchAssumption DEF ValueOf
  <2>4. at + 1 \in PortWords
    BY <1>0, <1>2 DEF PortWords, Word
  <2> QED
    BY <1>0, <1>2, <2>1, <2>2, <2>3, <2>4, PortTaken DEF Word
<1>3. ASSUME Word \in DOMAIN Assigned, TakePort(Assigned[Word], 1),
             UNCHANGED autoaccept, place' \in Receiving
      PROVE  ReceiveInv'
  <2>1. /\ Assigned[Word] \in DOMAIN Number /\ Number[Assigned[Word]] # 0
        /\ port' = Number[Assigned[Word]] /\ at' = at + 1 /\ place' = place
    BY <1>3 DEF TakePort, NewPort, Past, Goto, Receiving
  <2>2. Word \notin AutoOptions \cup {PortOption}
    BY <1>3, LaunchAssumption DEF Options
  <2>3. port' = ValueOf(Word) /\ port' \in 1 .. MaxPort
    BY <1>3, <2>1, LaunchAssumption DEF ValueOf
  <2>4. at \in PortWords
    BY <1>0, <1>3 DEF PortWords, Word
  <2> QED
    BY <1>0, <1>3, <2>1, <2>2, <2>3, <2>4, PortTaken DEF Word
<1>4. ASSUME Word \in AutoOptions, autoaccept' = TRUE, at' = Past(1),
             UNCHANGED <<place, port>>
      PROVE  ReceiveInv'
  <2>1. Word \notin DOMAIN Assigned /\ Word # PortOption /\ at' = at + 1
    BY <1>4, LaunchAssumption, OptionsDiffer DEF Options, Past
  <2>2. at \notin PortWords /\ PortWords' = PortWords
    BY <1>0, <2>1 DEF PortWords, Word
  <2>3. PortIsLast'
    BY <1>0, <1>4, <2>1, <2>2 DEF PortIsLast
  <2>4. AutoRead'
    BY <1>0, <1>4, <2>1 DEF AutoRead, Word
  <2>5. NoneSkipped'
    BY <1>0, <1>4, <2>1, <2>2 DEF NoneSkipped, Word
  <2> QED
    BY <1>0, <1>4, <2>1, <2>3, <2>4, <2>5 DEF ReceiveInv, Word
<1> QED
  BY <1>0, <1>1, <1>2, <1>3, <1>4
     DEF ParseReceiveOption, Goto, Receiving

LEMMA ReceiveKept ==
  ASSUME ReceiveInv, UNCHANGED <<argv, at, port, autoaccept>>,
         place' \in Receiving => place \in Receiving,
         place' \in Receiving \ {"options"} =>
           place # "options" \/ at = Len(argv) + 1
  PROVE  ReceiveInv'
<1>1. PortWords' = PortWords
  BY DEF PortWords
<1>2. (PortIsLast' <=> PortIsLast) /\ (AutoRead' <=> AutoRead)
      /\ (NoneSkipped' <=> NoneSkipped)
  BY <1>1 DEF PortIsLast, AutoRead, NoneSkipped
<1> QED
  BY <1>2 DEF ReceiveInv, Receiving

LEMMA ReceiveStep == LineInv /\ ReceiveInv /\ [Next]_vars => ReceiveInv'
<1> SUFFICES ASSUME LineInv, ReceiveInv, [Next]_vars PROVE ReceiveInv'
  OBVIOUS
<1> USE DEF Receiving, Goto
<1>1. CASE ParseCommand
  BY <1>1, ReceiveBegins
<1>2. CASE ParseReceiveOption
  BY <1>2, ReceiveReads
<1>3. CASE ParseEnds
  <2>1. place = "options" => at = Len(argv) + 1
    BY <1>3, LineIs DEF ParseEnds, Ended, ReceiveInv
  <2> QED
    BY <1>3, <2>1, ReceiveKept DEF ParseEnds, receiveVars
<1>4. CASE place' \notin Receiving
  BY <1>4 DEF ReceiveInv
<1>5. CASE StartReceiver
  BY <1>5, ReceiveKept DEF StartReceiver, receiveVars
<1>6. CASE UNCHANGED vars
  BY <1>6, ReceiveKept DEF vars
<1> QED
  BY <1>1, <1>2, <1>3, <1>4, <1>5, <1>6
     DEF Next, Step, ParseShareArgument, ValidateFile, FilesValid, NoProgram,
         TryProgram, StopReceiver, MakeDirectory, WriteClipboard, OpenPicker,
         LeaveShare, ClosePicker, Kill

\* A receiver that starts has read its whole command line: its port is the last
\* one named there, it asks unless an option says otherwise, and no word was
\* passed over.
THEOREM ReceiverDoesAsTold == Spec => []ReceivesAsAsked
<1>1. Init => LineInv /\ ReceiveInv
  BY DEF Init, LineInv, ReceiveInv, Receiving
<1>2. LineInv /\ ReceiveInv => ReceivesAsAsked
  <2> SUFFICES ASSUME LineInv, ReceiveInv, place \in {"start", "receiving"}
               PROVE  /\ port = PortNamed /\ port > 0
                      /\ autoaccept <=> \E i \in DOMAIN argv : argv[i] \in AutoOptions
                      /\ \A i \in DOMAIN argv \ {1} :
                           argv[i] \in AutoOptions \cup {PortOption}
                           \/ i \in PortWords
    BY DEF ReceivesAsAsked
  <2>1. /\ at = Len(argv) + 1 /\ Len(argv) \in Nat
        /\ DOMAIN argv = 1 .. Len(argv)
        /\ port \in 1 .. MaxPort /\ PortIsLast /\ AutoRead /\ NoneSkipped
    BY LineIs DEF ReceiveInv, Receiving
  <2>2. PortWords \subseteq 1 .. at - 1
    BY <2>1 DEF PortWords
  <2>3. port = PortNamed
    <3>1. CASE PortWords = {}
      BY <2>1, <3>1 DEF PortIsLast, PortNamed
    <3>2. CASE PortWords # {}
      <4>1. PICK i \in PortWords : port = ValueOf(argv[i])
                                   /\ \A j \in PortWords : j <= i
        <5>1. at \in Nat /\ \A i \in PortWords : i \in Nat /\ i < at
          BY <2>1, <2>2
        <5>2. ~ \A i \in PortWords : i >= at
          BY <3>2, <5>1
        <5>3. \E i \in PortWords :
                /\ i < at /\ port = ValueOf(argv[i])
                /\ \A j \in PortWords : j < at => j <= i
          BY <2>1, <5>2, Zenon DEF PortIsLast
        <5> QED
          BY <5>1, <5>3, Zenon
      <4>2. \A x \in PortWords : (\A y \in PortWords : x >= y) <=> x = i
        <5>1. i \in PortWords /\ \A j \in PortWords : j <= i
          BY <4>1
        <5>2. PortWords \subseteq Nat
          BY <2>1, <2>2
        <5>3. ASSUME NEW x \in PortWords
              PROVE  (\A y \in PortWords : x >= y) <=> x = i
          <6>1. x \in Nat /\ i \in Nat /\ x <= i
            BY <5>1, <5>2
          <6>2. x >= i => x = i
            BY <6>1
          <6>3. \A y \in PortWords : i >= y
            BY <5>1, <5>2
          <6> QED
            BY <5>1, <6>2, <6>3
        <5> QED
          BY <5>3
      <4>3. Max(PortWords) = i
        BY <4>2, Zenon DEF Max
      <4>4. PortNamed = ValueOf(argv[Max(PortWords)])
        BY <3>2, Zenon DEF PortNamed, ValueOf
      <4> QED
        BY <4>1, <4>3, <4>4
    <3> QED
      BY <3>1, <3>2
  <2>4. port > 0
    BY <2>1 DEF MaxPort
  <2>5. autoaccept <=> \E i \in DOMAIN argv : argv[i] \in AutoOptions
    BY <2>1 DEF AutoRead
  <2>6. \A i \in DOMAIN argv \ {1} :
          argv[i] \in AutoOptions \cup {PortOption} \/ i \in PortWords
    BY <2>1 DEF NoneSkipped
  <2> QED
    BY <2>3, <2>4, <2>5, <2>6
<1> QED
  BY <1>1, <1>2, LineStep, ReceiveStep, PTL DEF Spec

-----------------------------------------------------------------------------
(* share: the arguments read so far, and the files looked at.              *)

Looking == {"files", "clipboard", "directory", "write", "setup", "picker"}
Sharing == {"arguments"} \cup Looking

\* The names among the words before the n-th.
Before(n) == {i \in NameWords : i < n}

Words  == {argv[i] : i \in DOMAIN argv}
Shared == {File[w] : w \in DOMAIN File} \cup {ClipboardTxt}

PositionalRead == positional <=> \E j \in 2 .. at - 1 : argv[j] = EndOfOptions

ClipboardRead ==
  clipboard <=> \E i \in 1 .. at - 1 : argv[i] = ClipboardOption
                                       /\ i \notin NameWords

PathsAreNames ==
  /\ paths \in Seq(Words) /\ Len(paths) = Cardinality(Before(at))
  /\ \A i \in Before(at) :
       Rank(i) \in 1 .. Len(paths) /\ paths[Rank(i)] = argv[i]

ArgumentsInv ==
  place \in Sharing =>
    /\ at \in 2 .. Len(argv) + 1 /\ argv[1] = "share"
    /\ positional \in BOOLEAN /\ clipboard \in BOOLEAN
    /\ PositionalRead /\ ClipboardRead /\ PathsAreNames
    /\ place = "arguments" => files = << >> /\ temp = "none"

FilesAreNamed ==
  \A k \in 1 .. Len(files) :
    k <= Len(paths) => paths[k] \in DOMAIN File /\ files[k] = File[paths[k]]

FilesInv ==
  place \in Looking =>
    /\ at = Len(argv) + 1 /\ (paths # << >> \/ clipboard)
    /\ paths \in Seq(Words) /\ files \in Seq(Shared) /\ FilesAreNamed
    /\ place = "files" => Len(files) <= Len(paths)
    /\ place \in {"clipboard", "directory", "write"} =>
         clipboard /\ Len(files) = Len(paths)
    /\ place \in {"files", "clipboard", "directory"} => temp = "none"
    /\ place \in {"setup", "picker"} =>
         IF clipboard
         THEN /\ Len(files) = Len(paths) + 1
              /\ files[Len(files)] = ClipboardTxt
              /\ temp = "file"
         ELSE Len(files) = Len(paths) /\ temp = "none"

\* Before(n) is finite, so a name's place is one more than the number of names
\* before it.
LEMMA BeforeIsFinite ==
  ASSUME LineInv, NEW n \in Nat
  PROVE  IsFiniteSet(Before(n)) /\ Cardinality(Before(n)) \in Nat
<1>1. IsFiniteSet(1 .. Len(argv))
  BY LineIs, FS_Interval
<1>2. Before(n) \in SUBSET (1 .. Len(argv))
  BY LineIs DEF Before, NameWords
<1> QED
  BY <1>1, <1>2, FS_Subset, FS_CardinalityType

LEMMA BeforeNext ==
  ASSUME LineInv, NEW n \in Nat
  PROVE  /\ n \notin NameWords => Before(n + 1) = Before(n)
         /\ n \in NameWords =>
              /\ Cardinality(Before(n + 1)) = Cardinality(Before(n)) + 1
              /\ Rank(n) = Cardinality(Before(n)) + 1
              /\ Before(n + 1) = Before(n) \cup {n}
<1>1. NameWords \subseteq Nat
  BY LineIs DEF NameWords
<1>2. \A i \in NameWords :
        /\ i < n + 1 <=> (i < n \/ i = n)
        /\ i <= n <=> (i < n \/ i = n)
        /\ i = n => ~(i < n)
  BY <1>1
<1>3. /\ n \notin NameWords => Before(n + 1) = Before(n)
      /\ n \in NameWords => /\ Before(n + 1) = Before(n) \cup {n}
                            /\ n \notin Before(n)
                            /\ {j \in NameWords : j <= n} = Before(n) \cup {n}
  BY <1>2, Zenon DEF Before
<1>4. n \notin Before(n) => Cardinality(Before(n) \cup {n})
                              = Cardinality(Before(n)) + 1
  BY BeforeIsFinite, FS_AddElement
<1> QED
  BY <1>3, <1>4 DEF Rank

LEMMA ShareBegins ==
  ASSUME LineInv, ParseCommand PROVE ArgumentsInv' /\ FilesInv'
<1>0. place' \notin Looking
  BY DEF ParseCommand, Looking, Goto
<1>1. CASE place' \notin Sharing
  BY <1>0, <1>1 DEF ArgumentsInv, FilesInv
<1>2. CASE place' \in Sharing
  <2>1. /\ place = "command" /\ place' = "arguments"
        /\ at = 1 /\ at' = 2 /\ argv' = argv /\ 1 <= Len(argv)
        /\ argv[1] = "share"
        /\ paths' = << >> /\ clipboard' = FALSE /\ positional' = FALSE
        /\ files' = << >> /\ temp' = "none"
    BY <1>2, LineIs
       DEF ParseCommand, Sharing, Looking, Goto, Ended, Word, LineInv,
           shareVars, workVars
  <2>2. NameWords' = NameWords /\ \A i \in NameWords : i \in Nat /\ i >= 2
    BY <2>1, LineIs DEF NameWords
  <2>3. Before(at)' = {}
    BY <2>1, <2>2 DEF Before
  <2>4. PathsAreNames'
    BY <2>1, <2>3, FS_EmptySet DEF PathsAreNames
  <2>5. PositionalRead' /\ ClipboardRead'
    <3>1. argv[1] # ClipboardOption
      BY <2>1, OptionsDiffer
    <3>2. 2 .. at' - 1 = {} /\ 1 .. at' - 1 = {1}
      BY <2>1
    <3> QED
      BY <2>1, <3>1, <3>2 DEF PositionalRead, ClipboardRead
  <2>6. at' \in 2 .. Len(argv') + 1
    BY <2>1, LineIs
  <2> QED
    BY <1>0, <2>1, <2>4, <2>5, <2>6 DEF ArgumentsInv, FilesInv
<1> QED
  BY <1>1, <1>2

\* A word is read: as a name, exactly if it is one of NameWords.
LEMMA ArgumentRead ==
  ASSUME LineInv, ArgumentsInv, ParseShareArgument
  PROVE  ArgumentsInv' /\ FilesInv'
<1>0. /\ at \in 2 .. Len(argv) /\ Len(argv) \in Nat /\ at \in Nat
      /\ DOMAIN argv = 1 .. Len(argv) /\ argv' = argv
      /\ argv[1] = "share" /\ files' = << >> /\ temp' = "none"
      /\ positional \in BOOLEAN /\ clipboard \in BOOLEAN
      /\ PositionalRead /\ ClipboardRead /\ PathsAreNames
      /\ place = "arguments" /\ NameWords' = NameWords
  BY LineIs DEF ArgumentsInv, Sharing, ParseShareArgument, Ended, workVars,
                NameWords
<1>1. place' \notin Looking
  BY DEF ParseShareArgument, Looking, Goto
<1>2. FilesInv'
  BY <1>1 DEF FilesInv
<1>3. CASE place' \notin Sharing
  BY <1>2, <1>3 DEF ArgumentsInv
<1>4. at \in NameWords <=> positional \/ Word \notin {EndOfOptions, ClipboardOption}
  BY <1>0 DEF NameWords, PositionalRead, Word
<1>5. \A i : i \in 1 .. at <=> i \in 1 .. at - 1 \/ i = at
  BY <1>0
<1>6. \A i : i \in 2 .. at <=> i \in 2 .. at - 1 \/ i = at
  BY <1>0
<1>7. Before(at)' = Before(at') /\ \A i : Rank(i)' = Rank(i)
  <2>1. NameWords' = NameWords
    BY <1>0
  <2> QED
    BY <2>1, Zenon DEF Before, Rank
<1>8. ASSUME Optional, Word = EndOfOptions, positional' = TRUE, at' = at + 1,
             UNCHANGED <<place, paths, clipboard>>
      PROVE  ArgumentsInv'
  <2>1. at \notin NameWords /\ Word # ClipboardOption
    BY <1>4, <1>8, OptionsDiffer DEF Optional
  <2>2. PositionalRead'
    BY <1>0, <1>6, <1>8 DEF PositionalRead, Word
  <2>3. ClipboardRead'
    BY <1>0, <1>5, <1>8, <2>1 DEF ClipboardRead, Word
  <2>4. Before(at)' = Before(at)
    BY <1>0, <1>7, <1>8, <2>1, BeforeNext
  <2>5. PathsAreNames'
    BY <1>0, <1>7, <1>8, <2>4 DEF PathsAreNames, Words
  <2> QED
    BY <1>0, <1>8, <2>2, <2>3, <2>5 DEF ArgumentsInv
<1>9. ASSUME Optional, Word = ClipboardOption, clipboard' = TRUE, at' = at + 1,
             UNCHANGED <<place, paths, positional>>
      PROVE  ArgumentsInv'
  <2>1. at \notin NameWords /\ Word # EndOfOptions
    BY <1>4, <1>9, OptionsDiffer DEF Optional
  <2>2. PositionalRead'
    BY <1>0, <1>6, <1>9, <2>1 DEF PositionalRead, Word
  <2>3. ClipboardRead'
    BY <1>0, <1>5, <1>9, <2>1 DEF ClipboardRead, Word
  <2>4. Before(at)' = Before(at)
    BY <1>0, <1>7, <1>9, <2>1, BeforeNext
  <2>5. PathsAreNames'
    BY <1>0, <1>7, <1>9, <2>4 DEF PathsAreNames, Words
  <2> QED
    BY <1>0, <1>9, <2>2, <2>3, <2>5 DEF ArgumentsInv
<1>10. ASSUME ~(Optional /\ Word \in Hyphened),
              paths' = Append(paths, Word), at' = at + 1,
              UNCHANGED <<place, clipboard, positional>>
       PROVE  ArgumentsInv'
  <2>1. positional \/ Word \notin Hyphened
    BY <1>10, LaunchAssumption DEF Optional
  <2>2. positional \/ Word \notin {EndOfOptions, ClipboardOption}
    BY <2>1, LaunchAssumption DEF Options
  <2>3. at \in NameWords
    BY <1>4, <2>2
  <2>4. PositionalRead'
    <3>1. positional \/ argv[at] # EndOfOptions
      BY <2>2 DEF Word
    <3> QED
      BY <1>0, <1>6, <1>10, <3>1 DEF PositionalRead
  <2>5. ClipboardRead'
    BY <1>0, <1>5, <1>10, <2>3 DEF ClipboardRead
  <2>6. /\ Before(at)' = Before(at) \cup {at}
        /\ Cardinality(Before(at)') = Cardinality(Before(at)) + 1
        /\ Rank(at) = Cardinality(Before(at)) + 1
    BY <1>0, <1>7, <1>10, <2>3, BeforeNext
  <2>7. PathsAreNames'
    <3>1. /\ paths \in Seq(Words) /\ Len(paths) = Cardinality(Before(at))
          /\ \A i \in Before(at) :
               Rank(i) \in 1 .. Len(paths) /\ paths[Rank(i)] = argv[i]
      BY <1>0 DEF PathsAreNames
    <3>2. argv[at] \in Words /\ Words' = Words
      BY <1>0 DEF Words
    <3>3. /\ paths' \in Seq(Words) /\ Len(paths') = Len(paths) + 1
          /\ paths'[Len(paths) + 1] = argv[at]
          /\ \A k \in 1 .. Len(paths) : paths'[k] = paths[k]
      BY <1>10, <3>1, <3>2 DEF Word
    <3>4. Len(paths') = Cardinality(Before(at)')
      BY <2>6, <3>1, <3>3
    <3>5. ASSUME NEW i \in Before(at)'
          PROVE  Rank(i) \in 1 .. Len(paths') /\ paths'[Rank(i)] = argv[i]
      <4>1. CASE i = at
        BY <2>6, <3>1, <3>3, <4>1
      <4>2. CASE i \in Before(at)
        BY <3>1, <3>3, <4>2
      <4> QED
        BY <2>6, <4>1, <4>2
    <3> QED
      BY <1>0, <1>7, <3>2, <3>3, <3>4, <3>5 DEF PathsAreNames
  <2> QED
    BY <1>0, <1>10, <2>4, <2>5, <2>7 DEF ArgumentsInv
<1> QED
  BY <1>2, <1>3, <1>8, <1>9, <1>10
     DEF ParseShareArgument, Goto, Sharing, Looking, shareVars

LEMMA ArgumentsKept ==
  ASSUME ArgumentsInv, UNCHANGED <<argv, at, paths, clipboard, positional>>,
         place' \in Sharing => place \in Sharing,
         place' = "arguments" => place = "arguments" /\ UNCHANGED <<files, temp>>
  PROVE  ArgumentsInv'
<1>1. NameWords' = NameWords
  BY DEF NameWords
<1>2. Before(at)' = Before(at) /\ \A i : Rank(i)' = Rank(i)
  BY <1>1 DEF Before, Rank
<1>3. (PositionalRead' <=> PositionalRead) /\ (ClipboardRead' <=> ClipboardRead)
  BY <1>1 DEF PositionalRead, ClipboardRead
<1>4. PathsAreNames' <=> PathsAreNames
  BY <1>2 DEF PathsAreNames, Words
<1> QED
  BY <1>3, <1>4, Zenon DEF ArgumentsInv

LEMMA ArgumentsStep ==
  LineInv /\ ArgumentsInv /\ [Next]_vars => ArgumentsInv'
<1> SUFFICES ASSUME LineInv, ArgumentsInv, [Next]_vars PROVE ArgumentsInv'
  OBVIOUS
<1> USE DEF Goto
<1>1. CASE ParseCommand
  BY <1>1, ShareBegins
<1>2. CASE ParseShareArgument
  BY <1>2, ArgumentRead
<1>3. CASE place' \notin Sharing
  BY <1>3 DEF ArgumentsInv
<1>4. CASE ParseEnds
  BY <1>4, ArgumentsKept
     DEF ParseEnds, Sharing, Looking, shareVars, workVars
<1>5. CASE ValidateFile
  BY <1>5, ArgumentsKept DEF ValidateFile, Sharing, Looking, shareVars
<1>6. CASE FilesValid
  BY <1>6, ArgumentsKept
     DEF FilesValid, Sharing, Looking, shareVars, workVars
<1>7. CASE TryProgram
  BY <1>7, ArgumentsKept DEF TryProgram, Sharing, Looking, shareVars
<1>8. CASE MakeDirectory
  BY <1>8, ArgumentsKept DEF MakeDirectory, Sharing, Looking, shareVars
<1>9. CASE WriteClipboard
  BY <1>9, ArgumentsKept DEF WriteClipboard, Sharing, Looking, shareVars
<1>10. CASE OpenPicker
  BY <1>10, ArgumentsKept
     DEF OpenPicker, Sharing, Looking, shareVars, workVars
<1>11. CASE UNCHANGED vars
  BY <1>11, ArgumentsKept DEF vars
<1>12. CASE \/ ParseReceiveOption \/ StartReceiver \/ StopReceiver \/ NoProgram
            \/ LeaveShare \/ ClosePicker \/ Kill
  <2>1. place' \notin Sharing
    BY <1>12 DEF ParseReceiveOption, TakePort, StartReceiver, StopReceiver,
                 NoProgram, LeaveShare, ClosePicker, Kill, Sharing, Looking
  <2> QED
    BY <2>1, <1>3
<1> QED
  BY <1>1, <1>2, <1>4, <1>5, <1>6, <1>7, <1>8, <1>9, <1>10, <1>11, <1>12
     DEF Next, Step

LEMMA FilesStep ==
  LineInv /\ ArgumentsInv /\ FilesInv /\ [Next]_vars => FilesInv'
<1> SUFFICES ASSUME LineInv, ArgumentsInv, FilesInv, [Next]_vars
             PROVE  FilesInv'
  OBVIOUS
<1> USE DEF Goto
<1>1. CASE place' \notin Looking
  BY <1>1 DEF FilesInv
<1>2. Words' = Words
  BY LineStep DEF Words
<1>3. CASE ParseEnds
  <2>1. (place = "arguments" /\ place' = "files") \/ place' \notin Looking
    BY <1>3 DEF ParseEnds, Looking
  <2>2. ASSUME place = "arguments", place' = "files" PROVE FilesInv'
    <3>1. /\ at = Len(argv) + 1 /\ argv' = argv /\ at' = at
          /\ paths' = paths /\ clipboard' = clipboard
          /\ files' = << >> /\ temp' = "none"
          /\ (paths # << >> \/ clipboard) /\ paths \in Seq(Words)
      BY <1>3, <2>2, LineIs
         DEF ParseEnds, ArgumentsInv, Sharing, PathsAreNames, Ended, shareVars,
             workVars
    <3>2. Len(paths') \in Nat /\ Len(files') = 0 /\ files' \in Seq(Shared)
      BY <3>1
    <3>3. FilesAreNamed'
      BY <3>2 DEF FilesAreNamed
    <3> QED
      BY <1>2, <2>2, <3>1, <3>2, <3>3 DEF FilesInv, Shared
  <2> QED
    BY <1>1, <2>1, <2>2
<1>4. CASE ValidateFile
  <2>1. ASSUME Named \in DOMAIN File, files' = Append(files, File[Named]),
               UNCHANGED place
        PROVE  FilesInv'
    <3>1. /\ place = "files" /\ Len(files) < Len(paths)
          /\ at = Len(argv) + 1 /\ (paths # << >> \/ clipboard)
          /\ paths \in Seq(Words) /\ files \in Seq(Shared) /\ FilesAreNamed
          /\ temp = "none" /\ UNCHANGED <<argv, at, paths, clipboard, temp>>
      BY <1>4 DEF ValidateFile, FilesInv, Looking, shareVars
    <3>2. File[Named] \in Shared
      BY <2>1 DEF Shared
    <3>3. /\ files' \in Seq(Shared) /\ Len(files') = Len(files) + 1
          /\ files'[Len(files) + 1] = File[paths[Len(files) + 1]]
          /\ \A k \in 1 .. Len(files) : files'[k] = files[k]
      BY <2>1, <3>1, <3>2 DEF Named
    <3>4. FilesAreNamed'
      BY <2>1, <3>1, <3>3 DEF FilesAreNamed, Named
    <3>5. Len(files') <= Len(paths')
      BY <3>1, <3>3
    <3> QED
      BY <1>2, <2>1, <3>1, <3>3, <3>4, <3>5 DEF FilesInv, Shared
  <2> QED
    BY <1>1, <1>4, <2>1 DEF ValidateFile, Looking
<1>5. ASSUME UNCHANGED <<argv, at, paths, clipboard, files, temp>>,
             place \in Looking,
             \/ place' = place
             \/ /\ place = "files" /\ Len(files) = Len(paths)
                /\ place' = IF clipboard THEN "clipboard" ELSE "setup"
             \/ (place = "clipboard" /\ place' = "directory")
             \/ (place = "setup" /\ place' = "picker")
      PROVE  FilesInv'
  <2>1. FilesAreNamed' <=> FilesAreNamed
    BY <1>5 DEF FilesAreNamed
  <2> QED
    BY <1>2, <1>5, <2>1 DEF FilesInv, Looking, Shared
<1>6. CASE FilesValid
  BY <1>5, <1>6 DEF FilesValid, Looking, shareVars, workVars
<1>7. CASE TryProgram
  BY <1>1, <1>5, <1>7 DEF TryProgram, Looking, shareVars
<1>8. CASE MakeDirectory
  <2>1. ASSUME temp' = "empty", place' = "write" PROVE FilesInv'
    <3>1. /\ at = Len(argv) + 1 /\ (paths # << >> \/ clipboard)
          /\ paths \in Seq(Words) /\ files \in Seq(Shared) /\ FilesAreNamed
          /\ clipboard /\ Len(files) = Len(paths)
          /\ UNCHANGED <<argv, at, paths, clipboard, files>>
      BY <1>8 DEF MakeDirectory, FilesInv, Looking, shareVars
    <3>2. FilesAreNamed'
      BY <3>1 DEF FilesAreNamed
    <3> QED
      BY <1>2, <2>1, <3>1, <3>2 DEF FilesInv, Shared
  <2> QED
    BY <1>1, <1>8, <2>1 DEF MakeDirectory, Looking
<1>9. CASE WriteClipboard
  <2>1. ASSUME temp' = "file", files' = Append(files, ClipboardTxt),
               place' = "setup"
        PROVE  FilesInv'
    <3>1. /\ at = Len(argv) + 1
          /\ paths \in Seq(Words) /\ files \in Seq(Shared) /\ FilesAreNamed
          /\ clipboard /\ Len(files) = Len(paths)
          /\ UNCHANGED <<argv, at, paths, clipboard>>
      BY <1>9 DEF WriteClipboard, FilesInv, Looking, shareVars
    <3>2. /\ files' \in Seq(Shared) /\ Len(files') = Len(files) + 1
          /\ files'[Len(files) + 1] = ClipboardTxt
          /\ \A k \in 1 .. Len(files) : files'[k] = files[k]
      BY <2>1, <3>1 DEF Shared
    <3>3. FilesAreNamed'
      BY <3>1, <3>2 DEF FilesAreNamed
    <3> QED
      BY <1>2, <2>1, <3>1, <3>2, <3>3 DEF FilesInv, Shared
  <2> QED
    BY <1>1, <1>9, <2>1 DEF WriteClipboard, Looking
<1>10. CASE OpenPicker
  BY <1>1, <1>5, <1>10 DEF OpenPicker, Looking, shareVars, workVars
<1>11. CASE UNCHANGED vars
  BY <1>1, <1>5, <1>11 DEF vars
<1>12. CASE ParseCommand
  BY <1>12, ShareBegins
<1>13. CASE ParseShareArgument
  BY <1>13, ArgumentRead
<1>14. CASE \/ ParseReceiveOption \/ StartReceiver \/ StopReceiver \/ NoProgram
            \/ LeaveShare \/ ClosePicker \/ Kill
  <2>1. place' \notin Looking
    BY <1>14 DEF ParseReceiveOption, TakePort, StartReceiver, StopReceiver,
                 NoProgram, LeaveShare, ClosePicker, Kill, Looking
  <2> QED
    BY <2>1, <1>1
<1> QED
  BY <1>3, <1>4, <1>6, <1>7, <1>8, <1>9, <1>10, <1>11, <1>12, <1>13, <1>14
     DEF Next, Step

\* A picker opens on the files that the words of the command line name, in
\* their order, with the clipboard's file last exactly if it was asked for:
\* with any words, in any order, on either side of `--`.
THEOREM SharesAsNamed == Spec => []SharesWhatWasNamed
<1>1. Init => LineInv /\ ArgumentsInv /\ FilesInv
  BY DEF Init, LineInv, ArgumentsInv, FilesInv, Sharing, Looking
<1>2. LineInv /\ ArgumentsInv /\ FilesInv => SharesWhatWasNamed
  <2> SUFFICES ASSUME LineInv, ArgumentsInv, FilesInv, place = "picker"
               PROVE  SharesWhatWasNamed
    BY DEF SharesWhatWasNamed
  <2>1. /\ at = Len(argv) + 1 /\ (paths # << >> \/ clipboard)
        /\ paths \in Seq(Words) /\ files \in Seq(Shared) /\ FilesAreNamed
        /\ IF clipboard
           THEN /\ Len(files) = Len(paths) + 1
                /\ files[Len(files)] = ClipboardTxt
                /\ temp = "file"
           ELSE Len(files) = Len(paths) /\ temp = "none"
    BY DEF FilesInv, Looking
  <2>2. ClipboardRead /\ PathsAreNames /\ clipboard \in BOOLEAN
    BY DEF ArgumentsInv, Sharing, Looking
  <2>3. Len(argv) \in Nat /\ DOMAIN argv = 1 .. Len(argv)
    BY LineIs
  <2>4. Before(at) = NameWords
    BY <2>1, <2>3 DEF Before, NameWords
  <2>5. clipboard <=> AskedForClipboard
    BY <2>1, <2>2, <2>3 DEF ClipboardRead, AskedForClipboard
  <2>6. Len(paths) = Cardinality(NameWords) /\ Len(paths) \in Nat
    BY <2>1, <2>2, <2>4 DEF PathsAreNames
  <2>7. ASSUME NEW i \in NameWords
        PROVE  argv[i] \in DOMAIN File /\ files[Rank(i)] = File[argv[i]]
    <3>1. Rank(i) \in 1 .. Len(paths) /\ paths[Rank(i)] = argv[i]
      BY <2>2, <2>4 DEF PathsAreNames
    <3>2. Rank(i) \in 1 .. Len(files) /\ Rank(i) <= Len(paths)
      BY <2>1, <2>6, <3>1
    <3> QED
      BY <2>1, <3>1, <3>2 DEF FilesAreNamed
  <2>8. files # << >>
    <3>1. paths # << >> => Len(paths) > 0
      BY <2>1
    <3> QED
      BY <2>1, <2>6, <3>1
  <2>9. clipboard => Last(files) = ClipboardTxt
    BY <2>1 DEF Last
  <2> QED
    BY <2>1, <2>5, <2>6, <2>7, <2>8, <2>9 DEF SharesWhatWasNamed
<1> QED
  BY <1>1, <1>2, LineStep, ArgumentsStep, FilesStep, PTL DEF Spec
=============================================================================
