----------------------------- MODULE OfferedFiles -----------------------------
(***************************************************************************)
(* One prepare-upload request, entry by entry: what handle_prepare_upload  *)
(* (src/src/localsend/server.rs) makes of the JSON body that a sender      *)
(* posts, what request_body (src/src/receive.rs) tells the user of it, and *)
(* which uploads it takes to close its session.  UploadServer starts where *)
(* this module ends: with the files of a session as given.                 *)
(*                                                                         *)
(* Numbers have Bits bits (64 in the code).  A name is the sequence of its *)
(* parts between slashes.                                                  *)
(***************************************************************************)
EXTENDS Naturals, Sequences, FiniteSetsExt, SequencesExt

CONSTANTS
  Bodies,    \* [form |-> "map" | "array" | "none", entries |-> a sequence]
  Spelled,   \* Spelled[i]: the decimal spelling of i, from 0
  Bits,
  MaxNames,  \* how many names a notification shows: 4 in the code
  Absent     \* a field that is missing or of another type

Limit == 2 ^ Bits

\* The keys of a map differ; a name is missing or a sequence of parts.
ASSUME OfferedAssumption ==
  /\ Bits \in Nat /\ Limit \in Nat \ {0}
  /\ MaxNames \in Nat
  /\ \A b \in Bodies :
       /\ Len(b.entries) \in Nat /\ DOMAIN b.entries = 1 .. Len(b.entries)
       /\ b.form = "map" =>
            \A i, j \in DOMAIN b.entries :
              b.entries[i].key = b.entries[j].key => i = j
       /\ \A i \in DOMAIN b.entries :
            LET name == b.entries[i].name
            IN name = Absent
               \/ (Len(name) \in Nat /\ DOMAIN name = 1 .. Len(name))

VARIABLES
  body,     \* what was posted
  place,    \* what the handler is at, in the end how the request ended
  at,       \* the next entry, from 1
  dtos,     \* file_dtos, what the receive loop gets of the request
  files,    \* session_files: identifier -> name and size
  tokens,   \* response_files: identifier -> token, the entry it was drawn at
  told,     \* what the notification says: how many files of what size
            \* together, the first names, and how many more there are
  received  \* identifiers whose file was uploaded

vars == <<body, place, at, dtos, files, tokens, told, received>>

\* What a notification tells of a request.
Text(count, total, names, more) ==
  [count |-> count, total |-> total, names |-> names, more |-> more]
Nothing == Text(0, 0, << >>, 0)

Init ==
  /\ body \in Bodies
  /\ place = "entries" /\ at = 1
  /\ dtos = << >> /\ files = << >> /\ tokens = << >>
  /\ told = Nothing /\ received = {}

-----------------------------------------------------------------------------
(* One entry.                                                              *)

Default(value, other) == IF value = Absent THEN other ELSE value

\* Variant: what follows the last slash.
LastPart(name) ==
  IF name = Absent THEN "received_file" ELSE Last(name)

\* safe_file_name: the last part of the path, where empty parts and "." do not
\* count; a path that ends in ".." or has no part gets a name of its own.
SafeFileName(name) ==
  LET parts == IF name = Absent THEN {}
               ELSE {i \in DOMAIN name : name[i] \notin {"", "."}}
  IN IF parts = {} \/ name[Max(parts)] = ".."
     THEN "received_file" ELSE name[Max(parts)]

\* as_u64 gives nothing for a number that does not fit.
Size(entry) == IF entry.size \in 0 .. Limit - 1 THEN entry.size ELSE 0

\* In a map the key is the identifier, whatever the entry says; in an array it
\* is the entry's own, or its place from 0.
FileId(i) ==
  IF body.form = "map" THEN body.entries[i].key
  ELSE Default(body.entries[i].id, Spelled[i - 1])

\* Variant: a session knows an entry of a map by the identifier in it.
InnerId(i) == Default(body.entries[i].id, FileId(i))

\* The identifier by which the session knows entry i.
SessionKey(i) == FileId(i)

\* Variant: an entry that replaces another is not listed again.
ListedOnce(id, file) ==
  IF id \in DOMAIN files THEN dtos ELSE Append(dtos, file)

Listed(id, file) == Append(dtos, file)

\* HashMap::insert replaces what is there.
Insert(map, key, value) ==
  [k \in DOMAIN map \cup {key} |-> IF k = key THEN value ELSE map[k]]

\* Entry i, as it is listed.
FileAt(i) ==
  [id   |-> FileId(i),
   name |-> SafeFileName(body.entries[i].name),
   size |-> Size(body.entries[i])]

TakeEntry ==
  /\ place = "entries"
  /\ body.form # "none" /\ at <= Len(body.entries)
  /\ tokens' = Insert(tokens, FileId(at), at)
  /\ files'  = Insert(files, SessionKey(at), FileAt(at))
  /\ dtos'   = Listed(FileId(at), FileAt(at))
  /\ at' = at + 1
  /\ UNCHANGED <<body, place, told, received>>

-----------------------------------------------------------------------------
(* The request as a whole.                                                 *)

\* A body that is no JSON is refused; one without files is a request too.
\* The session enters the table and the user is asked.
AskUser ==
  /\ place = "entries"
  /\ \/ body.form = "none"
        /\ place' \in {"asked", "bad request"}
     \/ /\ body.form # "none" /\ at > Len(body.entries)
        /\ place' = "asked"
  /\ UNCHANGED <<body, at, dtos, files, tokens, told, received>>

Sizes == MapThenSumSet(LAMBDA i : dtos[i].size, DOMAIN dtos)

\* The names of the first MaxNames files that are listed.
FirstNames ==
  [i \in 1 .. (IF Len(dtos) < MaxNames THEN Len(dtos) ELSE MaxNames) |->
     dtos[i].name]

\* How many files are not named: len().saturating_sub(4).
More == IF Len(dtos) > MaxNames THEN Len(dtos) - MaxNames ELSE 0

\* request_body adds the sizes up in a u64, and names the first files only.  A
\* sum that does not fit wraps in a release build; in a debug build the task
\* panics, its end of the channel is dropped, and the request counts as
\* declined.
ShowRequest ==
  /\ place = "asked"
  /\ \/ /\ told' = Text(Len(dtos), Sizes % Limit, FirstNames, More)
        /\ place' = "shown"
     \/ /\ Sizes >= Limit
        /\ place' = "declined"
        /\ UNCHANGED told
  /\ UNCHANGED <<body, at, dtos, files, tokens, received>>

\* The user, or --autoaccept, decides.  A session that is declined stays.
Decide ==
  /\ place = "shown"
  /\ place' \in {"accepted", "declined"}
  /\ UNCHANGED <<body, at, dtos, files, tokens, told, received>>

\* handle_upload, of the file of a token that the reply has told: the file
\* leaves the session if it is there, and the last one closes it.
Upload(id) ==
  /\ place = "accepted"
  /\ id \in DOMAIN tokens \ received
  /\ received' = IF id \in DOMAIN files THEN received \cup {id} ELSE received
  /\ place' = IF DOMAIN files \ received' = {} THEN "closed" ELSE place
  /\ UNCHANGED <<body, at, dtos, files, tokens, told>>

Next ==
  \/ TakeEntry
  \/ AskUser
  \/ ShowRequest
  \/ Decide
  \/ \E id \in DOMAIN tokens : Upload(id)

Spec == Init /\ [][Next]_vars

\* The handler goes on, the user decides and the sender sends every file that
\* the reply gives it a token for.
FairSpec ==
  /\ Spec
  /\ WF_vars(TakeEntry \/ AskUser \/ ShowRequest)
  /\ WF_vars(Decide)
  /\ WF_vars(\E id \in DOMAIN tokens : Upload(id))

-----------------------------------------------------------------------------
(* Properties.                                                             *)

\* A sender that sends every file it has a token for closes the session,
\* whatever identifiers and duplicates its request had: "a malformed inner id
\* cannot leave a duplicate session entry that never completes"
\* (server.rs:260).  A request that offers nothing has nothing to close it.
AcceptedCloses ==
  place = "accepted" ~> place = "closed" \/ tokens = << >>

\* Files of the session whose names the user was not shown.
Unnamed == {id \in DOMAIN files : files[id].name \notin Range(told.names)}

\* The session lets in no more than the user was asked about: no more files
\* than were counted; the files whose names the notification left out are among
\* the "more" that it speaks of; and unless the sum did not fit into a number
\* the files are together no larger than the total (request_body describes the
\* list, where identifiers may repeat, and the session may hold less).
ConsentCovers ==
  place \in {"shown", "accepted", "closed"} =>
    /\ Cardinality(DOMAIN files) <= told.count
    /\ Cardinality(Unnamed) <= told.more
    /\ Sizes < Limit =>
         MapThenSumSet(LAMBDA id : files[id].size, DOMAIN files) <= told.total

\* Every file of a session has a name that stays where it is put: one part,
\* never the directory itself nor the one above (safe_file_name).
NamesStayInside ==
  \A id \in DOMAIN files : files[id].name \notin {"", ".", ".."}
=============================================================================
