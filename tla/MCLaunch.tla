------------------------------ MODULE MCLaunch ------------------------------
(* Command lines of up to four words after the command; two names for one    *)
(* file, one that looks like an option, one that is no UTF-8.                *)
EXTENDS Launch

CONSTANTS raw, file

ReceiveWords == {"--port", "--port=80", "--port=0", "81", "0", "--autoaceept",
                 "--help", raw}
ShareWords   == {"--", "--clipboard", "-h", "-x", "note", "gone", raw}

MCCommandLines ==
  {<< >>, <<"help">>, <<"--version">>, <<"send">>, <<raw>>}
    \cup {<<"receive">> \o line : line \in SeqOf(ReceiveWords, 4)}
    \cup {<<"share">> \o line : line \in SeqOf(ShareWords, 4)}

MCNumber   == "80" :> 80 @@ "81" :> 81 @@ "0" :> 0
MCAssigned == "--port=80" :> "80" @@ "--port=0" :> "0"
MCHyphened == Options \cup DOMAIN MCAssigned \cup {"-x"}
MCFile     == "note" :> file @@ raw :> file @@ "-x" :> "-x"
                @@ "--clipboard" :> "--clipboard"
=============================================================================
