--------------------------- MODULE MCOfferedFiles ---------------------------
(* Requests of up to three entries, which may repeat or leave out           *)
(* identifiers, hide their name in a path, and declare sizes whose sum does  *)
(* not fit; notifications name two files.                                    *)
EXTENDS OfferedFiles, TLC

MCSpelled == 0 :> "0" @@ 1 :> "1" @@ 2 :> "2"

Ids   == {Absent, "0", "1"}
Names == {Absent, <<"a">>, <<"..">>, <<"", "b", ".", "">>}
Sized == {1, 2, 4}

\* In a map the identifier inside an entry and its name vary, in an array too.
Entries == [key : {"0", "1"}, id : Ids, name : Names, size : Sized]

\* Longer arrays, of files that differ in name and identifier alone.
Plain == [key : {"0"}, id : Ids, name : {<<"a">>, <<"b">>, <<"c">>}, size : {1}]

MCBodies ==
  {[form |-> "none", entries |-> << >>], [form |-> "map", entries |-> << >>]}
    \cup {[form |-> "map", entries |-> <<e>>] : e \in Entries}
    \cup {[form |-> "map", entries |-> <<d, e>>] :
            d \in {x \in Entries : x.key = "0"},
            e \in {x \in Entries : x.key = "1"}}
    \cup {[form |-> "array", entries |-> <<d, e>>] :
            d, e \in {x \in Entries : x.key = "0"}}
    \cup {[form |-> "array", entries |-> <<c, d, e>>] : c, d, e \in Plain}
=============================================================================
