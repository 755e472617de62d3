----------------------------- MODULE MC_Lilyvm ------------------------------
(* Constants for the run of Lilyvm: two files, one of which vmtest saves. *)
EXTENDS LilyvmInv

Arguments == {"f", "-s", "--heap", "--", "--help", "7", "007"}
MC_Argvs ==
    UNION {[1..n -> Arguments] : n \in 0..3}
    \cup {<<"f", "g", "f">>, <<"g", "-h", "7", "-s", "300", "f">>, <<"f", "-s", "7", "-s", "300">>,
          <<"--heap", "65543", "f">>, <<"--stack", "-7", "f">>, <<"-h", "", "g">>, <<"g", "-s", "7", "--", "--heap">>}

MC_Paths == Arguments \cup {"g", "-h", "--stack", "300", "65543", "-7", ""}
MC_atoi == [s \in MC_Paths |-> CASE s \in {"7", "007"} -> 7 [] s = "300" -> 300 [] s = "65543" -> 65543
                                 [] s = "-7" -> -7 [] OTHER -> 0]

MC_Program == [p \in {"f"} |-> <<1, 2>>]
\* No file yet, one of an earlier program that was longer, and one of this program
MC_Earlier == {[p \in MC_Paths |-> CASE p = "f" -> c [] p = "g" -> <<3>> [] OTHER -> Absent] :
                  c \in {Absent, <<8, 9, 9>>, <<1, 2>>}}
=============================================================================
