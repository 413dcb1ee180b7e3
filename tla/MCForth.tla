------------------------------ MODULE MCForth -------------------------------
(***************************************************************************)
(* Values of Forth's constants for TLC.  The words that make up calls and  *)
(* tasks are cheap to type, the rest of the compiling words is dearer, so  *)
(* that long programs of the first are reached and shorter ones of all.    *)
(* Block 1 holds a prelude.  The name B+ stands for one whose first 31     *)
(* characters are those of B.                                              *)
(***************************************************************************)
EXTENDS Forth

CallWords == <<"DUP", ":", ";", "'", "EXECUTE", "LOAD", "YIELD", "FORK", ">R">>
OtherWords == <<"/", "R>", "R@", "HERE", ",", "BASE", "HEX", "DECIMAL", "CREATE",
                "VARIABLE", "CONSTANT", "IMMEDIATE", "IF", "ELSE", "THEN", "BEGIN",
                "UNTIL", "AGAIN", "WHILE", "REPEAT", "DO", "LOOP">>
AllWords == CallWords \o OtherWords

Prelude == <<<<":", "A", "1", ";", ":", "A", "A", "DUP", ";", ":", "B", "EXECUTE", "A", ";",
               ":", "C", ">R", "YIELD", ";">>>>
NoBlocks == <<>>

BranchWords == <<":", ";", "IF", "THEN">>

Digits == [w \in {"1", "-1", "F"} |->
             CASE w = "1" -> Text("none", "none", <<1>>)
               [] w = "-1" -> Text("none", "-", <<1>>)
               [] w = "F" -> Text("none", "none", <<15>>)]

Cut == [n \in {"B+"} |-> "B"]
NameLengths == [n \in ToSet(AllWords) \cup {"A", "B", "C"} |->
                  CASE n = "B" -> 31
                    [] n = "IMMEDIATE" -> 9
                    [] n \in {"VARIABLE", "CONSTANT"} -> 8
                    [] OTHER -> 1]          \* 1 to 7 take the same cells

Costs == [w \in ToSet(AllWords) \cup {"A", "B", "C", "B+", "1", "-1", "F"} |->
            CASE w = "LOAD" -> 1
              [] w \in {":", ";", "'", "FORK", "A", "B", "C", "1"} -> 2
              [] w \in {"DUP", "EXECUTE", "YIELD", ">R", "-1"} -> 3
              [] OTHER -> 4]
=============================================================================
