------------------------------- MODULE MCLsof -------------------------------
(* Three processes: one that maps a deleted file twice and its own program *)
(* in between, one without a program and maps, as kernel threads are, and  *)
(* one that is denied.                                                     *)
EXTENDS Lsof

MCFile == {"dir", "program", "old", "log", "pipe"}
MCNode == [f \in MCFile |-> CASE f = "dir" -> 2 [] f = "program" -> 5
                              [] f = "old" -> 7 [] f = "log" -> 8 [] f = "pipe" -> 9]
MCLink == [p \in Pid |-> [l \in Links |-> IF l # "exe" THEN "dir"
                                        ELSE IF p = 2 THEN NoFile ELSE "program"]]
MCMaps == [p \in Pid |-> CASE p = 1 -> <<"old", "program", "old">> [] p = 2 -> <<>>
                         [] p = 3 -> <<"program">>]
MCOpen == {[file |-> "log", mode |-> "u"], [file |-> "pipe", mode |-> "r"]}

MCType == [f \in MCFile |-> CASE f = "dir" -> "DIR" [] f = "pipe" -> "FIFO" [] OTHER -> "REG"]
MCCommand == [p \in Pid |-> CASE p = 1 -> "sh" [] p = 2 -> "kworker" [] p = 3 -> "bash"]
MCWord == {"sh", "^s", "ba", "o", "(", "REG", "FIFO", "unknown", "FILE"}
MCFound == [a \in MCWord |-> CASE a = "sh" -> {"sh", "bash"} [] a = "^s" -> {"sh"}
                               [] a = "ba" -> {"bash"}
                               [] a = "o" -> {"program", "old", "log", "none"}
                               [] a = "(" -> {} [] OTHER -> {a}]
Option(o, a) == [opt |-> o, arg |-> a]
MCCommandLines ==
    {<<>>,
     <<Option("c", "^s"), Option("t", "FIFO"), Option("f", "o"), Option("f", "("),
       Option("t", "REG")>>,
     <<Option("c", "(")>>,
     <<Option("f", "o"), Option("t", "unknown"), Option("c", "ba")>>,
     <<Option("c", "sh"), Option("t", "FILE")>>, <<Option("?", "o")>>}
NoOptions == {<<>>}
=============================================================================
