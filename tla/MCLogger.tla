------------------------------ MODULE MCLogger ------------------------------
(* Two processes with a handful of descriptors: the launcher takes up to   *)
(* two of them, and the program soon has none left.  The buffer of a       *)
(* regular file ends within a line.                                        *)
EXTENDS LoggerRefinement

MCProc == {1, 2}
MCFile == {"data"}
AnyProgram == {"fork", "exec", "abort", "close", "fail"}
DecentProgram == {"fork", "exec", "abort"}
ForkingProgram == {"fork"}
FailingProgram == {"fail"}
StderrOnly == {"stderr"}
AnyTarget == {"stderr", "output"}
=============================================================================
