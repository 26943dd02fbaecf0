------------------------------- MODULE MCSdb -------------------------------
(* A position independent program of four instructions of two bytes each:  *)
(* a loop over 0, 2 and 4, left by 4, and an exit at 6.  The user sets     *)
(* breakpoints inside the loop, or at an address that is not mapped, and   *)
(* moves rip to an instruction or to where there is none.                  *)
EXTENDS SdbRefinement

MCInstr == {0, 2, 4, 6}
MCOpcode == [a \in MCInstr |-> 16 + a]
MCFlow == [a \in MCInstr |-> CASE a = 0 -> {2}
                               [] a = 2 -> {4}
                               [] a = 4 -> {0, 6}
                               [] a = 6 -> {}]
MCExits == {6}
MCUserAddr == {0, 2, 4, 99}
MCRipTargets == {0, 2, 4, 6, 50}
MCLoadBases == {100, 200}
MCFaults == {"exec", "signal", "kill", "intr"}

\* Every cycle of MCFlow goes through 0.
LoopHeads == {0}

\* A command returns to the prompt, or ends the debugger, when every loop of
\* the program has a breakpoint: armed breakpoints stop a loop, and a wait
\* that nothing can end is never entered.
Returns ==
    (pc \in Waits /\ LoopHeads \subseteq Listed) ~> pc \in {"prompt", "quit"}
=============================================================================
