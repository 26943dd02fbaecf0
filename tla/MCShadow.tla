----------------------------- MODULE MCShadow -----------------------------
(* A static program that is not clean: the one-byte instruction at 0 is    *)
(* followed by a loop head at 1, and the instruction at 4 is an int3.      *)
(*     0: nop   1: dec   2: jne 1   4: int3   5: syscall (exit)            *)
EXTENDS Sdb

MCInstr == {0, 1, 2, 4, 5}
MCOpcode == [a \in MCInstr |-> IF a = 4 THEN INT3 ELSE 16 + a]
MCFlow == [a \in MCInstr |-> CASE a = 0 -> {1}
                               [] a = 1 -> {2}
                               [] a = 2 -> {1, 4}
                               [] a = 4 -> {5}
                               [] a = 5 -> {}]
MCExits == {5}
MCUserAddr == {0, 4}
MCRipTargets == {0, 1, 2, 4, 5}
MCLoadBases == {0}
NoFaults == {}
=============================================================================
