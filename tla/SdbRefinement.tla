--------------------------- MODULE SdbRefinement ---------------------------
(***************************************************************************)
(* The debugger of HW4 implements IdealDebugger, for the programs that a   *)
(* debugger that patches int3 can tell apart from its own doing.           *)
(***************************************************************************)
EXTENDS Sdb

\* The program executes no int3 of its own, and no instruction begins, and
\* the user moves rip, one byte behind a place where he may set a breakpoint:
\* checkbp takes "rip - 1 is a breakpoint" for "that breakpoint was executed".
ASSUME CleanProgram ==
    /\ \A a \in Instr : Opcode[a] # INT3
    /\ \A a \in UserAddr \cap Instr : a + 1 \notin Instr \cup RipTargets

\* The tracee has executed the int3 of a breakpoint and the debugger has not
\* yet moved rip back.
HasTrapped ==
    /\ pc \in Waits
    /\ \E i \in DOMAIN bplist : IsHit(i)

idealMode ==
    CASE ~Attached -> "absent"
      [] Attached /\ tracee = "stepping" -> "step"
      [] Attached /\ tracee = "running" -> "free"
      [] Attached /\ tracee = "stopped" /\ pc = "prompt" -> "held"
      [] Attached /\ tracee = "stopped" /\ pc # "prompt" /\ HasTrapped -> "trapped"
      [] OTHER -> "halted"

idealAt ==
    IF ~Attached THEN Entry
    ELSE IF tracee = "stopped" /\ HasTrapped THEN At - 1 ELSE At

\* The breakpoint that is not armed.
idealPassing ==
    IF Attached THEN {a \in Listed : mem[a] # INT3} ELSE {}

Ideal == INSTANCE IdealDebugger WITH
    mode <- idealMode,
    at <- idealAt,
    bps <- Listed,
    passing <- idealPassing,
    report <- report

\* Whatever the commands, the runs and the load addresses, the user and the
\* program see what they would see with breakpoints in hardware.
ImplementsIdeal == Ideal!Spec
=============================================================================
