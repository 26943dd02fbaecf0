--------------------------- MODULE IdealDebugger ---------------------------
(***************************************************************************)
(* What a breakpoint debugger promises, as if the processor watched for    *)
(* breakpoints itself: the text of the program is never touched, execution *)
(* follows the program of the file, a program that arrives at a breakpoint *)
(* does not execute the instruction, and the debugger tells its user so    *)
(* exactly then.  There are no addresses, no saved bytes and no rewinding. *)
(***************************************************************************)
EXTENDS Integers

CONSTANTS Instr, Entry, Flow

NoReport == -1

VARIABLES
    mode,     \* what the program is doing, see Modes
    at,       \* the instruction it is about to execute
    bps,      \* the breakpoints
    passing,  \* breakpoints it may execute once without stopping
    report    \* the breakpoint last announced

vars == <<mode, at, bps, passing, report>>

Modes == {"absent",   \* there is no program
          "held",     \* the user has it under control
          "step",     \* executing one instruction
          "free",     \* executing
          "halted",   \* stopped, for no breakpoint, and not yet noticed
          "trapped"}  \* stopped at a breakpoint, and not yet announced

\* Every breakpoint stops the program except one that is being passed.
Stops == bps \ passing

Init ==
    /\ mode = "absent" /\ at = Entry
    /\ bps = {} /\ passing = {} /\ report = NoReport

\* A new program is at its first instruction, or on its way from there.
Attach ==
    /\ mode = "absent"
    /\ mode' \in {"held", "step"}
    /\ at' = Entry /\ passing' = {}
    /\ UNCHANGED <<bps, report>>

Release ==
    /\ mode = "held"
    /\ mode' = "step"
    /\ UNCHANGED <<at, bps, passing, report>>

Execute ==
    /\ mode \in {"step", "free"} /\ at \in Instr \ Stops
    /\ at' \in Flow[at]
    /\ mode' = IF mode = "step" THEN "halted" ELSE "free"
    /\ UNCHANGED <<bps, passing, report>>

Trap ==
    /\ mode \in {"step", "free"} /\ at \in Stops
    /\ mode' = "trapped"
    /\ UNCHANGED <<at, bps, passing, report>>

\* A signal stops it wherever it is, the one for an address without an
\* instruction too.
Interrupt ==
    /\ mode \in {"step", "free"}
    /\ mode' = "halted"
    /\ UNCHANGED <<at, bps, passing, report>>

\* The user is told of the breakpoint, and the program may then pass it.
Report ==
    /\ mode = "trapped"
    /\ mode' = "held"
    /\ report' = at /\ passing' = {at}
    /\ UNCHANGED <<at, bps>>

\* Stopped for another reason, the program is handed to the user or goes on.
Resume ==
    /\ mode = "halted"
    /\ mode' \in {"held", "free"}
    /\ passing' = {}
    /\ UNCHANGED <<at, bps, report>>

SetPc ==
    /\ mode = "held"
    /\ at' \in Int
    /\ UNCHANGED <<mode, bps, passing, report>>

AddBreakpoint ==
    /\ mode = "held"
    /\ \E a \in Instr \ bps : bps' = bps \cup {a}
    /\ UNCHANGED <<mode, at, passing, report>>

DelBreakpoint ==
    /\ mode = "held"
    /\ \E a \in bps : bps' = bps \ {a} /\ passing' = passing \ {a}
    /\ UNCHANGED <<mode, at, report>>

\* The program exits or is killed.  Breakpoints stay for the next one.
Gone ==
    /\ mode # "absent"
    /\ mode' = "absent"
    /\ at' = Entry /\ passing' = {}
    /\ UNCHANGED <<bps, report>>

Next ==
    \/ Attach \/ Release \/ Execute \/ Trap \/ Interrupt \/ Report \/ Resume
    \/ SetPc \/ AddBreakpoint \/ DelBreakpoint \/ Gone

Spec == Init /\ [][Next]_vars
=============================================================================
