------------------------------ MODULE IdealLog ------------------------------
(***************************************************************************)
(* The log that HW2 asks for: every call is in it, once, when the process  *)
(* goes on, whatever becomes of the process and of the others.             *)
(***************************************************************************)
EXTENDS Naturals, Sequences

CONSTANT Proc

VARIABLES
    alive,  \* the processes that run
    made,   \* the number of calls of each process
    due,    \* those whose last call is not yet in the log
    log     \* the calls <<p, n>>

vars == <<alive, made, due, log>>

Init ==
    /\ alive = {} /\ due = {} /\ log = <<>>
    /\ made = [p \in Proc |-> 0]

Start(p) ==
    /\ p \notin alive
    /\ alive' = alive \cup {p}
    /\ UNCHANGED <<made, due, log>>

Call(p) ==
    /\ p \in alive \ due
    /\ made' = [made EXCEPT ![p] = @ + 1]
    /\ due' = due \cup {p}
    /\ UNCHANGED <<alive, log>>

Log(p) ==
    /\ p \in due
    /\ log' = Append(log, <<p, made[p]>>)
    /\ due' = due \ {p}
    /\ UNCHANGED <<alive, made>>

\* A process that is killed in a call leaves no line about it.
End(p) ==
    /\ p \in alive
    /\ alive' = alive \ {p} /\ due' = due \ {p}
    /\ UNCHANGED <<made, log>>

Next == \E p \in Proc : Start(p) \/ Call(p) \/ Log(p) \/ End(p)

Spec == Init /\ [][Next]_vars
=============================================================================
