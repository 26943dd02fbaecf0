-------------------------- MODULE LoggerRefinement --------------------------
(***************************************************************************)
(* A logger whose stream buffers lines, and whose descriptor is left       *)
(* alone, keeps the ideal log.                                             *)
(***************************************************************************)
EXTENDS Logger

idealAlive == {p \in Proc : Running(p)}
idealDue == {p \in Proc : Running(p) /\ logging[p]}
idealLines ==
    [i \in 1..(Len(written) \div 2) |-> <<written[2 * i][1], written[2 * i][2]>>]

Ideal == INSTANCE IdealLog WITH
    alive <- idealAlive,
    due <- idealDue,
    log <- idealLines

\* Every call is on the terminal when the process goes on, once and in the
\* order of the log, over forks, execs and sudden ends.
ImplementsIdealLog == Ideal!Spec
=============================================================================
