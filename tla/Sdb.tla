-------------------------------- MODULE Sdb --------------------------------
(***************************************************************************)
(* The ptrace debugger of HW4 and the process it debugs.                   *)
(*                                                                         *)
(* The debugger is one thread that is either at its prompt or blocked in a *)
(* waitpid; pc says which.  The tracee is the other actor: it executes its *)
(* text, traps, is signalled, exits or is killed while the debugger waits  *)
(* or, in the case of a kill, at any time.  Everything a command does      *)
(* between two waits is one step, because the tracee is stopped meanwhile. *)
(*                                                                         *)
(* The text of the tracee is the first byte of each of its instructions,   *)
(* which is all that the debugger ever patches; Flow abstracts the rest of *)
(* an instruction to the set of instructions that may execute after it.    *)
(* Addresses in mem, bplist and report are those of the ELF file, rip is   *)
(* absolute and base_address is what the debugger believes the load base   *)
(* to be.  Commands that only print (help, list, getregs, dump, disasm,    *)
(* vmmap) change no state and are stutters.                                *)
(***************************************************************************)
EXTENDS Integers, Sequences, SequencesExt

CONSTANTS
    Instr,      \* addresses of the instructions of the program
    Entry,      \* where the program stops when it has been exec'ed
    Opcode,     \* first byte of each instruction, as in the file
    Flow,       \* instructions that may execute after each one
    Exits,      \* instructions that make the exit system call
    UserAddr,   \* addresses the user gives to the break command
    RipTargets, \* where the user moves rip to, from the load base
    Dynamic,    \* header.e_type == ET_DYN
    LoadBases,  \* where the kernel may map the program
    Faults      \* what may go wrong, see ProgramAssumption

INT3 == 204
NoReport == -1
NoBase == -1
Byte == 0..255

ASSUME ProgramAssumption ==
    /\ Instr \subseteq Nat
    /\ Entry \in Instr
    /\ Opcode \in [Instr -> Byte]
    /\ Flow \in [Instr -> SUBSET Instr]
    /\ Exits \subseteq Instr
    /\ UserAddr \subseteq Nat
    /\ RipTargets \subseteq Int
    /\ Dynamic \in BOOLEAN
    /\ LoadBases \subseteq Nat
    /\ ~Dynamic => LoadBases = {0}
    /\ Faults \subseteq {"exec",    \* execvp fails
                         "signal",  \* the tracee is sent a signal
                         "kill",    \* somebody kills the tracee
                         "intr"}    \* somebody kills the debugger

VARIABLES
    state,        \* program.state
    bplist,       \* program.bplist
    base_address, \* program.base_address
    pc,           \* the wait the debugger is in, or "prompt"
    report,       \* the last breakpoint announced to the user
    tracee,       \* status of process program.pid
    cause,        \* why the tracee is stopped
    rip, mem,     \* its instruction pointer and text
    load_base,    \* where it is mapped
    exitkill      \* PTRACE_O_EXITKILL is set

debugger == <<state, bplist, base_address, pc, report>>
process == <<tracee, cause, rip, mem, load_base, exitkill>>
vars == <<state, bplist, base_address, pc, report,
          tracee, cause, rip, mem, load_base, exitkill>>

Waits == {"start_wait", "run_wait", "cont_step", "cont_run", "si_step"}

Live == tracee \in {"exec", "stopped", "stepping", "running"}

\* The instruction rip points to, as an address of the file.
At == rip - load_base

Listed == {bplist[i].addr : i \in DOMAIN bplist}

Init ==
    /\ state \in {"NONE", "LOADED"}    \* sdb without and with a program
    /\ bplist = <<>> /\ base_address = 0 /\ pc = "prompt"
    /\ report = NoReport
    /\ tracee = "none" /\ cause = "none"
    /\ load_base = 0 /\ rip = Entry /\ mem = Opcode
    /\ exitkill = FALSE

-----------------------------------------------------------------------------
(* Reading and patching the text of a stopped tracee. *)

Pokeable(x) == tracee = "stopped" /\ x - load_base \in Instr

\* PTRACE_PEEKDATA of an unmapped address returns -1.
PeekByte(x) == IF x - load_base \in Instr THEN mem[x - load_base] ELSE 255

\* The debugger process ends, by exit, errquit, an uncaught exception or a
\* signal; the kernel then kills the tracee or lets it go.
Quit(kill) ==
    /\ pc' = "quit"
    /\ tracee' = IF ~Live THEN tracee
                 ELSE IF kill THEN "killed" ELSE "detached"
    /\ cause' = "none"
    /\ UNCHANGED <<state, bplist, base_address, report,
                   rip, mem, load_base, exitkill>>

\* The loop of checkbp: 0xcc is written at every listed breakpoint.
RearmNothing == mem
Rearmed ==
    [a \in Instr |->
        IF load_base + a \in {base_address + b : b \in Listed}
        THEN INT3 ELSE mem[a]]

\* checkbp returns i: the first entry that rip has just passed, if the byte
\* there, read before the breakpoints are written again, is 0xcc.
IsHitAtRip(i) ==
    /\ i \in DOMAIN bplist
    /\ rip = base_address + bplist[i].addr
    /\ PeekByte(rip) = INT3
IsHit(i) ==
    /\ i \in DOMAIN bplist
    /\ rip - 1 = base_address + bplist[i].addr
    /\ \A j \in 1..(i - 1) : bplist[j].addr # bplist[i].addr
    /\ PeekByte(rip - 1) = INT3

NoHit == \A i \in DOMAIN bplist : ~IsHit(i)

\* restore: the saved byte goes back and rip moves back over the int3.
RewindTwice == rip - 2
RewindNot == rip
Rewound == rip - 1
RestoreNothing(i) == Rearmed
Restored(i) ==
    [Rearmed EXCEPT ![base_address + bplist[i].addr - load_base] =
                        bplist[i].ovalue]

\* What inscont and inssi do once checkbp has found breakpoint i.
ReportBreakpoint(i) ==
    /\ IsHit(i)
    /\ mem' = Restored(i)
    /\ rip' = Rewound
    /\ report' = bplist[i].addr
    /\ pc' = "prompt"
    /\ UNCHANGED <<state, bplist, base_address,
                   tracee, cause, load_base, exitkill>>

\* PTRACE_SINGLESTEP and then waitpid at w; waitpid fails when there is no
\* child, and a killed child is only discovered by the checkbp that follows.
Singlestep(w) ==
    /\ tracee = "stopped"
    /\ tracee' = "stepping" /\ cause' = "none"
    /\ pc' = w

-----------------------------------------------------------------------------
(* load, start and run *)

\* insload with a program that parse_elf accepts.
InsLoad ==
    /\ pc = "prompt" /\ state = "NONE"
    /\ state' = "LOADED"
    /\ UNCHANGED <<bplist, base_address, pc, report, process>>

\* The fork of start, called by insstart (w = "start_wait") or by insrun.
\* The child maps the text of the file afresh.
ForkTracee(w) ==
    /\ pc = "prompt" /\ state = "LOADED"
    /\ pc' = w
    /\ tracee' = "exec" /\ cause' = "none"
    /\ mem' = Opcode
    /\ exitkill' = FALSE
    /\ UNCHANGED <<state, bplist, base_address, report, rip, load_base>>

InsStart == ForkTracee("start_wait")
InsRun == ForkTracee("run_wait")

\* The child stops at the first instruction of the image it has exec'ed ...
ExecSucceeds ==
    /\ tracee = "exec"
    /\ \E b \in LoadBases : load_base' = b /\ rip' = b + Entry
    /\ tracee' = "stopped" /\ cause' = "exec"
    /\ UNCHANGED <<debugger, mem, exitkill>>

\* ... or reports the error of execvp and exits.
ExecFails ==
    /\ tracee = "exec" /\ "exec" \in Faults
    /\ tracee' = "exited"
    /\ UNCHANGED <<debugger, cause, rip, mem, load_base, exitkill>>

\* PTRACE_SETOPTIONS succeeds only on a stopped tracee.
OptionsNotSet == FALSE
OptionsSet == tracee = "stopped"

\* get_base_address reads startcode of /proc/pid/stat, which no longer
\* exists for a child that waitpid has reaped.
BaseRead ==
    IF ~Dynamic THEN 0
    ELSE IF tracee = "stopped" THEN load_base ELSE NoBase

\* The loop of start: change_byte saves what it replaces, entry by entry.
ArmedList(base) ==
    [i \in DOMAIN bplist |->
        [addr |-> bplist[i].addr,
         ovalue |-> IF \E j \in 1..(i - 1) : bplist[j].addr = bplist[i].addr
                    THEN INT3 ELSE PeekByte(base + bplist[i].addr)]]

ArmedText(base) ==
    [a \in Instr |->
        IF load_base + a \in {base + b : b \in Listed} THEN INT3 ELSE mem[a]]

\* start after its waitpid, whose status it ignores.
Attach ==
    /\ \A a \in Listed : Pokeable(BaseRead + a)
    /\ state' = "RUNNING"
    /\ base_address' = BaseRead
    /\ exitkill' = OptionsSet
    /\ bplist' = ArmedList(BaseRead)
    /\ mem' = ArmedText(BaseRead)
    /\ UNCHANGED <<report, rip, load_base>>

\* change_byte fails when there is nothing to patch.
AttachFails ==
    /\ \E a \in Listed : ~Pokeable(BaseRead + a)
    /\ Quit(OptionsSet)

StartWaited ==
    /\ pc = "start_wait" /\ tracee # "exec"
    /\ \/ /\ Attach
          /\ pc' = "prompt"
          /\ UNCHANGED <<tracee, cause>>
       \/ AttachFails

\* insrun goes on with inscont.
RunWaited ==
    /\ pc = "run_wait" /\ tracee # "exec"
    /\ \/ Attach /\ Singlestep("cont_step")
       \/ AttachFails
       \/ tracee # "stopped" /\ Listed = {} /\ Quit(FALSE)

-----------------------------------------------------------------------------
(* cont and si *)

\* Arguments make inscont complain and then skip the check of the state.
\* insrun in state RUNNING is InsCont(0).
InsCont(nargs) ==
    /\ pc = "prompt"
    /\ nargs # 0 \/ state = "RUNNING"
    /\ \/ Singlestep("cont_step")
          /\ UNCHANGED <<state, bplist, base_address, report,
                         rip, mem, load_base, exitkill>>
       \/ tracee # "stopped" /\ Quit(exitkill)

\* inssi never checks the state.
InsSi ==
    /\ pc = "prompt"
    /\ \/ Singlestep("si_step")
          /\ UNCHANGED <<state, bplist, base_address, report,
                         rip, mem, load_base, exitkill>>
       \/ tracee # "stopped" /\ Quit(exitkill)

\* The step of inscont is over: a breakpoint was hit, or the program runs on
\* with every breakpoint armed, or checkbp finds no process and gives up.
ContStepped ==
    /\ pc = "cont_step"
    /\ \/ tracee = "stopped" /\ \E i \in DOMAIN bplist : ReportBreakpoint(i)
       \/ /\ tracee = "stopped" /\ NoHit
          /\ mem' = Rearmed
          /\ tracee' = "running" /\ cause' = "none"
          /\ pc' = "cont_run"
          /\ UNCHANGED <<state, bplist, base_address, report,
                         rip, load_base, exitkill>>
       \/ ~Live /\ Quit(exitkill)

\* checkbp without a hit, and back to the prompt.
Hold ==
    /\ tracee = "stopped" /\ NoHit
    /\ mem' = Rearmed
    /\ pc' = "prompt"
    /\ UNCHANGED <<state, bplist, base_address, report,
                   tracee, cause, rip, load_base, exitkill>>

\* The PTRACE_CONT of inscont is over.  Only an exit is recognised as the end
\* of the program; after a kill checkbp finds no process.
ContStopped ==
    /\ pc = "cont_run"
    /\ \/ tracee = "stopped" /\ \E i \in DOMAIN bplist : ReportBreakpoint(i)
       \/ Hold
       \/ /\ tracee = "exited"
          /\ state' = "LOADED" /\ pc' = "prompt"
          /\ UNCHANGED <<bplist, base_address, report, process>>
       \/ tracee = "killed" /\ Quit(exitkill)

SiStepped ==
    /\ pc = "si_step"
    /\ \/ tracee = "stopped" /\ \E i \in DOMAIN bplist : ReportBreakpoint(i)
       \/ Hold
       \/ ~Live /\ Quit(exitkill)

-----------------------------------------------------------------------------
(* The other commands that change state *)

DupUnchecked(a) == FALSE
Dup(a) == a \in Listed

\* setbreak.
SetBreak(a) ==
    /\ Pokeable(base_address + a)
    /\ bplist' = Append(bplist, [addr |-> a, ovalue |-> PeekByte(base_address + a)])
    /\ mem' = [mem EXCEPT ![base_address + a - load_base] = INT3]
    /\ UNCHANGED <<state, base_address, pc, report,
                   tracee, cause, rip, load_base, exitkill>>

\* insbreak.  An address that is listed already is refused; one that cannot
\* be patched ends the debugger.
InsBreak(a) ==
    /\ pc = "prompt" /\ state = "RUNNING" /\ ~Dup(a)
    /\ \/ SetBreak(a)
       \/ ~Pokeable(base_address + a) /\ Quit(exitkill)

DeletedTextKept(i) == mem
DeletedText(i) ==
    [mem EXCEPT ![base_address + bplist[i].addr - load_base] =
                    bplist[i].ovalue]

Erase(i) ==
    /\ Pokeable(base_address + bplist[i].addr)
    /\ mem' = DeletedText(i)
    /\ bplist' = RemoveAt(bplist, i)
    /\ UNCHANGED <<state, base_address, pc, report,
                   tracee, cause, rip, load_base, exitkill>>

\* insdelete, i being bpid + 1.
InsDelete(i) ==
    /\ pc = "prompt" /\ state = "RUNNING" /\ i \in DOMAIN bplist
    /\ \/ Erase(i)
       \/ ~Pokeable(base_address + bplist[i].addr) /\ Quit(exitkill)

\* insset of rip, to any number: to an instruction, to the byte behind a
\* breakpoint, or to where nothing is mapped.
InsSet(a) ==
    /\ pc = "prompt" /\ state = "RUNNING" /\ load_base + a >= 0
    /\ \/ /\ tracee = "stopped"
          /\ rip' = load_base + a
          /\ UNCHANGED <<debugger, tracee, cause, mem, load_base, exitkill>>
       \/ tracee # "stopped" /\ Quit(exitkill)

\* insget without a process to read from.
InsGet ==
    /\ pc = "prompt" /\ state = "RUNNING" /\ tracee # "stopped"
    /\ Quit(exitkill)

\* insbreak and insdelete with a word that stoul or stoi throws on.
BadNumber == pc = "prompt" /\ state = "RUNNING" /\ Quit(exitkill)

\* insexit, and the end of a script.
InsExit == pc = "prompt" /\ Quit(exitkill)

-----------------------------------------------------------------------------
(* The tracee, executing its text as it is in memory *)

Trap ==
    /\ tracee \in {"stepping", "running"} /\ At \in Instr
    /\ mem[At] = INT3
    /\ rip' = rip + 1
    /\ tracee' = "stopped" /\ cause' = "int3"
    /\ UNCHANGED <<debugger, mem, load_base, exitkill>>

Execute ==
    /\ tracee \in {"stepping", "running"} /\ At \in Instr \ Exits
    /\ mem[At] # INT3
    /\ \E next \in Flow[At] : rip' = load_base + next
    /\ \/ tracee = "stepping" /\ tracee' = "stopped" /\ cause' = "step"
       \/ tracee = "running" /\ UNCHANGED <<tracee, cause>>
    /\ UNCHANGED <<debugger, mem, load_base, exitkill>>

Exit ==
    /\ tracee \in {"stepping", "running"} /\ At \in Exits
    /\ mem[At] # INT3
    /\ tracee' = "exited"
    /\ UNCHANGED <<debugger, cause, rip, mem, load_base, exitkill>>

\* Where there is no instruction the processor faults, and SIGSEGV stops the
\* tracee.
Segfault ==
    /\ tracee \in {"stepping", "running"} /\ At \notin Instr
    /\ tracee' = "stopped" /\ cause' = "signal"
    /\ UNCHANGED <<debugger, rip, mem, load_base, exitkill>>

\* A signal other than SIGKILL stops the tracee before it executes anything.
\* The debugger never passes it on.
Signal ==
    /\ "signal" \in Faults
    /\ tracee \in {"stepping", "running"}
    /\ tracee' = "stopped" /\ cause' = "signal"
    /\ UNCHANGED <<debugger, rip, mem, load_base, exitkill>>

Kill ==
    /\ "kill" \in Faults /\ Live
    /\ tracee' = "killed" /\ cause' = "none"
    /\ UNCHANGED <<debugger, rip, mem, load_base, exitkill>>

\* The debugger is killed, or ^C reaches it.
Interrupted == "intr" \in Faults /\ pc # "quit" /\ Quit(exitkill)

-----------------------------------------------------------------------------
Command ==
    \/ InsLoad \/ InsStart \/ InsRun \/ InsSi \/ InsGet \/ InsExit \/ BadNumber
    \/ \E nargs \in {0, 1} : InsCont(nargs)
    \/ \E a \in UserAddr : InsBreak(a)
    \/ \E i \in DOMAIN bplist : InsDelete(i)
    \/ \E a \in RipTargets : InsSet(a)

\* What the debugger does when a waitpid returns.
Waited == StartWaited \/ RunWaited \/ ContStepped \/ ContStopped \/ SiStepped

ExecOutcome == ExecSucceeds \/ ExecFails
TraceeStep == Trap \/ Execute \/ Exit \/ Segfault
Fault == Signal \/ Kill \/ Interrupted

\* The debugger has ended.
Ended == pc = "quit" /\ UNCHANGED vars

Next == Command \/ Waited \/ ExecOutcome \/ TraceeStep \/ Fault \/ Ended

Spec == Init /\ [][Next]_vars

\* The kernel lets the tracee run and wakes the debugger up.  Nothing makes
\* the user type a command, and no fault has to happen.
Fairness == WF_vars(Waited) /\ WF_vars(ExecOutcome) /\ WF_vars(TraceeStep)

FairSpec == Spec /\ Fairness

-----------------------------------------------------------------------------
(* Properties *)

\* The type of the state; an instruction pointer is on an instruction, has
\* just passed an int3, or is where the user has moved it.
TypeOK ==
    /\ state \in {"NONE", "LOADED", "RUNNING"}
    /\ bplist \in Seq([addr : UserAddr \cap Instr, ovalue : Byte])
    /\ base_address \in LoadBases \cup {0, NoBase}
    /\ pc \in Waits \cup {"prompt", "quit"}
    /\ report \in Instr \cup {NoReport}
    /\ tracee \in {"none", "exec", "stopped", "stepping", "running",
                   "exited", "killed", "detached"}
    /\ cause \in {"none", "int3", "step", "signal", "exec"}
    /\ load_base \in LoadBases \cup {0}
    /\ At \in Instr \cup {a + 1 : a \in Instr} \cup RipTargets
    /\ rip \in Nat
    /\ mem \in [Instr -> Byte]
    /\ exitkill \in BOOLEAN

\* The debugger controls a process.
Attached == state = "RUNNING" /\ tracee \in {"stopped", "stepping", "running"}

\* Breakpoints never lose or corrupt the program: what delete and restore
\* will write back is the byte of the file, and the text of the process
\* differs from the file only by an int3 at a listed breakpoint.  setbreak,
\* insdelete, checkbp, restore and start all patch, over any number of runs
\* and load addresses.
TextIntegrity ==
    /\ \A i \in DOMAIN bplist : bplist[i].ovalue = Opcode[bplist[i].addr]
    /\ Live => \A a \in Instr : mem[a] # Opcode[a] =>
                                    a \in Listed /\ mem[a] = INT3

\* At most one listed breakpoint is not armed, it is the one the user was
\* last told about, and the program is not running freely: restore disarms
\* it and the next checkbp must arm it before PTRACE_CONT.
DisarmedIsReported ==
    Attached =>
        \A a \in Listed : mem[a] # INT3 =>
            a = report /\ pc \in {"prompt", "cont_step", "si_step"}

\* A process that outlives the debugger runs the program of the file: one
\* with int3s in it would die of SIGTRAP.  EXITKILL must be set before the
\* first breakpoint is written.
DetachedClean == tracee = "detached" => mem = Opcode

\* While the program runs under cont it does not get past a listed
\* breakpoint: executing one traps.
BreakpointsStop ==
    [][tracee = "running" /\ At \in Listed /\ rip' # rip => cause' = "int3"]_vars

\* A breakpoint is announced, and rip moved back, only when the tracee has
\* executed an int3 ("return bp idx, or -1 if not bp", ins.cpp:100).
ReportsAreTraps ==
    [][tracee = "stopped" /\ pc \in {"cont_step", "cont_run", "si_step"}
          /\ rip' # rip => cause = "int3"]_vars

\* start stops the program at its first instruction (ins.cpp:440).
StartStopsTracee ==
    [][pc = "start_wait" /\ pc' = "prompt"
          => tracee' = "stopped" /\ At' = Entry]_vars
=============================================================================
