# Verification of the UNIX programming homeworks

TLA+ models of the four programs of this repository, the TLC runs that check them on small instances, and
proofs of the safety of all four that TLAPS checks for every value of the constants.  Paths are relative to
the repository's `src/`.

| program | what it is | modules |
|---|---|---|
| HW4 | `sdb`, a ptrace debugger with int3 breakpoints | `Sdb`, `IdealDebugger`, `SdbRefinement`, `SdbProofs`, `SdbRefinementProofs`, `MCSdb`, `MCShadow`; around them `Session`, `SessionProofs`, `MCSession` |
| HW2 | `logger`, an LD_PRELOAD logger of file activity | `Logger`, `IdealLog`, `LoggerRefinement`, `LoggerProofs`, `LoggerRefinementProofs`, `MCLogger` |
| HW3 | `libmini`, a C library: errno, signals, setjmp/longjmp | `LibMini`, `LibMiniProofs`, `MCLibMini` |
| HW1 | `hw1`, a lister of open files like lsof | `Lsof`, `LsofProofs`, `MCLsof` |

The programs share no code and never interact, so no module composes two of them.  Within each program
the interacting parties (debugger and tracee; processes that share a log; a program, its handlers and the
kernel; the scanner and the process scanned) are actors of one module, because the hazards are in their
interleaving and not in an interface between them.

## Inventory

### HW4, the debugger (`HW4/ins.cpp`, `start.cpp`, `util.cpp`, `load.cpp`, `disasm.cpp`, `main.cpp`)

*State.* `struct Program` (`util.h`): state NONE / LOADED / RUNNING, pid, base address, the list of
breakpoints with the byte each one replaced.  Outside of it, and just as important: the tracee's text,
instruction pointer, registers and stop, the ptrace option EXITKILL, and which `waitpid` the debugger is
in; `program.regs`, a copy of the registers that is as old as the last PTRACE_GETREGS; and the string and
the flags of the stream that `main` or `execscript` read lines from.

*Operations.* `main` parses its options, reads lines from a script or a terminal and hands each to `execins`,
which knows load, start, run, cont, si, break, delete, set, get, getregs, exit, disasm and commands that only
print.
`checkbp` writes 0xcc at every listed address and says whether rip has just passed one; `restore` puts the
saved byte back and moves rip onto it; `start` forks, waits, sets EXITKILL, reads the base address and arms
the list.

*Interaction.* Blocking: the debugger is in waitpid while the tracee runs, the tracee is stopped while the
debugger works.  A kill may come at any time, to either.

*Hard.* A breakpoint that was reported is disarmed until the next single step is over; the list survives
from run to run while addresses, text and pids do not; "byte behind an 0xcc" is only a guess at "trapped";
`set` and `restore` write all registers back from the copy, and `set rip` takes any number; getline leaves
its string alone if the stream has ended before; the window of text given to the disassembler is computed in
unsigned arithmetic.

*Correct means.* The text is never corrupted; breakpoints are neither missed nor invented; the program
executes as if it were not patched; a survivor of the debugger is clean; commands come back; each line is
executed once; a register changes only when the program or the user says so; scripts end.

*Left out.* The disassembler with the window of text it is given, `break.cpp` (only includes), the ELF parser
(its result is a constant of the model).

### HW2, the logger (`HW2/hw2.c`, `HW2/logger.c`)

*State.* The environment variable `output_fd` and the descriptor it names, inherited by every process; in
each process the static stream `output_file` with its buffer.

*Operations.* The launcher chooses the target (the file of `-o`, or its stderr), duplicates it and execs.
Each of the interposed calls (chmod, chown, close, creat, fclose, fopen, fread, fwrite, open, read, remove,
rename, tmpfile, write) makes the real call, opens the stream if need be, and prints a line.

*Interaction.* Through fork (copies descriptor and buffer), exec (keeps the descriptor, loses the buffer)
and the shared target; the monitored program owns the descriptor table and may close anything.

*Hard.* Buffers duplicated or lost, lines of processes interleaved, a descriptor number used by somebody
else, real calls that fail.

*Correct means.* Every call in the log once and in order; nothing written anywhere else; the monitored
program behaves as it would alone.

### HW3, the library (`HW3/libmini.c`, `libmini64.asm`, `libmini.h`, `start.asm`)

*State.* `errno`, and a caller's `jmp_buf` (registers and signal mask).  The kernel keeps mask, pending
signals and actions.

*Operations.* Wrappers of system calls that set errno; perror; signal, sigaction, sigprocmask, sigpending
and operations on sets; pause, alarm, sleep; setjmp and longjmp.

*Interaction.* Handlers interrupt the library between any two instructions, call it themselves, and may
leave through longjmp.

*Hard.* longjmp has unblocked signals before it has left the old stack; perror's writes set errno;
the mask saved and restored in a different system call than the registers, so that a jmp_buf may hold the
mask of one setjmp and the registers of another.

*Correct means.* The mask and the stack after longjmp are those of setjmp; no handler is re-entered;
the error printed is the error of the call.

### HW1, the lister (`HW1/hw1.cpp`, `proc_info.cpp`, `file_info.cpp`, `filter.cpp`)

*State.* The filters of the command line; the process looked at, its rows, the directory being read;
descriptors of its own.

*Operations.* For each entry of /proc: read command and user, follow cwd, root and exe, read maps, then for
each entry of fd an lstat, a readlink and two stats; print the rows that the filters let through unless
something failed.  A filter is compiled each time it is applied, and a malformed one throws.

*Interaction.* With the processes it looks at, only through /proc; they change between any two calls.

*Hard.* Processes that end, files that are closed or replaced between the calls; links that lead nowhere;
early returns; an exception after part of the output, some of which stdout may still buffer.

*Correct means.* What stays put is printed exactly; what changes is printed as it was during the calls for
its row; changes of one descriptor do not spoil the rows of others; it ends.

## How the models correspond to the code

`PROJECT.json` maps each definition to its lines.  The conventions:

* **`Sdb`**.  `pc` is the waitpid the debugger is in (`start_wait`, `run_wait`, `cont_step`, `cont_run`,
  `si_step`) or `prompt`.  An action is everything between two waits, trailing `checkbp` included, because
  the tracee is stopped meanwhile; the one exception, a SIGKILL from outside between two ptrace calls, is
  the same as a SIGKILL before the first one, or after the last.  `mem` is the first byte of each
  instruction; `Flow` says which instructions may follow.  `set rip` moves rip to any of `RipTargets`, numbers
  that need not be instructions: where nothing is, the program gets SIGSEGV at its next step (`Segfault`).
  `Ins...` are the commands,
  `...Waited`/`...Stepped`/`...Stopped` what follows a wait, `Trap`, `Execute`, `Exit`, `Signal`, `Kill` the
  tracee.  `errquit` and uncaught exceptions are `Quit`, after which the kernel kills the tracee or, without
  EXITKILL, lets it go.
* **`IdealDebugger`** is a debugger whose breakpoints are in hardware: no bytes, no rewinding, no addresses
  of runs.  `SdbRefinement` maps: `at` is rip, less one if an int3 has just been executed; `passing` is the
  breakpoint that is disarmed; the mode is read off tracee and pc.
* **`Session`** extends `Sdb` with `main` (`turn`, `pos`, `line`, `eof`) and the registers.  The handlers of
  `Sdb` are the bodies of the commands after their checks; `Break`, `Delete`, `Set`, ... decide from the line
  whether the body runs, is refused or throws.  `line` is the number of the line that the string holds, so
  that a string executed twice can be seen; `times` counts. A value that the code reads uninitialised
  (`Scanned`, `RipScanned`) is any value.
* **`Logger`**.  One action per monitored call that changes descriptors or files (the others are
  `Transfer`); `Log` is the second half of a call, the line, or the crash on a stream that could not be
  opened.  A line is two units, so that a block buffer can end inside one.  `LineBuffered` is the
  terminal's rule.  `cut` remembers who closed the log's descriptor.
* **`IdealLog`** appends a call to the log before its process goes on.
* **`LibMini`**.  The process is a stack of activations, main first.  Functions that a handler can disturb
  take two steps (`Setjmp`/`SetjmpReturns`, `Longjmp`/`Lands`, `Perror`/`PerrorPrints`, `Pause` and the
  return of a handler); every other function is a system call and `Return`, which sets errno.
  `rsp` of an activation counts words from where its stack pointer should be.  The jmp_buf belongs to the
  activation, main or a handler, that called setjmp.  `Setjmp` stores the new mask and leaves the registers of
  the setjmp before it, if there was one, so that a handler that runs before `SetjmpReturns` may jump through
  the mixture.
* **`Lsof`**.  One action per system call on /proc, per option read and per row printed.  Processes are
  independent, so only the one that is looked at is followed, from any state it may be found in.  A row holds
  the file whose name it shows, the i-node number and the type, each as its call found it.  `options` is the
  command line, `optind` and `filter` are how far it has been read; an expression is the set of the names it
  is found in, or `Malformed`.  `printed` is the output about the process; an abort keeps any prefix of it,
  for stdout may still buffer the rest.  The exe of a kernel thread is `NoFile`.  `had` and `seen` are history
  variables that no action of hw1 reads: what a descriptor has been since the process was found, as long as it
  has not changed, and what it was from the lstat of its entry to the last stat for its row.

Every mutated definition that the mutants name (`RearmNothing`, `BufferedFirst`, `AnyNode`, ...) stands
next to the one it is a plausible slip of and is used nowhere.

## Runs

| run | asks | distinct states |
|---|---|---|
| `sdb` | all safety, the refinement and liveness of the debugger, on a clean program | 19 061 |
| `session` | lines, registers and the end of scripts | 111 995 |
| `shadow_reports` | *violated*: only executed int3s are reported | |
| `start_exec` | *violated*: start stops the program at its first instruction | |
| `logger` | completeness, order and aim of a block-buffered log | 988 711 |
| `logger_tty` | whole lines, and the ideal log, on a terminal | 272 130 |
| `logger_once` | *violated*: each call is logged once | |
| `logger_harm` | *violated*: the monitored program survives | |
| `libmini` | masks, re-entrance, errors under nested handlers | 2 241 856 |
| `libmini_jmp` | *violated*: longjmp restores the stack pointer | |
| `lsof` | exactness, truth and end of a scan, with filters | 1 458 580 |
| `lsof_running` | *violated*: a process that runs all the time is printed | |

### Bounds, and why they are enough

* `MCSdb`: four instructions with a loop and an exit, three addresses for breakpoints and one that is not
  mapped, two load addresses, all faults.  Two breakpoints in one loop, and one that was disarmed while the
  other is reached, need two addresses; stale addresses need two runs at different bases.  `set rip` goes to
  each instruction and to an address where nothing is.  Runs are not counted: the state space is finite
  without a bound.
* `MCSession`: the five scripts of `HW4/scripts`, with and without a program, one that is missing and a
  wrong option; each of 20 command lines without a program; and every two of them after `start`, as a
  script, at a terminal, and at a terminal whose last line is incomplete.  Two commands are enough for one
  that changes the process and one that reads what is stale; the scripts are longer.  The program has no
  loop, so that `ScriptEnds` may be asked; one number given to `set rip` is no instruction; two registers of
  two values show one that is changed in the place of another.
* `MCShadow`: a static program with an int3 of its own and an instruction one byte behind a breakpoint.
  The theorems about `TypeOK`, `TextIntegrity`, `DisarmedIsReported`, `DetachedClean` and `BreakpointsStop`
  cover such programs; only what is violated needs a run.
* `MCLogger`: two processes (`MCProc`), two monitored calls each (`MaxCalls`), descriptors 0 to 5 (`MaxFd`):
  the launcher takes up to two of the three that are free, so that running out of descriptors happens; a
  buffer of three units (`BufSize`) overflows in the middle of the second line.
* `MCLibMini`: two signals, so that a handler of one may interrupt the handler of the other, and one mask may
  hold either; EINTR and an error beyond the table; three activations (`MaxDepth`): main, a handler in
  longjmp, and another on top of it; one word of drift (`MaxDrift`), enough for every jump after the first
  setjmp.
* `MCLsof`: three processes: one that maps a deleted file twice and its program in between, a kernel thread
  without exe and maps, and one that is denied; two descriptors, two files to open, `Limit` 1, the number of
  descriptors that hw1 can lose.  In reality it is about a thousand; what matters is the process that comes
  after the last one is lost.  Two descriptors show that one does not spoil the other.  Six command lines:
  none, filters combined, malformed expressions met early and late, an invalid type and an unknown option.

`CHECK_DEADLOCK` is on in every run.  Programs that end stutter explicitly (`Ended`, `Finished`).

### Fairness

* `Sdb`: weak fairness of what the kernel does: the debugger wakes when its waitpid can return, exec ends,
  a tracee that may run executes.  No command is ever forced and no fault has to happen.  `Returns` says
  that if every loop of the program has a breakpoint, a command comes back; without the condition the
  program may loop for ever, which cont rightly waits for.
* `Session`: the same, and main goes on by itself when it reads a script; at a terminal no line has to be
  typed.  `ScriptEnds` needs a program without a loop, as `MCSession` has it.
* `Lsof`: weak fairness of the scanner as a whole: reading /proc does not block.  Processes may open and
  close files for ever; `Finishes` holds because each directory is read once.
* `Logger` and `LibMini` state no liveness: a monitored program, or a program that calls pause, may stop.

## Proofs

Seven modules hold theorems: `SdbProofs`, `SdbRefinementProofs`, `SessionProofs`, `LibMiniProofs`,
`LoggerProofs`, `LoggerRefinementProofs` and `LsofProofs`.  They assume what the constants are:

* `ProgramAssumption` (a program) and `SessionAssumption` (some command lines); for the refinement of the
  debugger, `CleanProgram`: the program executes no int3 of its own, and neither does an instruction start
  one byte behind an address where a breakpoint may be set, nor does the user move rip there (either makes
  `checkbp` see a hit that is none, which is what `shadow_reports` shows);
* `LibMiniAssumption`: signals and errors;
* `LoggerAssumption`: descriptors up to at least 5, files that are not the log, and a buffer that holds a
  line of two units (a line with a path of about a thousand characters is longer than stdio's buffer for a
  terminal, and is outside the model).  For a terminal, `Terminal`: the launcher has no `-o` and stderr is a terminal;
  for the refinement, `LeftAlone`: the program closes only descriptors that it has opened;
* `LsofAssumption`: pids are numbers and there is one (hw1 itself), a process has finitely many descriptors,
  i-node numbers are not 0, a malformed expression is found in nothing; cwd, root and exe lead to files, or
  nowhere.

Nothing bounds the number of instructions, breakpoints, runs, load addresses, processes, calls, descriptors,
files, lines of maps, options or handlers.

| theorem | says |
|---|---|
| `TypeCorrect` | `TypeOK` always holds: rip is on an instruction, one byte behind one, or where the user has put it |
| `Inductive` | `IInv` always holds |
| `TextIsIntact` | saved bytes are the file's; text differs from it only by int3s at listed breakpoints |
| `OnlyReportedIsDisarmed` | only the breakpoint last reported is ever disarmed, and never while the program runs |
| `SurvivorIsClean` | a tracee that outlives the debugger has the file's text |
| `NoBreakpointMissed` | a running program traps at every listed breakpoint |
| `OnlyTrapsAreReported` | for clean programs, a report means an executed int3 |
| `Refinement` | for clean programs, the debugger implements `IdealDebugger` |
| `SessionTypeCorrect` | `SessionTypeOK` always holds |
| `LinesAreExecutedOnce` | each line is executed in its turn, once |
| `TheEndIsHarmless` | what the prompt executes after the end of a complete input is no command |
| `RegistersAreKept` | writing all registers back changes none that was not named |
| `SessionIsSdb` | a session is a behaviour of `Sdb` |
| `SessionKeepsText` | so no input corrupts the text |
| `LibraryTypeCorrect` | `TypeOK` of `LibMini` always holds |
| `HandlersAreNotReentered` | a handler is entered again only on top of a longjmp that abandons it |
| `MaskIsRestored` | longjmp restores the mask of the last setjmp that has begun |
| `ErrorsAreReported` | perror tells the error of the last call of main |
| `LoggerTypeCorrect` | `TypeOK` of `Logger` always holds |
| `ExitedProcessesAreLogged` | a process that has exited, and has not closed the log's descriptor, has every call since its last exec in the log |
| `LinesAreInOrder` | its lines are in the order of its calls |
| `FilesAreLeftAlone` | no line lands in a file of the program, unless the log's descriptor is closed |
| `LinesAreWhole` | on a terminal, lines of different processes are not torn |
| `TheIdealLogIsKept` | on a terminal that is left alone, the logger implements `IdealLog` |
| `LsofTypeCorrect` | `TypeOK` of `Lsof` always holds |
| `WhatIsPrintedWasTrue` | each column of a row was true of its descriptor during the calls for this row; denied are only processes that are, or that have gone |
| `OthersArePrintedExactly` | a descriptor that is left alone has its row, whatever the others do |
| `UntouchedIsPrintedExactly` | a process that is left alone is printed as at a single moment |

*The argument.*  None of the properties is inductive.  `IInv` adds: `Control`, which tells from the wait the
debugger is in what the tracee may be doing, and that while it is attached the base address is right and
EXITKILL is set; `Distinct`, no address is listed twice (otherwise the second saved byte would be 0xcc and
deleting it would corrupt the text: this is what the duplicate test of `insbreak` is for); `Untouched`,
nothing is patched before the program is RUNNING (this is why a survivor is clean).  With these,
`TextIntegrity` and `DisarmedIsReported` preserve each other: checkbp arms everything, restore disarms the
one it reports, cont first steps.  There is one lemma per group of actions, and lemmas on what `RemoveAt`
and `Append` do to a list of breakpoints, since the library's induction cannot be used.

The refinement needs `CInv`: a tracee that is off its instructions has just executed the int3 of a listed
breakpoint.  It gives the two facts that the mapping rests on: a hit is a trap, and no hit means that rip
is on an instruction.

For sessions, `Position` relates string, stream and place in main: the string holds the last line unless
getline has failed, after a failure at the end of a complete input it is empty, and nothing is read before
the prompt.  `SessionIsSdb` needs it too, for a number that is typed must be one that `Sdb` lets the user
give; with it every theorem about `Sdb` holds of every session.

For the library, `Shape` keeps the jmp_buf within the stack and says who may be using it; an
activation is in setjmp only while none below it is in setjmp or longjmp.  `MaskInv`: an activation that is in
setjmp or longjmp runs with the mask of the jmp_buf, or will when the handlers above it have ended.
`GuardInv`: the signal of an activation is blocked in all those above it up to the next longjmp, and
in the mask that a jump back to one of them restores; without the second half, a jump could land in a handler
whose own signal is open.  `ErrorInv`: unless a handler has called the library, errno is the error of main's
last call, or perror has a copy of it.  Depth, signals and drift are arbitrary.

For the logger, `Held` relates descriptors, streams and history: a running process has the log's descriptor
exactly if it has not closed it, a stream that is open writes there, and who is not born has done nothing.
`LinesInv` speaks of what the log will hold if a process flushes next (`Pending`), because any process may be
the next, and copies of a buffer are flushed by children: each such future log is `Sound` (about calls that
are over, each line behind the one before it in its image), and it is `Complete` for the process that has
not closed the descriptor.  The two properties are about the log alone and are not inductive: a fork copies a
buffer whose lines may come behind later ones.  On a terminal `TerminalInv` adds that nothing stays in a
buffer, so that the log has an even number of units; with `NeverCut` it gives the mapping to `IdealLog`: a
line of the ideal log is a pair of units, and a call is due while its process is between call and line.

For the lister, `Shape` and `Counted` say which variables are in use at each call and how many rows there can
be.  `Truth`: a descriptor is what it was found as or is known to have changed, and all rows collected or
printed were true (`WasTrue`); its part `AtHand` says which columns of the row that is being filled in are
there already (`SoFar`), and that nothing its descriptor is meanwhile goes unseen.  `Filtered`: the filter is
made from the options read so far, so that what `valid_param` lets through is what is asked for
(`ValidIsAsked`).  `Others` follows one descriptor that is left alone (`Settled`) from the entry of the
directory through the row that is being filled in and the list to the output: at each point it is in exactly
one place.  `Untroubled` says for a whole process that is still as it was (`Still`) which rows the list holds
(links, then the maps up to some line, then the descriptors whose entries have been read), once each.
`NewNodeIsNew` shows that comparing with the rows collected so far, which have skipped lines themselves, is
the same as comparing with all lines before.

What the proofs found out about the models: `TypeOK` of the logger bounds the buffer, which is false for a
buffer that is shorter than a line, so `LoggerAssumption` excludes it.  A file of the program must not have
the name of the log or of a closed descriptor, and the names of descriptors must differ from "mem", "DEL"
and the links; the assumptions say so now.

*Only model-checked:* `Returns`, `ScriptEnds` and `Finishes`, because liveness is out of the prover's reach.
The properties of the six runs that expect a violation are false of the models, and no theorem is about
them.

## Where code and documents disagree

1. `checkbp` (HW4/ins.cpp:100-120) takes arrival one byte behind an armed breakpoint for a hit:
   `shadow_reports`.
2. `start` ignores a failed exec (HW4/start.cpp:53): `start_exec`.
3. A fork duplicates the lines in the logger's buffer (HW2/logger.c:17): `logger_once`.
4. A read that fails crashes the monitored program (HW2/logger.c:250): `logger_harm`.
5. `longjmp` goes on one word below the stack pointer of setjmp (HW3/libmini64.asm:162): `libmini_jmp`.
6. A descriptor closed at the wrong moment hides its whole process (HW1/hw1.cpp:67): `lsof_running`.

Met while modelling, and part of the models, without a run of their own:

* `open` drops the mode that it prints (HW2/logger.c:225; `OpenModes`).
* `set` without 0x, as in `HW4/scripts/guess.txt`, writes what was on the stack (HW4/ins.cpp:581; `Scanned`,
  `RipScanned`).
* A last line without a newline is executed again and again at a terminal (`Repeats`).
* hw1 appends "(Permission denied)" to the NOFD row of a process that has ended (HW1/hw1.cpp:40), though
  HW1/README.md:104 keeps it for denials.  `RowsWereTrue` admits this one case, and no other.
* setjmp replaces the mask of a jmp_buf before its registers (HW3/libmini.c:371): a handler that comes between
  may jump to the old place with the new mask (`Setjmp`).
* hw1 takes lines of maps for duplicates by their i-node number, and does not look at the file name, which
  HW1/README.md:71 names as well.  In the model a file has one name and one number, so the difference does
  not show.

## What is not modelled

* `Sdb` and `Session`: the flags register; breakpoints in the middle of an instruction; execution that begins
  in the middle of one (rip set there faults, as if nothing were there); programs that write to their own
  text; negative ids given to delete, which read before the list; the loader that runs before the entry of a
  dynamic program; what commands print, and so the disassembler: the window of text that it is given is
  computed in unsigned arithmetic that wraps for an address below the start of .text (HW4/ins.cpp:199), which
  only what is printed depends on.
* `Logger`: the text of a line (paths, buffers, numbers); threads; programs that use the log's descriptor
  for writing, that replace it in one call (dup2), or that exec with an environment without `output_fd`.
  The failures that crash it are checked with reads only in `logger_harm`; a tmpfile without a descriptor
  (HW2/logger.c:307) and a stream that cannot be opened (HW2/logger.c:88) are steps of the model in every run.
* `LibMini`: flags of sigaction other than those `signal` sets (no SA_NODEFER, no SA_RESETHAND);
  registers other than rsp, and so a jump through a jmp_buf of which some registers are new and some are old;
  a setjmp by a handler while the activation below is in setjmp or longjmp itself; a second jmp_buf; handlers
  that unblock signals; the functions on sets (sigismember, sigaddset), on which no action depends; the result
  of sleep; which files the system calls work on.
* `Lsof`: users without a name, on which the program crashes; a pid that is used again during the scan; a
  chdir, chroot, exec or mmap of the process while it is looked at (its links and maps are constants);
  formatting.  `entries` are read in one batch, as the C library does for directories of ordinary size.

## Plan

Done: models, runs and proofs of all four programs.  What could follow:

1. the descriptors that hw1 loses (`leaked`) as a property of the whole scan: at most one for each process
   that closes a file at the wrong moment;
2. the refinement of the logger without `LeftAlone`: processes that have closed the log's descriptor are not
   monitored any longer, and the ideal log is that of the others;
3. a second thread in the monitored program.
