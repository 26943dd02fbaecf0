------------------------------ MODULE Session ------------------------------
(***************************************************************************)
(* A session with the debugger of HW4: main, the lines that it reads from  *)
(* a script or from a terminal, execins, and the general registers, around *)
(* the debugger and the process of Sdb.                                    *)
(*                                                                         *)
(* The string that getline fills is kept between two calls and is, here,   *)
(* the number of the line that it holds, or Erased.  What a line says is a *)
(* record; execins knows no other words than the names of the commands, in *)
(* full (the short names are the same commands).                           *)
(***************************************************************************)
EXTENDS Sdb

CONSTANTS
    Reg, Word,  \* the general registers, and what they hold
    Fresh,      \* the registers of a program that has just been exec'ed
    Computes,   \* the registers that an instruction writes
    Inputs      \* a sequence: the command lines, and what sdb then reads

\* A line: the command, how many arguments follow, the register or file and
\* the number among them, and whether that is 0x and digits, digits alone or
\* no number at all.
Line == [ins : STRING, n : Nat, name : STRING, num : Int,
         form : {"hex", "bare", "word"}]

ASSUME SessionAssumption ==
    /\ Fresh \in [Reg -> Word] /\ Word \subseteq Int
    /\ Computes \in [Instr -> SUBSET Reg]
    /\ Inputs \in Seq([program : {"none", "good", "bad"},
                       script : {"none", "opens", "missing", "usage"},
                       lines : Seq(Line),
                       newline : BOOLEAN])   \* the last line is complete
    /\ \A k \in DOMAIN Inputs : \A i \in DOMAIN Inputs[k].lines :
         LET l == Inputs[k].lines[i] IN
         /\ l.ins = "break" /\ l.form # "word" => l.num \in UserAddr
         /\ l.ins = "delete" => l.num >= 0
         /\ l.ins = "set" /\ l.name = "rip" /\ l.form = "hex" =>
              \A b \in LoadBases \cup {0} : l.num - b \in RipTargets
         /\ l.ins = "set" /\ l.name \in Reg => l.num \in Word

VARIABLES
    session,    \* which of Inputs this is
    turn,       \* where main is: "main", "open", "read" or "exec"
    pos,        \* lines consumed of the stream
    line,       \* string line of main or of execscript
    eof,        \* eofbit of the stream
    regs,       \* registers of the process
    saved,      \* program.regs
    times       \* history: how often each line was executed, 2 for more

reading == <<session, turn, pos, line, eof, times>>
sessionVars == <<vars, regs, saved, reading>>

input == Inputs[session]

Erased == 0
Blank == [ins |-> "blank", n |-> 0, name |-> "none", num |-> 0, form |-> "word"]
Cmd == IF line = Erased THEN Blank ELSE input.lines[line]

SessionInit ==
    /\ Init /\ state = "NONE"
    /\ session \in DOMAIN Inputs /\ turn = "main"
    /\ pos = 0 /\ line = Erased /\ eof = FALSE
    /\ regs = Fresh /\ saved = Fresh
    /\ times = [i \in DOMAIN input.lines |-> 0]

-----------------------------------------------------------------------------
(* main, execscript and getline *)

Starting ==
    /\ pc = "prompt"
    /\ UNCHANGED <<session, pos, line, eof, regs, saved, times>>

\* parse_args refuses an option that is not -s.
Usage ==
    /\ turn = "main" /\ Starting /\ input.script = "usage"
    /\ InsExit /\ UNCHANGED turn

\* parse_args, and load if a program is named; load goes on without it if
\* parse_elf does not accept it.
ParseArgs ==
    /\ turn = "main" /\ Starting /\ input.script # "usage"
    /\ turn' = IF input.script = "none" THEN "read" ELSE "open"
    /\ \/ input.program = "good" /\ InsLoad
       \/ input.program # "good" /\ UNCHANGED vars

OpenScript ==
    /\ turn = "open" /\ Starting
    /\ \/ input.script = "opens" /\ turn' = "read" /\ UNCHANGED vars
       \/ input.script = "missing" /\ InsExit /\ UNCHANGED turn

\* getline finds a line; it meets the end if nothing ends the last one.
ReadBefore == pos
Read == pos + 1

NextLine ==
    /\ turn = "read" /\ pc = "prompt" /\ pos < Len(input.lines)
    /\ turn' = "exec"
    /\ pos' = pos + 1 /\ line' = Read
    /\ eof' = (pos + 1 = Len(input.lines) /\ ~input.newline)
    /\ UNCHANGED <<vars, regs, saved, session, times>>

\* getline fails: it erases the string, unless it has met the end before.
KeptAlways == line
Emptied == IF eof THEN line ELSE Erased

Fails ==
    /\ turn = "read" /\ pc = "prompt" /\ pos = Len(input.lines)
    /\ line' = Emptied /\ eof' = TRUE
    /\ UNCHANGED <<regs, saved, session, pos, times>>

\* main reads on for ever, execscript while getline succeeds.
LoopsAlways == TRUE
Loops == input.script = "none"

\* After a script the debugger exits ...
EndOfScript == Fails /\ ~Loops /\ InsExit /\ UNCHANGED turn

\* ... while at a terminal it executes what the string holds.
EndOfTerminal == Fails /\ Loops /\ turn' = "exec" /\ UNCHANGED vars

-----------------------------------------------------------------------------
(* execins.  What a command needs is checked in its handler; a command that *)
(* is refused, or only prints, changes nothing.                             *)

Refused == UNCHANGED vars
KeepRegs == UNCHANGED <<regs, saved>>

\* PTRACE_GETREGS.
NotFetched == saved
Fetched == regs

Break ==
    /\ Cmd.ins = "break" /\ KeepRegs
    /\ \/ Cmd.n = 1 /\ Cmd.form = "word" /\ BadNumber
       \/ Cmd.n = 1 /\ Cmd.form # "word" /\ InsBreak(Cmd.num)
       \/ /\ \/ Cmd.n # 1 \/ state # "RUNNING"
             \/ Cmd.form # "word" /\ Dup(Cmd.num)
          /\ Refused

\* stoi reads decimal digits, of which 0x has one.
Stoi == IF Cmd.form = "hex" THEN 0 ELSE Cmd.num

Delete ==
    /\ Cmd.ins = "delete" /\ KeepRegs
    /\ \/ Cmd.n = 1 /\ Cmd.form = "word" /\ BadNumber
       \/ Cmd.n = 1 /\ Cmd.form # "word" /\ InsDelete(Stoi + 1)
       \/ /\ \/ Cmd.n # 1 \/ state # "RUNNING"
             \/ Cmd.form # "word" /\ Stoi >= Len(bplist)
          /\ Refused

Cont ==
    /\ Cmd.ins = "cont" /\ KeepRegs
    /\ \/ InsCont(Cmd.n)
       \/ Cmd.n = 0 /\ state # "RUNNING" /\ Refused

Run ==
    /\ Cmd.ins = "run" /\ KeepRegs
    /\ \/ Cmd.n = 0 /\ InsRun
       \/ Cmd.n = 0 /\ state = "RUNNING" /\ InsCont(0)
       \/ (Cmd.n # 0 \/ state = "NONE") /\ Refused

Si == Cmd.ins = "si" /\ KeepRegs /\ InsSi

Start ==
    /\ Cmd.ins = "start" /\ KeepRegs
    /\ InsStart \/ (state # "LOADED" /\ Refused)

Load ==
    /\ Cmd.ins = "load" /\ KeepRegs
    /\ \/ Cmd.n = 1 /\ Cmd.name = "good" /\ InsLoad
       \/ (Cmd.n # 1 \/ Cmd.name # "good" \/ state # "NONE") /\ Refused

ExitCommand ==
    /\ Cmd.ins = "exit" /\ KeepRegs
    /\ \/ Cmd.n = 0 /\ InsExit
       \/ Cmd.n # 0 /\ Refused

\* insget and insset give up if there is no process to read from.
Get ==
    /\ Cmd.ins = "get" /\ UNCHANGED regs
    /\ \/ Cmd.n = 1 /\ InsGet /\ UNCHANGED saved
       \/ Cmd.n = 1 /\ state = "RUNNING" /\ tracee = "stopped" /\ saved' = Fetched /\ Refused
       \/ (Cmd.n # 1 \/ state # "RUNNING") /\ UNCHANGED saved /\ Refused

GetRegs ==
    /\ Cmd.ins = "getregs" /\ UNCHANGED regs /\ Refused
    /\ saved' = IF Cmd.n = 0 /\ state = "RUNNING" /\ tracee = "stopped"
                THEN Fetched ELSE saved

\* The number must begin with 0x; otherwise addr keeps what was on the stack.
Scanned == IF Cmd.form = "hex" THEN {Cmd.num} ELSE Word

\* PTRACE_SETREGS writes all the registers of program.regs back.
SetRegister ==
    /\ Cmd.name \in Reg /\ Refused
    /\ \E v \in Scanned : saved' = [Fetched EXCEPT ![Cmd.name] = v]
    /\ regs' = saved'

\* The number given is absolute.
RipScanned == {a \in RipTargets : Cmd.form = "hex" => load_base + a = Cmd.num}

SetRip ==
    /\ Cmd.name = "rip"
    /\ \E a \in RipScanned : InsSet(a)
    /\ saved' = Fetched /\ regs' = saved'

Set ==
    /\ Cmd.ins = "set"
    /\ \/ /\ Cmd.n = 2 /\ state = "RUNNING" /\ tracee = "stopped"
          /\ \/ SetRegister \/ SetRip
             \/ /\ Cmd.name \notin Reg \cup {"rip"}
                /\ saved' = Fetched /\ UNCHANGED regs /\ Refused
       \/ Cmd.n = 2 /\ InsGet /\ KeepRegs
       \/ (Cmd.n # 2 \/ state # "RUNNING") /\ KeepRegs /\ Refused

\* help, list, dump, disasm, vmmap, and what is no command at all.
OtherCommand ==
    /\ Cmd.ins \notin {"break", "delete", "cont", "run", "si", "start", "load",
                       "exit", "get", "getregs", "set"}
    /\ KeepRegs /\ Refused

Execins ==
    /\ turn = "exec" /\ pc = "prompt"
    /\ turn' = "read"
    /\ times' = [i \in DOMAIN times |->
                    IF i # line THEN times[i] ELSE IF times[i] = 0 THEN 1 ELSE 2]
    /\ UNCHANGED <<session, pos, line, eof>>
    /\ \/ Break \/ Delete \/ Cont \/ Run \/ Si \/ Start \/ Load
       \/ ExitCommand \/ Get \/ GetRegs \/ Set \/ OtherCommand

-----------------------------------------------------------------------------
(* The waits and the process *)

\* checkbp reads the registers; restore, if it moves rip, reads and writes all
\* of them.
WaitOver ==
    /\ Waited /\ UNCHANGED reading
    /\ saved' = IF tracee = "stopped" /\ pc \in {"cont_step", "cont_run", "si_step"}
                THEN Fetched ELSE saved
    /\ regs' = IF rip' # rip THEN saved' ELSE regs

ExecResult ==
    /\ UNCHANGED <<saved, reading>>
    /\ \/ ExecSucceeds /\ regs' = Fresh
       \/ ExecFails /\ UNCHANGED regs

Runs ==
    /\ UNCHANGED <<saved, reading>>
    /\ \/ /\ Execute
          /\ \E f \in [Reg -> Word] :
                regs' = [r \in Reg |-> IF r \in Computes[At] THEN f[r] ELSE regs[r]]
       \/ (Trap \/ Exit \/ Segfault) /\ UNCHANGED regs

Disturbed ==
    /\ Fault \/ Ended
    /\ UNCHANGED <<regs, saved, reading>>

-----------------------------------------------------------------------------
MainStep == Usage \/ ParseArgs \/ OpenScript \/ NextLine \/ EndOfScript \/ EndOfTerminal

SessionNext == MainStep \/ Execins \/ WaitOver \/ ExecResult \/ Runs \/ Disturbed

\* The debugger goes on by itself, but for the lines of a terminal, which a
\* user has to type.
SessionSpec ==
    /\ SessionInit /\ [][SessionNext]_sessionVars
    /\ WF_sessionVars(input.script # "none" /\ MainStep)
    /\ WF_sessionVars(Execins) /\ WF_sessionVars(WaitOver)
    /\ WF_sessionVars(ExecResult) /\ WF_sessionVars(Runs)

-----------------------------------------------------------------------------
(* Properties *)

\* The type of the variables that Sdb does not have.
SessionTypeOK ==
    /\ session \in DOMAIN Inputs
    /\ turn \in {"main", "open", "read", "exec"}
    /\ pos \in 0..Len(input.lines) /\ line \in {Erased, pos}
    /\ eof \in BOOLEAN
    /\ regs \in [Reg -> Word] /\ saved \in [Reg -> Word]
    /\ times \in [DOMAIN input.lines -> 0..2]

\* A line that may be executed again and again: the last one, if a terminal
\* ends without a newline.  getline then fails before it touches the string.
Repeats(i) == input.script = "none" /\ ~input.newline /\ i = Len(input.lines)

\* Every line is executed in its turn and only once, at the end of the input
\* too, where getline fails and execins is called nevertheless (main.cpp:82).
EachLineOnce ==
    \A i \in DOMAIN input.lines :
        /\ i < pos => times[i] = 1
        /\ i > pos => times[i] = 0
        /\ i = pos =>
             LET done == turn = "read" \/ line = Erased IN
             \/ times[i] = IF done THEN 1 ELSE 0
             \/ times[i] > 0 /\ Repeats(i)

\* The prompt loop that spins after the end of a complete input does nothing
\* to the debugger, the program or its registers.
EndOfInputHarmless ==
    [][turn = "exec" /\ eof /\ turn' = "read" /\ input.newline
         => UNCHANGED <<vars, regs>>]_sessionVars

\* PTRACE_SETREGS always writes every register, from a copy that set, get and
\* every stop refresh.  The registers of the program change nevertheless only
\* by its own instructions, by an exec, or by a set, which changes the one
\* that is named, to the number given if it was given with 0x.
RegistersKept ==
    [][regs' # regs =>
         \/ tracee \in {"exec", "stepping", "running"}
         \/ /\ turn = "exec" /\ Cmd.ins = "set"
            /\ \A r \in Reg \ {Cmd.name} : regs'[r] = regs[r]
            /\ Cmd.form = "hex" => regs'[Cmd.name] = Cmd.num]_sessionVars

\* A script comes to its end, or to an error that ends the debugger, whatever
\* it says and whatever happens to the program, if that has no loop to stay in.
ScriptEnds == input.script # "none" ~> pc = "quit"
=============================================================================
