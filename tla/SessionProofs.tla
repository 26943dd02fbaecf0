--------------------------- MODULE SessionProofs ---------------------------
(* Safety of a session, whatever is read and whatever happens meanwhile,   *)
(* and what it inherits from the debugger it is built around.              *)
EXTENDS Session, SdbProofs

(***************************************************************************)
(* What relates the string, the stream and the place in main.  Position is *)
(* inductive, and so is EachLineOnce with it.                              *)
(***************************************************************************)
Position ==
    /\ session \in DOMAIN Inputs
    /\ turn \in {"main", "open", "read", "exec"}
    /\ pos \in 0..Len(input.lines)
    /\ line \in {Erased, pos}
    /\ eof \in BOOLEAN
    /\ times \in [DOMAIN input.lines -> 0..2]
    /\ turn \in {"main", "open"} => pos = 0
    /\ eof => pos = Len(input.lines)
    /\ ~eof => line = pos
    /\ eof /\ input.newline => line = Erased

LEMMA InputFacts ==
    ASSUME session \in DOMAIN Inputs
    PROVE  /\ input.lines \in Seq(Line)
           /\ Len(input.lines) \in Nat
           /\ DOMAIN input.lines = 1..Len(input.lines)
           /\ input.newline \in BOOLEAN
<1>. DEFINE Input == [program : {"none", "good", "bad"},
                      script : {"none", "opens", "missing", "usage"},
                      lines : Seq(Line), newline : BOOLEAN]
<1>1. Inputs \in Seq(Input)
  BY SessionAssumption
<1>2. Inputs[session] \in Input
  <2>. HIDE DEF Input
  <2>. QED BY <1>1, ElementFacts
<1>3. input.lines \in Seq(Line) /\ input.newline \in BOOLEAN
  BY <1>2 DEF input
<1>. QED BY <1>3, ElementFacts

\* A command that takes a number was typed, and its number is one that Sdb
\* lets the user give.
LEMMA CmdFacts ==
    ASSUME Position, Cmd.ins # "blank"
    PROVE  /\ line # Erased /\ line = pos /\ line \in DOMAIN input.lines
           /\ Cmd \in Line
           /\ Cmd.ins = "break" /\ Cmd.form # "word" => Cmd.num \in UserAddr
           /\ Cmd.ins = "delete" => Cmd.num >= 0
           /\ Cmd.ins = "set" /\ Cmd.name \in Reg => Cmd.num \in Word
<1>1. line # Erased
  BY DEF Cmd, Blank
<1>2. /\ Len(input.lines) \in Nat /\ DOMAIN input.lines = 1..Len(input.lines)
      /\ input.lines \in Seq(Line)
  BY InputFacts DEF Position
<1>3. line = pos /\ line \in DOMAIN input.lines
  <2>. DEFINE n == Len(input.lines)
  <2>1. line \in {Erased, pos} /\ pos \in 0..n
    BY DEF Position
  <2>2. n \in Nat /\ DOMAIN input.lines = 1..n
    BY <1>2
  <2>. HIDE DEF n
  <2>3. line = pos /\ line \in 1..n
    BY <1>1, <2>1, <2>2 DEF Erased
  <2>. QED BY <2>2, <2>3
<1>4. Cmd = input.lines[line]
  BY <1>1 DEF Cmd
<1>5. Cmd \in Line
  <2>. HIDE DEF Line
  <2>. QED BY <1>2, <1>3, <1>4, ElementFacts
<1>6. session \in DOMAIN Inputs /\ Cmd = Inputs[session].lines[line]
      /\ line \in DOMAIN Inputs[session].lines
  BY <1>3, <1>4 DEF Position, input
<1>. QED BY <1>1, <1>3, <1>5, <1>6, SessionAssumption

-----------------------------------------------------------------------------
(* Position *)

LEMMA InitPosition == SessionInit => Position
<1> SUFFICES ASSUME SessionInit PROVE Position
  OBVIOUS
<1>1. /\ session \in DOMAIN Inputs /\ turn = "main" /\ pos = 0 /\ line = 0 /\ eof = FALSE
      /\ times = [i \in DOMAIN input.lines |-> 0]
  BY DEF SessionInit, Erased
<1>2. Len(input.lines) \in Nat
  BY <1>1, InputFacts
<1>3. times \in [DOMAIN input.lines -> 0..2]
  BY <1>1
<1>4. pos \in 0..Len(input.lines)
  <2>. DEFINE n == Len(input.lines)
  <2>. HIDE DEF n
  <2>1. 0 \in 0..n
    BY <1>2 DEF n
  <2>. QED BY <1>1, <2>1 DEF n
<1>. QED BY <1>1, <1>3, <1>4 DEF Position, Erased

LEMMA NextPosition ==
    ASSUME Position, [SessionNext]_sessionVars
    PROVE  Position'
<1>0. /\ Len(input.lines) \in Nat /\ DOMAIN input.lines = 1..Len(input.lines)
      /\ input.newline \in BOOLEAN
  BY InputFacts DEF Position
<1>1. CASE Usage \/ ParseArgs
  BY <1>1 DEF Usage, ParseArgs, Starting, Position, input
<1>2. CASE OpenScript
  BY <1>2 DEF OpenScript, Starting, Position, input
<1>3. CASE NextLine
  BY <1>0, <1>3 DEF NextLine, Read, Position, Erased, input
<1>4. CASE EndOfScript
  BY <1>0, <1>4 DEF EndOfScript, Fails, Emptied, Position, Erased, input
<1>5. CASE EndOfTerminal
  BY <1>0, <1>5 DEF EndOfTerminal, Fails, Emptied, Position, Erased, input
<1>6. CASE Execins
  <2>1. times' \in [DOMAIN input.lines -> 0..2]
    BY <1>6 DEF Execins, Position
  <2>. QED BY <1>6, <2>1 DEF Execins, Position, input
<1>7. CASE UNCHANGED reading
  BY <1>7 DEF reading, Position, input
<1>8. WaitOver \/ ExecResult \/ Runs \/ Disturbed \/ UNCHANGED sessionVars
        => UNCHANGED reading
  BY DEF WaitOver, ExecResult, Runs, Disturbed, reading, sessionVars
<1>. QED BY <1>1, <1>2, <1>3, <1>4, <1>5, <1>6, <1>7, <1>8
         DEF SessionNext, MainStep

LEMMA SteadyPosition == SessionSpec => []Position
BY InitPosition, NextPosition, PTL DEF SessionSpec

-----------------------------------------------------------------------------
(* The registers *)

RegsType == regs \in [Reg -> Word] /\ saved \in [Reg -> Word]

LEMMA InitRegsType == SessionInit => RegsType
BY SessionAssumption DEF SessionInit, RegsType

LEMMA ScannedFacts ==
    ASSUME Position, Cmd.ins = "set", Cmd.name \in Reg
    PROVE  Scanned \subseteq Word
BY CmdFacts DEF Scanned

\* What a set leaves in the registers.
LEMMA SetFacts ==
    ASSUME Position, RegsType, Set
    PROVE  /\ RegsType'
           /\ \A r \in Reg \ {Cmd.name} : regs'[r] = regs[r]
           /\ regs' # regs => Cmd.name \in Reg /\ regs'[Cmd.name] \in Scanned
<1>1. CASE SetRegister
  <2>1. PICK v \in Scanned : saved' = [regs EXCEPT ![Cmd.name] = v]
    BY <1>1 DEF SetRegister, Fetched
  <2>2. v \in Word /\ Cmd.name \in Reg /\ regs' = saved'
    BY <1>1, ScannedFacts DEF SetRegister, Set
  <2>. QED BY <2>1, <2>2 DEF RegsType
<1>2. CASE SetRip
  BY <1>2 DEF SetRip, Fetched, RegsType
<1>3. CASE saved' \in {saved, Fetched} /\ UNCHANGED regs
  BY <1>3 DEF Fetched, RegsType
<1>. QED BY <1>1, <1>2, <1>3 DEF Set, KeepRegs

\* A command other than set leaves the registers alone.
LEMMA ExecinsRegs ==
    ASSUME Execins, Cmd.ins # "set"
    PROVE  regs' = regs /\ saved' \in {saved, regs}
BY DEF Execins, Break, Delete, Cont, Run, Si, Start, Load, ExitCommand, Get,
       GetRegs, Set, OtherCommand, KeepRegs, Fetched

\* restore writes what it has just read.
LEMMA WaitOverRegs ==
    ASSUME WaitOver
    PROVE  regs' = regs /\ saved' \in {saved, regs}
<1>1. ASSUME rip' # rip
      PROVE  tracee = "stopped" /\ pc \in {"cont_step", "cont_run", "si_step"}
  <2>1. ~StartWaited
    BY <1>1 DEF StartWaited, Attach, AttachFails, Quit
  <2>2. ~RunWaited
    BY <1>1 DEF RunWaited, Attach, AttachFails, Quit
  <2>3. CASE ContStepped
    BY <1>1, <2>3 DEF ContStepped, Quit
  <2>4. CASE ContStopped
    BY <1>1, <2>4 DEF ContStopped, Hold, Quit, process
  <2>5. CASE SiStepped
    BY <1>1, <2>5 DEF SiStepped, Hold, Quit
  <2>. QED BY <2>1, <2>2, <2>3, <2>4, <2>5 DEF WaitOver, Waited
<1>. QED BY <1>1 DEF WaitOver, Fetched

LEMMA RunsFacts ==
    ASSUME RegsType, ExecResult \/ Runs
    PROVE  RegsType' /\ tracee \in {"exec", "stepping", "running"}
<1>1. CASE ExecResult
  BY <1>1, SessionAssumption DEF ExecResult, ExecSucceeds, ExecFails, RegsType, reading
<1>2. CASE Runs /\ Execute
  <2>1. ASSUME NEW f \in [Reg -> Word],
               regs' = [r \in Reg |-> IF r \in Computes[At] THEN f[r] ELSE regs[r]]
        PROVE  regs' \in [Reg -> Word]
    BY <2>1 DEF RegsType
  <2>2. regs' \in [Reg -> Word] \/ UNCHANGED regs
    BY <1>2, <2>1 DEF Runs
  <2>. QED BY <1>2, <2>2 DEF Runs, Execute, RegsType
<1>3. CASE Runs /\ ~Execute
  BY <1>3 DEF Runs, Trap, Exit, Segfault, RegsType
<1>. QED BY <1>1, <1>2, <1>3

\* main, its reading and the faults do not touch them.
LEMMA OtherRegs ==
    ASSUME MainStep \/ Disturbed \/ UNCHANGED sessionVars
    PROVE  UNCHANGED <<regs, saved>>
BY DEF MainStep, Usage, ParseArgs, OpenScript, Starting, NextLine, EndOfScript,
       EndOfTerminal, Fails, Disturbed, sessionVars

LEMMA NextRegsType ==
    ASSUME Position, RegsType, [SessionNext]_sessionVars
    PROVE  RegsType'
<1>1. CASE Execins /\ Cmd.ins # "set"
  BY <1>1, ExecinsRegs DEF RegsType
<1>2. CASE Execins /\ Cmd.ins = "set"
  <2>1. Set
    BY <1>2 DEF Execins, Break, Delete, Cont, Run, Si, Start, Load, ExitCommand,
                Get, GetRegs, OtherCommand
  <2>. QED BY <2>1, SetFacts
<1>3. CASE WaitOver
  BY <1>3, WaitOverRegs DEF RegsType
<1>4. CASE ExecResult \/ Runs
  BY <1>4, RunsFacts
<1>5. CASE MainStep \/ Disturbed \/ UNCHANGED sessionVars
  BY <1>5, OtherRegs DEF RegsType
<1>. QED BY <1>1, <1>2, <1>3, <1>4, <1>5 DEF SessionNext

\* The registers are the program's and the user's, although every set and
\* every breakpoint writes all of them.
THEOREM RegistersAreKept == SessionSpec => RegistersKept
<1>1. Position /\ RegsType /\ [SessionNext]_sessionVars =>
        [regs' # regs =>
           \/ tracee \in {"exec", "stepping", "running"}
           \/ /\ turn = "exec" /\ Cmd.ins = "set"
              /\ \A r \in Reg \ {Cmd.name} : regs'[r] = regs[r]
              /\ Cmd.form = "hex" => regs'[Cmd.name] = Cmd.num]_sessionVars
  <2> SUFFICES ASSUME Position, RegsType, SessionNext, regs' # regs,
                      ~ (tracee \in {"exec", "stepping", "running"})
               PROVE  /\ turn = "exec" /\ Cmd.ins = "set"
                      /\ \A r \in Reg \ {Cmd.name} : regs'[r] = regs[r]
                      /\ Cmd.form = "hex" => regs'[Cmd.name] = Cmd.num
    BY DEF sessionVars
  <2>1. Execins /\ Cmd.ins = "set"
    BY ExecinsRegs, WaitOverRegs, RunsFacts, OtherRegs DEF SessionNext
  <2>2. Set
    BY <2>1 DEF Execins, Break, Delete, Cont, Run, Si, Start, Load, ExitCommand,
                Get, GetRegs, OtherCommand
  <2>. QED BY <2>1, <2>2, SetFacts DEF Execins, Scanned
<1>2. SessionInit => RegsType
  BY InitRegsType
<1>3. Position /\ RegsType /\ [SessionNext]_sessionVars => RegsType'
  BY NextRegsType
<1>. QED BY <1>1, <1>2, <1>3, SteadyPosition, PTL DEF SessionSpec, RegistersKept

-----------------------------------------------------------------------------
(* The lines *)

LEMMA InitLines == SessionInit => EachLineOnce
<1> SUFFICES ASSUME SessionInit PROVE EachLineOnce
  OBVIOUS
<1>1. Len(input.lines) \in Nat /\ DOMAIN input.lines = 1..Len(input.lines)
  BY InputFacts DEF SessionInit
<1>. QED BY <1>1 DEF SessionInit, EachLineOnce, Erased

LEMMA NextLines ==
    ASSUME Position, EachLineOnce, [SessionNext]_sessionVars
    PROVE  EachLineOnce'
<1>0. /\ Len(input.lines) \in Nat /\ DOMAIN input.lines = 1..Len(input.lines)
      /\ input.newline \in BOOLEAN
      /\ pos \in 0..Len(input.lines)
  BY InputFacts DEF Position
<1>1. CASE Usage \/ ParseArgs \/ OpenScript
  BY <1>0, <1>1 DEF Usage, ParseArgs, OpenScript, Starting, Position, EachLineOnce, input,
                    Repeats, Erased
<1>3. CASE NextLine
  BY <1>0, <1>3 DEF NextLine, Read, Position, EachLineOnce, Repeats, Erased, input
<1>4. CASE EndOfScript
  BY <1>0, <1>4 DEF EndOfScript, Fails, Emptied, Position, EachLineOnce, Repeats,
                    Erased, input
<1>5. CASE EndOfTerminal
  BY <1>0, <1>5 DEF EndOfTerminal, Fails, Loops, Emptied, Position, EachLineOnce,
                    Repeats, Erased, input
<1>6. CASE Execins
  BY <1>0, <1>6 DEF Execins, Position, EachLineOnce, Repeats, Erased, input
<1>7. CASE UNCHANGED reading
  BY <1>7 DEF reading, EachLineOnce, Repeats, input
<1>8. WaitOver \/ ExecResult \/ Runs \/ Disturbed \/ UNCHANGED sessionVars
        => UNCHANGED reading
  BY DEF WaitOver, ExecResult, Runs, Disturbed, reading, sessionVars
<1>. QED BY <1>1, <1>3, <1>4, <1>5, <1>6, <1>7, <1>8 DEF SessionNext, MainStep

\* Every line of every input is executed once, but the last one of a terminal
\* that ends without a newline.
THEOREM LinesAreExecutedOnce == SessionSpec => []EachLineOnce
BY InitLines, NextLines, SteadyPosition, PTL DEF SessionSpec

\* What the prompt loop executes after the end of the input is no command.
THEOREM TheEndIsHarmless == SessionSpec => EndOfInputHarmless
<1>1. Position /\ [SessionNext]_sessionVars =>
        [turn = "exec" /\ eof /\ turn' = "read" /\ input.newline
           => UNCHANGED <<vars, regs>>]_sessionVars
  <2> SUFFICES ASSUME Position, SessionNext,
                      turn = "exec", eof, turn' = "read", input.newline
               PROVE  UNCHANGED <<vars, regs>>
    BY DEF sessionVars
  <2>1. Cmd = Blank
    BY DEF Position, Cmd
  <2>2. Execins
    BY DEF SessionNext, MainStep, Usage, ParseArgs, OpenScript, NextLine, EndOfScript,
           EndOfTerminal, Fails, WaitOver, ExecResult, Runs, Disturbed, reading
  <2>3. OtherCommand
    BY <2>1, <2>2 DEF Blank, Execins, Break, Delete, Cont, Run, Si, Start, Load,
                      ExitCommand, Get, GetRegs, Set
  <2>. QED BY <2>3 DEF OtherCommand, Refused, KeepRegs
<1>. QED BY <1>1, SteadyPosition, PTL DEF SessionSpec, EndOfInputHarmless

-----------------------------------------------------------------------------
(* The debugger inside *)

\* Every command line is a command of Sdb, or changes nothing there.
LEMMA ExecinsIsCommand ==
    ASSUME Position, Execins
    PROVE  Command \/ UNCHANGED vars
<1>1. CASE Break
  BY <1>1, CmdFacts DEF Break, Command, Refused
<1>2. CASE Delete
  <2>1. ASSUME Cmd.form # "word", InsDelete(Stoi + 1) PROVE Command
    BY <2>1 DEF InsDelete, Command
  <2>. QED BY <1>2, <2>1 DEF Delete, Command, Refused
<1>3. CASE Cont
  <2>1. ASSUME InsCont(Cmd.n) PROVE InsCont(0) \/ InsCont(1)
    BY <2>1 DEF InsCont
  <2>. QED BY <1>3, <2>1 DEF Cont, Command, Refused
<1>4. CASE Run
  BY <1>4 DEF Run, Command, Refused
<1>5. CASE Set
  BY <1>5, CmdFacts DEF Set, SetRegister, SetRip, RipScanned, Command, Refused
<1>6. CASE Si \/ Start \/ Load \/ ExitCommand \/ Get \/ GetRegs \/ OtherCommand
  BY <1>6 DEF Si, Start, Load, ExitCommand, Get, GetRegs, OtherCommand,
              Command, Refused
<1>. QED BY <1>1, <1>2, <1>3, <1>4, <1>5, <1>6 DEF Execins

\* A session is a behaviour of the debugger, with lines in the place of a
\* user who may type anything.
THEOREM SessionIsSdb == SessionSpec => Spec
<1>1. SessionInit => Init
  BY DEF SessionInit
<1>2. Position /\ [SessionNext]_sessionVars => [Next]_vars
  <2> SUFFICES ASSUME Position, [SessionNext]_sessionVars
               PROVE  Next \/ UNCHANGED vars
    OBVIOUS
  <2>1. CASE MainStep
    BY <2>1 DEF MainStep, Usage, ParseArgs, OpenScript, NextLine, EndOfScript,
                EndOfTerminal, Fails, Next, Command
  <2>2. CASE Execins
    BY <2>2, ExecinsIsCommand DEF Next
  <2>3. CASE WaitOver \/ ExecResult \/ Runs \/ Disturbed
    BY <2>3 DEF WaitOver, ExecResult, Runs, Disturbed, Next, ExecOutcome, TraceeStep
  <2>4. CASE UNCHANGED sessionVars
    BY <2>4 DEF sessionVars
  <2>. QED BY <2>1, <2>2, <2>3, <2>4 DEF SessionNext
<1>. QED BY <1>1, <1>2, SteadyPosition, PTL DEF SessionSpec, Spec

\* So no script corrupts the program, and none leaves an int3 in a program
\* that it lets go.
COROLLARY SessionKeepsText == SessionSpec => [](TextIntegrity /\ DetachedClean)
BY SessionIsSdb, TextIsIntact, SurvivorIsClean, PTL

\* Whatever is read, the string holds the last line or nothing, and every
\* register holds a word.
THEOREM SessionTypeCorrect == SessionSpec => []SessionTypeOK
<1>1. SessionInit => RegsType
  BY InitRegsType
<1>2. Position /\ RegsType /\ [SessionNext]_sessionVars => RegsType'
  BY NextRegsType
<1>3. Position /\ RegsType => SessionTypeOK
  BY DEF Position, RegsType, SessionTypeOK
<1>. QED BY <1>1, <1>2, <1>3, SteadyPosition, PTL DEF SessionSpec
=============================================================================
