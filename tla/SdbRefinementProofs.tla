------------------------ MODULE SdbRefinementProofs ------------------------
(* The debugger implements IdealDebugger, for every clean program.         *)
EXTENDS SdbRefinement, SdbProofs

(***************************************************************************)
(* What a clean program adds to IInv.  rip is on an instruction, or where  *)
(* the user has moved it, except between the int3 of a listed breakpoint   *)
(* and the checkbp that notices it, and a process that start has not yet   *)
(* seen is at its entry.                                                   *)
(***************************************************************************)
Place == Instr \cup RipTargets

OffInstr ==
    Attached /\ At \notin Place =>
        /\ tracee = "stopped" /\ cause = "int3"
        /\ pc \in {"cont_step", "cont_run", "si_step"}
        /\ At - 1 \in Listed /\ mem[At - 1] = INT3

Fresh == pc \in {"start_wait", "run_wait"} /\ tracee = "stopped" => At = Entry

CInv == OffInstr /\ Fresh

-----------------------------------------------------------------------------
(* Hits are traps *)

LEMMA HitIsOff ==
    ASSUME IInv, Attached, NEW i, IsHit(i)
    PROVE  At \notin Place /\ At - 1 = bplist[i].addr
<1>1. /\ At - 1 = bplist[i].addr
      /\ bplist[i].addr \in UserAddr \cap Instr
  BY HitFacts, BplistFacts DEF IInv, TypeInv
<1>2. At \in Int /\ bplist[i].addr \in Nat
  BY <1>1, ProgramAssumption DEF IInv, TypeInv, TypeOK, At
<1>3. At = bplist[i].addr + 1
  BY <1>1, <1>2
<1>. QED BY <1>1, <1>3, CleanProgram DEF Place

LEMMA OffIsHit ==
    ASSUME IInv, CInv, Attached, At \notin Place
    PROVE  HasTrapped
<1>1. /\ pc \in Waits /\ At - 1 \in Listed /\ mem[At - 1] = INT3
  BY DEF CInv, OffInstr, Waits
<1>2. PICK i \in DOMAIN bplist : bplist[i].addr = At - 1
  BY <1>1 DEF Listed
<1>3. base_address = load_base /\ load_base \in Nat /\ rip \in Nat
  BY RearmedFacts DEF IInv, TypeInv, TypeOK
<1>4. At - 1 \in Instr /\ At - 1 = rip - 1 - load_base
  BY <1>1, <1>3, BplistFacts DEF IInv, TypeInv, At
<1>5. rip - 1 = base_address + bplist[i].addr
  BY <1>2, <1>3, <1>4
<1>6. PeekByte(rip - 1) = INT3
  BY <1>1, <1>3, <1>4 DEF PeekByte
<1>7. \A j \in 1..(i - 1) : bplist[j].addr # bplist[i].addr
  BY <1>2, BplistFacts DEF IInv, TypeInv, PatchInv, TextInv, Distinct
<1>8. IsHit(i)
  BY <1>2, <1>5, <1>6, <1>7 DEF IsHit
<1>. QED BY <1>1, <1>2, <1>8 DEF HasTrapped

\* After checkbp without a hit, rip is on an instruction.
LEMMA NoHitIsOn ==
    ASSUME IInv, CInv, Attached, NoHit
    PROVE  At \in Place
BY OffIsHit DEF HasTrapped, NoHit

-----------------------------------------------------------------------------
(* CInv is inductive, given IInv *)

LEMMA InitCInv == Init => CInv
BY DEF Init, CInv, OffInstr, Fresh, Attached

LEMMA GoneCInv ==
    ASSUME ~Attached', pc' \notin {"start_wait", "run_wait"} \/ tracee' # "stopped"
    PROVE  CInv'
BY DEF CInv, OffInstr, Fresh

LEMMA OnCInv ==
    ASSUME At' \in Place, pc' \notin {"start_wait", "run_wait"} \/ At' = Entry
    PROVE  CInv'
BY DEF CInv, OffInstr, Fresh

LEMMA QuitCInv ==
    ASSUME IInv, NEW k, Quit(k)
    PROVE  CInv'
<1>1. pc' = "quit" /\ ~Attached'
  BY DEF IInv, TypeInv, TypeOK, Quit, Attached, Live
<1>. QED BY <1>1, GoneCInv

LEMMA PromptIsOn ==
    ASSUME IInv, CInv, pc = "prompt", tracee = "stopped"
    PROVE  Attached /\ state = "RUNNING" /\ At \in Place
BY DEF IInv, TypeInv, Control, CInv, OffInstr, Attached

LEMMA CommandCInv ==
    ASSUME IInv, CInv, Command
    PROVE  CInv'
<1>1. CASE InsLoad
  BY <1>1, GoneCInv DEF InsLoad, Attached
<1>2. CASE InsStart \/ InsRun
  BY <1>2, GoneCInv DEF InsStart, InsRun, ForkTracee, Attached
<1>3. CASE InsSi \/ \E nargs \in {0, 1} : InsCont(nargs)
  <2>1. ASSUME NEW w \in {"cont_step", "si_step"}, pc = "prompt", Singlestep(w),
               UNCHANGED <<rip, load_base>>
        PROVE  CInv'
    BY <2>1, PromptIsOn, OnCInv DEF Singlestep, At
  <2>. QED BY <1>3, <2>1, QuitCInv DEF InsSi, InsCont
<1>4. CASE InsGet \/ InsExit \/ BadNumber
  BY <1>4, QuitCInv DEF InsGet, InsExit, BadNumber
<1>5. CASE \E a \in UserAddr : InsBreak(a)
  BY <1>5, PromptIsOn, OnCInv, QuitCInv DEF InsBreak, SetBreak, Pokeable, At
<1>6. CASE \E i \in DOMAIN bplist : InsDelete(i)
  BY <1>6, PromptIsOn, OnCInv, QuitCInv DEF InsDelete, Erase, Pokeable, At
<1>7. CASE \E a \in RipTargets : InsSet(a)
  <2>1. ASSUME NEW a \in RipTargets, pc = "prompt", rip' = load_base + a,
               UNCHANGED <<debugger, load_base>>
        PROVE  CInv'
    <3>1. At' = a
      BY <2>1, ProgramAssumption DEF At, IInv, TypeInv, TypeOK
    <3>. QED BY <2>1, <3>1, OnCInv DEF debugger, Place
  <2>. QED BY <1>7, <2>1, QuitCInv DEF InsSet
<1>. QED BY <1>1, <1>2, <1>3, <1>4, <1>5, <1>6, <1>7 DEF Command

LEMMA WaitedCInv ==
    ASSUME IInv, CInv, Waited
    PROVE  CInv'
<1>1. CASE StartWaited \/ RunWaited
  <2>1. CASE Attach /\ tracee = "stopped"
    <3>1. At' = Entry /\ At' \in Place
      BY <1>1, <2>1, ProgramAssumption
         DEF StartWaited, RunWaited, Attach, CInv, Fresh, At, Place
    <3>. QED BY <3>1, OnCInv
  <2>2. CASE UNCHANGED tracee /\ tracee # "stopped" /\ pc' = "prompt"
    <3>1. tracee \in {"exited", "killed"}
      BY <1>1, <2>2 DEF StartWaited, RunWaited, IInv, TypeInv, Control
    <3>. QED BY <2>2, <3>1, GoneCInv DEF Attached
  <2>. QED BY <1>1, <2>1, <2>2, QuitCInv
           DEF StartWaited, RunWaited, AttachFails, Singlestep
<1>2. ASSUME NEW i, ReportBreakpoint(i), Attached
      PROVE  CInv'
  <2>1. rip \in Int /\ load_base \in Int
    BY ProgramAssumption DEF IInv, TypeInv, TypeOK
  <2>2. rip' = rip - 1 /\ load_base' = load_base /\ pc' = "prompt"
    BY <1>2 DEF ReportBreakpoint, Rewound
  <2>3. At' = At - 1
    BY <2>1, <2>2 DEF At
  <2>4. At - 1 \in Instr
    BY <1>2, HitFacts DEF IInv, ReportBreakpoint
  <2>. QED BY <2>2, <2>3, <2>4, OnCInv DEF Place
<1>3. ASSUME NoHit, Attached, UNCHANGED <<rip, load_base>>,
             pc' \notin {"start_wait", "run_wait"}
      PROVE  CInv'
  BY <1>3, NoHitIsOn, OnCInv DEF At
<1>4. ASSUME pc \in {"cont_step", "cont_run", "si_step"}, tracee = "stopped"
      PROVE  Attached
  BY <1>4 DEF IInv, TypeInv, Control, Attached
<1>5. CASE ContStepped
  BY <1>2, <1>3, <1>4, <1>5, QuitCInv DEF ContStepped
<1>6. CASE ContStopped
  <2>1. CASE tracee = "exited" /\ UNCHANGED tracee /\ pc' = "prompt"
    BY <2>1, GoneCInv DEF Attached
  <2>. QED BY <1>2, <1>3, <1>4, <1>6, <2>1, QuitCInv DEF ContStopped, Hold, process
<1>7. CASE SiStepped
  BY <1>2, <1>3, <1>4, <1>7, QuitCInv DEF SiStepped, Hold
<1>. QED BY <1>1, <1>5, <1>6, <1>7 DEF Waited

LEMMA ProcessCInv ==
    ASSUME IInv, CInv, ExecOutcome \/ TraceeStep \/ Fault
    PROVE  CInv'
<1>1. ASSUME tracee \in {"stepping", "running"}
      PROVE  /\ Attached /\ pc \in {"cont_step", "cont_run", "si_step"}
             /\ At \in Place
  BY <1>1 DEF IInv, TypeInv, TypeOK, Control, Attached, Live, Waits, CInv, OffInstr
<1>2. CASE ExecSucceeds
  <2>1. At' = Entry /\ At' \in Place
    BY <1>2, ProgramAssumption DEF ExecSucceeds, At, Place
  <2>. QED BY <2>1, OnCInv
<1>3. CASE ExecFails
  BY <1>3, GoneCInv DEF ExecFails, Attached
<1>4. CASE Trap
  <2>1. At \in Listed
    BY <1>1, <1>4, CleanProgram
       DEF Trap, IInv, PatchInv, TextInv, TextIntegrity, Live
  <2>2. At' = At + 1 /\ At' - 1 = At
    BY <1>4, ProgramAssumption DEF Trap, At, IInv, TypeInv, TypeOK
  <2>3. /\ tracee' = "stopped" /\ cause' = "int3" /\ pc' = pc
        /\ mem' = mem /\ Listed' = Listed /\ mem[At] = INT3
    BY <1>4 DEF Trap, debugger, Listed
  <2>. QED BY <1>1, <1>4, <2>1, <2>2, <2>3 DEF Trap, CInv, OffInstr, Fresh
<1>5. CASE Execute
  <2>1. At' \in Place /\ pc' = pc
    <3>1. PICK next \in Flow[At] : rip' = load_base + next
      BY <1>5 DEF Execute
    <3>2. next \in Instr /\ next \in Nat
      BY <1>5, ProgramAssumption DEF Execute
    <3>3. load_base \in Nat /\ load_base' = load_base /\ pc' = pc
      BY <1>5, ProgramAssumption DEF Execute, IInv, TypeInv, TypeOK, debugger
    <3>. QED BY <3>1, <3>2, <3>3 DEF At, Place
  <2>. QED BY <1>1, <1>5, <2>1, OnCInv DEF Execute
<1>6. CASE Exit
  BY <1>6, GoneCInv DEF Exit, Attached
<1>7. CASE Segfault \/ Signal
  BY <1>1, <1>7, OnCInv DEF Segfault, Signal, At, debugger
<1>8. CASE Kill
  BY <1>8, GoneCInv DEF Kill, Attached
<1>9. CASE Interrupted
  BY <1>9, QuitCInv DEF Interrupted
<1>. QED BY <1>2, <1>3, <1>4, <1>5, <1>6, <1>7, <1>8, <1>9
         DEF ExecOutcome, TraceeStep, Fault

LEMMA NextCInv == IInv /\ CInv /\ [Next]_vars => CInv'
<1> SUFFICES ASSUME IInv, CInv, [Next]_vars PROVE CInv'
  OBVIOUS
<1>1. ASSUME UNCHANGED vars
      PROVE  CInv'
  BY <1>1 DEF vars, CInv, OffInstr, Fresh, Attached, Listed, At
<1>2. ASSUME Next
      PROVE  CInv'
  BY <1>1, <1>2, CommandCInv, WaitedCInv, ProcessCInv DEF Next, Ended
<1>. QED BY <1>1, <1>2

LEMMA CleanInv == Spec => [](IInv /\ CInv)
BY InitIInv, NextIInv, InitCInv, NextCInv, PTL DEF Spec

-----------------------------------------------------------------------------
(* The refinement mapping *)

\* Each state of the debugger that controls a process is one of five modes.
ModeTable ==
    /\ ~Attached =>
         idealMode = "absent" /\ idealAt = Entry /\ idealPassing = {}
    /\ Attached => idealPassing = {a \in Listed : mem[a] # INT3}
    /\ Attached /\ tracee = "stepping" => idealMode = "step" /\ idealAt = At
    /\ Attached /\ tracee = "running" => idealMode = "free" /\ idealAt = At
    /\ Attached /\ tracee = "stopped" /\ pc = "prompt" =>
         idealMode = "held" /\ idealAt = At
    /\ Attached /\ tracee = "stopped" /\ pc \in {"cont_step", "cont_run", "si_step"}
         => IF At \in Place
            THEN idealMode = "halted" /\ idealAt = At
            ELSE idealMode = "trapped" /\ idealAt = At - 1

LEMMA ModeFacts == IInv /\ CInv => ModeTable
<1> SUFFICES ASSUME IInv, CInv PROVE ModeTable
  OBVIOUS
<1>1. Attached /\ HasTrapped => At \notin Place
  BY HitIsOff DEF HasTrapped
<1>2. Attached /\ At \notin Place => HasTrapped
  BY OffIsHit
<1>3. pc = "prompt" => ~HasTrapped
  BY DEF HasTrapped, Waits
<1>4. ~Attached =>
        idealMode = "absent" /\ idealAt = Entry /\ idealPassing = {}
  BY DEF idealMode, idealAt, idealPassing
<1>5. Attached => idealPassing = {a \in Listed : mem[a] # INT3}
  BY DEF idealPassing
<1>6. Attached /\ tracee = "stepping" => idealMode = "step" /\ idealAt = At
  BY DEF idealMode, idealAt
<1>7. Attached /\ tracee = "running" => idealMode = "free" /\ idealAt = At
  BY DEF idealMode, idealAt
<1>8. Attached /\ tracee = "stopped" /\ pc = "prompt" =>
        idealMode = "held" /\ idealAt = At
  BY <1>3 DEF idealMode, idealAt
<1>9. Attached /\ tracee = "stopped" /\ pc \in {"cont_step", "cont_run", "si_step"}
         => IF At \in Place
            THEN idealMode = "halted" /\ idealAt = At
            ELSE idealMode = "trapped" /\ idealAt = At - 1
  BY <1>1, <1>2 DEF idealMode, idealAt
<1>. QED BY <1>4, <1>5, <1>6, <1>7, <1>8, <1>9 DEF ModeTable

LEMMA InitIdeal == Init => Ideal!Init
<1> SUFFICES ASSUME Init PROVE Ideal!Init
  OBVIOUS
<1>1. ~Attached /\ Listed = {} /\ report = NoReport
  BY DEF Init, Attached, Listed
<1>. QED BY <1>1 DEF Ideal!Init, idealMode, idealAt, idealPassing,
                     NoReport, Ideal!NoReport

\* Nothing happens to a debugger without a process, or it loses its process.
LEMMA UnattachedStep ==
    ASSUME ModeTable, ModeTable', ~Attached', UNCHANGED <<bplist, report>>
    PROVE  [Ideal!Next]_Ideal!vars
<1>1. UNCHANGED <<Listed, report>>
  BY DEF Listed
<1>2. CASE ~Attached
  BY <1>1, <1>2 DEF ModeTable, Ideal!vars
<1>3. CASE Attached
  <2>1. idealMode # "absent"
    BY <1>3 DEF ModeTable, idealMode, Attached
  <2>. QED BY <1>1, <2>1 DEF ModeTable, Ideal!Next, Ideal!Gone
<1>. QED BY <1>2, <1>3

LEMMA QuitStep ==
    ASSUME IInv, ModeTable, ModeTable', NEW k, Quit(k)
    PROVE  [Ideal!Next]_Ideal!vars
<1>1. ~Attached' /\ UNCHANGED <<bplist, report>>
  BY DEF IInv, TypeInv, TypeOK, Quit, Attached, Live
<1>. QED BY <1>1, UnattachedStep

LEMMA ReleaseStep ==
    ASSUME IInv, CInv, ModeTable, ModeTable',
           NEW w \in {"cont_step", "si_step"}, pc = "prompt", Singlestep(w),
           UNCHANGED <<state, bplist, base_address, report,
                       rip, mem, load_base, exitkill>>
    PROVE  [Ideal!Next]_Ideal!vars
<1>1. Attached /\ Attached' /\ tracee = "stopped" /\ tracee' = "stepping"
  BY PromptIsOn DEF Singlestep, Attached
<1>2. UNCHANGED <<Listed, report, mem>> /\ At' = At
  BY DEF Listed, At
<1>. QED BY <1>1, <1>2 DEF ModeTable, Ideal!Next, Ideal!Release

LEMMA AttachStep ==
    ASSUME IInv, CInv, ModeTable, ModeTable', Attach, tracee = "stopped",
           \/ pc = "start_wait" /\ pc' = "prompt" /\ UNCHANGED <<tracee, cause>>
           \/ pc = "run_wait" /\ Singlestep("cont_step")
    PROVE  [Ideal!Next]_Ideal!vars
<1>1. ~Attached /\ Attached'
  BY DEF IInv, TypeInv, Control, Attach, Attached, Singlestep
<1>2. Listed' = Listed /\ report' = report /\ At' = Entry
  BY AttachFacts DEF IInv, CInv, Fresh, Attach, At
<1>3. ASSUME NEW a \in Listed PROVE mem'[a] = INT3
  <2>1. a \in Instr /\ a \in Nat
    BY BplistFacts, ProgramAssumption DEF IInv, TypeInv
  <2>2. BaseRead = load_base /\ load_base \in Nat
    BY AttachFacts DEF IInv
  <2>3. load_base + a \in {BaseRead + b : b \in Listed}
    BY <2>1, <2>2
  <2>. QED BY <2>1, <2>3 DEF Attach, ArmedText
<1>4. idealMode' \in {"held", "step"} /\ idealAt' = Entry /\ idealPassing' = {}
  BY <1>1, <1>2, <1>3 DEF ModeTable, Singlestep
<1>. QED BY <1>1, <1>2, <1>4 DEF ModeTable, Ideal!Next, Ideal!Attach

LEMMA ReportStep ==
    ASSUME IInv, CInv, ModeTable, ModeTable', Attached, tracee = "stopped",
           pc \in {"cont_step", "cont_run", "si_step"}, NEW i, ReportBreakpoint(i)
    PROVE  [Ideal!Next]_Ideal!vars
<1>1. /\ i \in DOMAIN bplist /\ IsHit(i) /\ At \notin Place
      /\ bplist[i].addr = At - 1 /\ At - 1 \in Listed /\ At - 1 \in Instr
  BY HitIsOff, HitFacts DEF IInv, ReportBreakpoint
<1>2. Attached' /\ tracee' = "stopped" /\ pc' = "prompt" /\ Listed' = Listed
  BY DEF ReportBreakpoint, Attached, Listed
<1>3. At' = At - 1 /\ report' = At - 1
  BY <1>1, RearmedFacts DEF ReportBreakpoint, Rewound, At, IInv, TypeInv, TypeOK
<1>4. ASSUME NEW a \in Listed
      PROVE  mem'[a] # INT3 <=> a = At - 1
  <2>1. a \in Instr
    BY BplistFacts DEF IInv, TypeInv
  <2>2. bplist[i].ovalue = Opcode[At - 1] /\ Opcode[At - 1] # INT3
    BY <1>1, CleanProgram DEF IInv, PatchInv, TextInv, TextIntegrity
  <2>3. mem' = [Rearmed EXCEPT ![At - 1] = Opcode[At - 1]]
    BY <1>1, <2>2, HitFacts DEF IInv, ReportBreakpoint
  <2>. QED BY <1>1, <2>1, <2>2, <2>3, RearmedFacts DEF IInv
<1>5. idealPassing' = {At - 1}
  BY <1>1, <1>2, <1>4 DEF ModeTable
<1>. QED BY <1>1, <1>2, <1>3, <1>5 DEF ModeTable, Ideal!Next, Ideal!Report

LEMMA ResumeStep ==
    ASSUME IInv, CInv, ModeTable, ModeTable', Attached, tracee = "stopped",
           pc \in {"cont_step", "cont_run", "si_step"}, NoHit, mem' = Rearmed,
           \/ tracee' = "stopped" /\ pc' = "prompt"
           \/ tracee' = "running",
           UNCHANGED <<state, bplist, report, rip, load_base>>
    PROVE  [Ideal!Next]_Ideal!vars
<1>1. At \in Place /\ At' = At /\ Listed' = Listed /\ Attached'
  BY NoHitIsOn DEF At, Listed, Attached
<1>2. \A a \in Listed : mem'[a] = INT3
  BY BplistFacts, RearmedFacts DEF IInv, TypeInv
<1>3. idealMode' \in {"held", "free"} /\ idealPassing' = {} /\ idealAt' = At
  BY <1>1, <1>2 DEF ModeTable
<1>. QED BY <1>1, <1>3 DEF ModeTable, Ideal!Next, Ideal!Resume

LEMMA CommandStep ==
    ASSUME IInv, CInv, ModeTable, ModeTable', Command
    PROVE  [Ideal!Next]_Ideal!vars
<1>1. CASE InsLoad
  BY <1>1, UnattachedStep DEF InsLoad, Attached
<1>2. CASE InsStart \/ InsRun
  BY <1>2, UnattachedStep DEF InsStart, InsRun, ForkTracee, Attached
<1>3. CASE InsSi \/ \E nargs \in {0, 1} : InsCont(nargs)
  BY <1>3, ReleaseStep, QuitStep DEF InsSi, InsCont
<1>4. CASE InsGet \/ InsExit \/ BadNumber
  BY <1>4, QuitStep DEF InsGet, InsExit, BadNumber
<1>5. ASSUME NEW a \in UserAddr, pc = "prompt", state = "RUNNING",
             ~Dup(a), SetBreak(a)
      PROVE  [Ideal!Next]_Ideal!vars
  <2>1. /\ Attached /\ a \in Instr \ Listed /\ Listed' = Listed \cup {a}
        /\ \A x \in Instr : mem'[x] = IF x = a THEN INT3 ELSE mem[x]
        /\ UNCHANGED <<state, pc, report, tracee, rip, load_base>>
    BY <1>5, SetBreakFacts
  <2>2. tracee = "stopped" /\ Attached' /\ At' = At
    BY <1>5, <2>1 DEF SetBreak, Pokeable, Attached, At
  <2>3. Listed \subseteq Instr
    BY BplistFacts DEF IInv, TypeInv
  <2>4. idealPassing' = idealPassing
    BY <2>1, <2>2, <2>3 DEF ModeTable
  <2>. QED BY <1>5, <2>1, <2>2, <2>4 DEF ModeTable, Ideal!Next, Ideal!AddBreakpoint
<1>6. ASSUME NEW i \in DOMAIN bplist, pc = "prompt", state = "RUNNING", Erase(i)
      PROVE  [Ideal!Next]_Ideal!vars
  <2>. DEFINE a == bplist[i].addr
  <2>1. /\ Attached /\ Listed' = Listed \ {a} /\ a \in Listed
        /\ \A x \in Instr : mem'[x] = IF x = a THEN Opcode[x] ELSE mem[x]
        /\ UNCHANGED <<state, pc, report, tracee, rip, load_base>>
    BY <1>6, EraseFacts DEF Listed
  <2>2. tracee = "stopped" /\ Attached' /\ At' = At
    BY <1>6, <2>1 DEF Erase, Pokeable, Attached, At
  <2>3. Listed \subseteq Instr
    BY BplistFacts DEF IInv, TypeInv
  <2>. HIDE DEF a
  <2>4. idealPassing' = idealPassing \ {a}
    BY <2>1, <2>2, <2>3 DEF ModeTable
  <2>. QED BY <1>6, <2>1, <2>2, <2>4 DEF ModeTable, Ideal!Next, Ideal!DelBreakpoint
<1>7. ASSUME NEW a \in RipTargets, pc = "prompt", tracee = "stopped",
             rip' = load_base + a,
             UNCHANGED <<debugger, tracee, cause, mem, load_base, exitkill>>
      PROVE  [Ideal!Next]_Ideal!vars
  <2>1. Attached /\ Attached' /\ UNCHANGED <<Listed, report, mem, pc, tracee>>
    BY <1>7, PromptIsOn DEF debugger, Attached, Listed
  <2>2. At' = a
    BY <1>7, ProgramAssumption DEF At, IInv, TypeInv, TypeOK
  <2>. QED BY <1>7, <2>1, <2>2, ProgramAssumption DEF ModeTable, Ideal!Next, Ideal!SetPc
<1>. QED
  <2>1. CASE \E a \in UserAddr : InsBreak(a)
    BY <2>1, <1>5, QuitStep DEF InsBreak
  <2>2. CASE \E i \in DOMAIN bplist : InsDelete(i)
    BY <2>2, <1>6, QuitStep DEF InsDelete
  <2>3. CASE \E a \in RipTargets : InsSet(a)
    BY <2>3, <1>7, QuitStep DEF InsSet
  <2>. QED BY <1>1, <1>2, <1>3, <1>4, <2>1, <2>2, <2>3 DEF Command

LEMMA WaitedStep ==
    ASSUME IInv, CInv, ModeTable, ModeTable', Waited
    PROVE  [Ideal!Next]_Ideal!vars
<1>1. CASE StartWaited \/ RunWaited
  <2>1. CASE Attach /\ tracee = "stopped"
    BY <1>1, <2>1, AttachStep, QuitStep DEF StartWaited, RunWaited, AttachFails
  <2>2. CASE Attach /\ UNCHANGED tracee /\ tracee # "stopped"
    <3>1. tracee \in {"exited", "killed"} /\ Listed = {}
      BY <1>1, <2>2 DEF StartWaited, RunWaited, IInv, TypeInv, Control,
                        Attach, Pokeable
    <3>2. ~Attached /\ ~Attached' /\ Listed' = {} /\ report' = report
      BY <2>2, <3>1, AttachFacts DEF Attached, Attach, IInv
    <3>. QED BY <3>1, <3>2 DEF ModeTable, Ideal!vars
  <2>. QED BY <1>1, <2>1, <2>2, QuitStep
           DEF StartWaited, RunWaited, AttachFails, Singlestep
<1>2. ASSUME pc \in {"cont_step", "cont_run", "si_step"}, tracee = "stopped"
      PROVE  Attached
  BY <1>2 DEF IInv, TypeInv, Control, Attached
<1>3. ASSUME pc \in {"cont_step", "cont_run", "si_step"}, Hold
      PROVE  [Ideal!Next]_Ideal!vars
  BY <1>2, <1>3, ResumeStep DEF Hold
<1>4. CASE ContStepped
  BY <1>2, <1>4, ReportStep, ResumeStep, QuitStep DEF ContStepped
<1>5. CASE ContStopped
  <2>1. CASE tracee = "exited" /\ UNCHANGED <<tracee, bplist, report>>
    BY <2>1, UnattachedStep DEF Attached
  <2>. QED BY <1>2, <1>3, <1>5, <2>1, ReportStep, QuitStep DEF ContStopped, process
<1>6. CASE SiStepped
  BY <1>2, <1>3, <1>6, ReportStep, QuitStep DEF SiStepped
<1>. QED BY <1>1, <1>4, <1>5, <1>6 DEF Waited

LEMMA ProcessStep ==
    ASSUME IInv, CInv, CInv', ModeTable, ModeTable', ExecOutcome \/ TraceeStep \/ Fault
    PROVE  [Ideal!Next]_Ideal!vars
<1>1. ASSUME tracee \in {"stepping", "running"}
      PROVE  /\ Attached /\ pc \in {"cont_step", "cont_run", "si_step"}
             /\ At \in Place /\ Live
  BY <1>1 DEF IInv, TypeInv, TypeOK, Control, Attached, Live, Waits, CInv, OffInstr
<1>2. CASE ExecSucceeds
  <2>1. ~Attached' /\ UNCHANGED <<bplist, report>>
    BY <1>2 DEF ExecSucceeds, debugger, IInv, TypeInv, TypeOK, Control,
                Attached, Live, Waits
  <2>. QED BY <2>1, UnattachedStep
<1>3. CASE ExecFails
  BY <1>3, UnattachedStep DEF ExecFails, debugger, Attached
<1>4. CASE Trap
  <2>1. /\ Attached' /\ tracee' = "stopped" /\ pc' = pc /\ At' = At + 1
        /\ UNCHANGED <<Listed, mem, report>> /\ mem[At] = INT3 /\ At \in Int
    BY <1>1, <1>4, ProgramAssumption
       DEF Trap, debugger, Attached, Listed, At, IInv, TypeInv, TypeOK
  <2>2. At \in Listed
    BY <1>1, <1>4, CleanProgram
       DEF Trap, IInv, PatchInv, TextInv, TextIntegrity
  <2>3. At + 1 \notin Place /\ At + 1 - 1 = At
    BY <2>1, <2>2, BplistFacts, CleanProgram DEF IInv, TypeInv, Place
  <2>4. idealMode' = "trapped" /\ idealAt' = At
    <3>1. At' \notin Place /\ At' - 1 = At
      BY <2>1, <2>3
    <3>2. pc' \in {"cont_step", "cont_run", "si_step"} /\ tracee' = "stopped" /\ Attached'
      BY <1>1, <1>4, <2>1 DEF Trap
    <3>3. idealMode' = "trapped" /\ idealAt' = At' - 1
      BY <3>1, <3>2 DEF ModeTable
    <3>. QED BY <3>1, <3>3
  <2>5. /\ idealMode \in {"step", "free"} /\ idealAt = At
        /\ At \in Listed \ idealPassing /\ idealPassing' = idealPassing
    BY <1>1, <1>4, <2>1, <2>2 DEF ModeTable, Trap
  <2>. QED BY <2>1, <2>4, <2>5 DEF Ideal!Next, Ideal!Trap, Ideal!Stops
<1>5. CASE Execute
  <2>1. /\ Attached' /\ pc' = pc /\ UNCHANGED <<Listed, mem, report>>
        /\ At \in Instr /\ mem[At] # INT3
    BY <1>1, <1>5 DEF Execute, debugger, Attached, Listed
  <2>2. At' \in Flow[At] /\ At' \in Place
    <3>1. PICK next \in Flow[At] : rip' = load_base + next
      BY <1>5 DEF Execute
    <3>2. next \in Instr /\ next \in Nat
      BY <1>5, ProgramAssumption DEF Execute
    <3>3. load_base \in Nat /\ load_base' = load_base
      BY <1>5, ProgramAssumption DEF Execute, IInv, TypeInv, TypeOK
    <3>. QED BY <3>1, <3>2, <3>3 DEF At, Place
  <2>3. /\ idealAt = At /\ idealAt' = At'
        /\ idealMode \in {"step", "free"}
        /\ idealMode' = IF idealMode = "step" THEN "halted" ELSE "free"
    <3>1. CASE tracee = "stepping" /\ tracee' = "stopped"
      <4>1. idealMode = "step" /\ idealAt = At
        BY <1>1, <1>5, <3>1 DEF Execute, ModeTable
      <4>2. idealMode' = "halted" /\ idealAt' = At'
        BY <1>1, <1>5, <2>1, <2>2, <3>1 DEF Execute, ModeTable
      <4>. QED BY <4>1, <4>2
    <3>2. CASE tracee = "running" /\ tracee' = "running"
      <4>1. idealMode = "free" /\ idealAt = At
        BY <1>1, <1>5, <3>2 DEF Execute, ModeTable
      <4>2. idealMode' = "free" /\ idealAt' = At'
        BY <2>1, <3>2 DEF ModeTable
      <4>. QED BY <4>1, <4>2
    <3>. QED BY <1>5, <3>1, <3>2 DEF Execute
  <2>4. At \notin Listed \ idealPassing /\ idealPassing' = idealPassing
    <3>1. idealPassing = {a \in Listed : mem[a] # INT3}
      BY <1>1, <1>5 DEF Execute, ModeTable
    <3>2. idealPassing' = {a \in Listed : mem[a] # INT3}
      BY <2>1 DEF ModeTable
    <3>. QED BY <2>1, <3>1, <3>2
  <2>. QED BY <2>1, <2>2, <2>3, <2>4 DEF Ideal!Next, Ideal!Execute, Ideal!Stops
<1>6. CASE Exit
  BY <1>6, UnattachedStep DEF Exit, debugger, Attached
<1>7. CASE Segfault \/ Signal
  <2>1. /\ Attached' /\ tracee' = "stopped" /\ pc' = pc /\ At' = At
        /\ UNCHANGED <<Listed, mem, report>>
    BY <1>1, <1>7 DEF Segfault, Signal, debugger, Attached, Listed, At
  <2>. QED BY <1>1, <1>7, <2>1 DEF Segfault, Signal, ModeTable, Ideal!Next, Ideal!Interrupt
<1>8. CASE Kill
  BY <1>8, UnattachedStep DEF Kill, debugger, Attached
<1>9. CASE Interrupted
  BY <1>9, QuitStep DEF Interrupted
<1>. QED BY <1>2, <1>3, <1>4, <1>5, <1>6, <1>7, <1>8, <1>9
         DEF ExecOutcome, TraceeStep, Fault

LEMMA NextIdeal ==
    ASSUME IInv, CInv, CInv', ModeTable, ModeTable', [Next]_vars
    PROVE  [Ideal!Next]_Ideal!vars
<1>1. ASSUME UNCHANGED vars
      PROVE  UNCHANGED Ideal!vars
  <2>1. UNCHANGED <<Listed, report, Attached, At, HasTrapped>>
    BY <1>1 DEF vars, Listed, Attached, At, HasTrapped, IsHit, PeekByte
  <2>. QED BY <1>1, <2>1 DEF vars, Ideal!vars, idealMode, idealAt, idealPassing
<1>2. ASSUME Next
      PROVE  [Ideal!Next]_Ideal!vars
  BY <1>1, <1>2, CommandStep, WaitedStep, ProcessStep DEF Next, Ended
<1>. QED BY <1>1, <1>2

-----------------------------------------------------------------------------
(* The theorems *)

\* checkbp takes no stop for a breakpoint that is not one.
THEOREM OnlyTrapsAreReported == Spec => ReportsAreTraps
<1>1. IInv /\ CInv /\ [Next]_vars =>
        [tracee = "stopped" /\ pc \in {"cont_step", "cont_run", "si_step"}
            /\ rip' # rip => cause = "int3"]_vars
  <2> SUFFICES ASSUME IInv, CInv, Next, tracee = "stopped",
                      pc \in {"cont_step", "cont_run", "si_step"}, rip' # rip
               PROVE  cause = "int3"
    BY DEF vars
  <2>1. Attached
    BY DEF IInv, TypeInv, Control, Attached
  <2>2. ~Command
    BY DEF Command, InsLoad, InsStart, InsRun, ForkTracee, InsSi, InsGet,
           InsExit, BadNumber, InsCont, InsBreak, InsDelete, InsSet
  <2>3. ~(ExecOutcome \/ TraceeStep \/ Fault \/ Ended)
    BY DEF ExecOutcome, ExecSucceeds, ExecFails, TraceeStep, Trap, Execute, Exit, Segfault,
           Fault, Signal, Kill, Interrupted, Quit, Ended, vars
  <2>4. PICK i : ReportBreakpoint(i)
    BY <2>2, <2>3 DEF Next, Waited, StartWaited, RunWaited, ContStepped,
                      ContStopped, SiStepped, Hold, Quit, process
  <2>5. At \notin Place
    BY <2>1, <2>4, HitIsOff DEF ReportBreakpoint
  <2>. QED BY <2>1, <2>5 DEF CInv, OffInstr
<1>. QED BY <1>1, CleanInv, PTL DEF Spec, ReportsAreTraps

\* Breakpoints by patching are breakpoints in hardware, as far as the user
\* and the program can tell.
THEOREM Refinement == Spec => ImplementsIdeal
<1>1. Spec => [](IInv /\ CInv)
  BY CleanInv
<1>2. IInv /\ CInv => ModeTable
  BY ModeFacts
<1>3. IInv /\ CInv /\ CInv' /\ ModeTable /\ ModeTable' /\ [Next]_vars
        => [Ideal!Next]_Ideal!vars
  BY NextIdeal
<1>. QED BY <1>1, <1>2, <1>3, InitIdeal, PTL DEF Spec, ImplementsIdeal, Ideal!Spec

=============================================================================
