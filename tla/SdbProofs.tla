----------------------------- MODULE SdbProofs -----------------------------
(* Safety of the debugger, for every program, every set of breakpoints and *)
(* every combination of faults.                                            *)
EXTENDS Sdb, TLAPS

(***************************************************************************)
(* The inductive invariant.  Control relates the wait the debugger is in   *)
(* to what its process may be doing, Distinct makes the saved bytes        *)
(* independent of the order of bplist, and Untouched says that nothing is  *)
(* patched before EXITKILL is set.                                         *)
(***************************************************************************)
Control ==
    /\ pc = "prompt" =>
         \/ state = "RUNNING" /\ tracee \in {"stopped", "exited", "killed"}
         \/ state # "RUNNING" /\ tracee \in {"none", "exited"}
    /\ pc \in {"start_wait", "run_wait"} =>
         state = "LOADED" /\ tracee \in {"exec", "stopped", "exited", "killed"}
    /\ pc \in {"cont_step", "si_step"} =>
         state = "RUNNING" /\ tracee \in {"stopped", "stepping", "exited", "killed"}
    /\ pc = "cont_run" =>
         state = "RUNNING" /\ tracee \in {"stopped", "running", "exited", "killed"}
    /\ pc = "quit" => ~Live
    /\ Attached => base_address = load_base /\ exitkill

Distinct ==
    \A i, j \in DOMAIN bplist : bplist[i].addr = bplist[j].addr => i = j

Untouched == Live /\ state # "RUNNING" => mem = Opcode

TypeInv == TypeOK /\ Control

TextInv == TextIntegrity /\ Distinct /\ Untouched

PatchInv == TextInv /\ DisarmedIsReported /\ DetachedClean

IInv == TypeInv /\ PatchInv

-----------------------------------------------------------------------------
(* Sequences of breakpoints *)

\* What vector::erase leaves: one entry fewer, the others in order.
LEMMA RemoveAtFacts ==
    ASSUME NEW S, NEW s \in Seq(S), NEW i \in DOMAIN s
    PROVE  /\ RemoveAt(s, i) \in Seq(S)
           /\ DOMAIN RemoveAt(s, i) = 1..(Len(s) - 1)
           /\ \A j \in 1..(Len(s) - 1) :
                RemoveAt(s, i)[j] = IF j < i THEN s[j] ELSE s[j + 1]
<1>. DEFINE l == SubSeq(s, 1, i - 1)
            r == SubSeq(s, i + 1, Len(s))
<1>1. Len(s) \in Nat /\ i \in 1..Len(s)
  OBVIOUS
<1>2. /\ l \in Seq(S) /\ Len(l) = i - 1
      /\ \A j \in 1..(i - 1) : l[j] = s[j]
  BY <1>1
<1>3. /\ r \in Seq(S) /\ Len(r) = Len(s) - i
      /\ \A j \in 1..(Len(s) - i) : r[j] = s[i + j]
  BY <1>1
<1>4. RemoveAt(s, i) = l \o r
  BY DEF RemoveAt
<1>. HIDE DEF l, r
<1>5. l \o r \in Seq(S) /\ Len(l \o r) = Len(s) - 1
  BY <1>1, <1>2, <1>3
<1>6. ASSUME NEW j \in 1..(Len(s) - 1)
      PROVE  (l \o r)[j] = IF j < i THEN s[j] ELSE s[j + 1]
  <2>1. CASE j < i
    BY <2>1, <1>1, <1>2, <1>3
  <2>2. CASE ~(j < i)
    <3>1. (l \o r)[j] = r[j - (i - 1)]
      BY <2>2, <1>1, <1>2, <1>3
    <3>2. j - (i - 1) \in 1..(Len(s) - i) /\ i + (j - (i - 1)) = j + 1
      BY <2>2, <1>1
    <3>. QED BY <3>1, <3>2, <2>2, <1>3
  <2>. QED BY <2>1, <2>2
<1>. QED BY <1>4, <1>5, <1>6

LEMMA ElementFacts ==
    ASSUME NEW S, NEW s \in Seq(S)
    PROVE  /\ Len(s) \in Nat
           /\ DOMAIN s = 1..Len(s)
           /\ \A i \in DOMAIN s : s[i] \in S
OBVIOUS

LEMMA AppendFacts ==
    ASSUME NEW S, NEW s \in Seq(S), NEW e \in S
    PROVE  /\ Append(s, e) \in Seq(S)
           /\ DOMAIN Append(s, e) = 1..(Len(s) + 1)
           /\ \A i \in 1..Len(s) : Append(s, e)[i] = s[i]
           /\ Append(s, e)[Len(s) + 1] = e
OBVIOUS

LEMMA BplistFacts ==
    ASSUME TypeOK
    PROVE  /\ Len(bplist) \in Nat
           /\ DOMAIN bplist = 1..Len(bplist)
           /\ \A i \in DOMAIN bplist :
                /\ bplist[i].addr \in UserAddr \cap Instr
                /\ bplist[i].ovalue \in Byte
           /\ Listed \subseteq UserAddr \cap Instr
<1>1. bplist \in Seq([addr : UserAddr \cap Instr, ovalue : Byte])
  BY DEF TypeOK
<1>2. /\ Len(bplist) \in Nat
      /\ DOMAIN bplist = 1..Len(bplist)
      /\ \A i \in DOMAIN bplist :
           bplist[i] \in [addr : UserAddr \cap Instr, ovalue : Byte]
  BY <1>1, ElementFacts, Zenon
<1>3. \A i \in DOMAIN bplist :
           bplist[i].addr \in UserAddr \cap Instr /\ bplist[i].ovalue \in Byte
  BY <1>2
<1>. QED BY <1>2, <1>3 DEF Listed

-----------------------------------------------------------------------------
(* TypeInv is inductive *)

LEMMA InitTypeInv == Init => TypeInv
<1> SUFFICES ASSUME Init PROVE TypeInv
  OBVIOUS
<1>1. bplist \in Seq([addr : UserAddr \cap Instr, ovalue : Byte])
  BY DEF Init
<1>2. At = Entry /\ At \in Instr /\ rip \in Nat
  BY ProgramAssumption DEF Init, At
<1>. QED BY <1>1, <1>2, ProgramAssumption
         DEF Init, TypeInv, TypeOK, Control, Attached

\* The text stays typed, and the base is right, when checkbp has a process.
LEMMA RearmedFacts ==
    ASSUME TypeInv, Attached
    PROVE  /\ base_address = load_base
           /\ load_base \in Nat
           /\ Rearmed = [a \in Instr |-> IF a \in Listed THEN INT3 ELSE mem[a]]
           /\ Rearmed \in [Instr -> Byte]
<1>1. base_address = load_base /\ load_base \in Nat
  BY ProgramAssumption DEF TypeInv, TypeOK, Control
<1>2. Listed \subseteq Instr /\ Instr \subseteq Nat
  BY BplistFacts, ProgramAssumption DEF TypeInv
<1>3. ASSUME NEW a \in Instr
      PROVE  load_base + a \in {base_address + b : b \in Listed} <=> a \in Listed
  BY <1>1, <1>2
<1>4. Rearmed = [a \in Instr |-> IF a \in Listed THEN INT3 ELSE mem[a]]
  BY <1>3 DEF Rearmed
<1>. QED BY <1>1, <1>4 DEF TypeInv, TypeOK, INT3, Byte

\* What a hit means for rip, and what restore does to the text.
LEMMA HitFacts ==
    ASSUME TypeInv, Attached, NEW i, IsHit(i)
    PROVE  /\ i \in DOMAIN bplist
           /\ bplist[i].addr \in Listed /\ bplist[i].addr \in Instr
           /\ At - 1 = bplist[i].addr /\ rip - 1 \in Nat
           /\ Restored(i) = [Rearmed EXCEPT ![bplist[i].addr] = bplist[i].ovalue]
           /\ Restored(i) \in [Instr -> Byte]
<1>1. i \in DOMAIN bplist /\ rip - 1 = base_address + bplist[i].addr
  BY DEF IsHit
<1>2. /\ bplist[i].addr \in Instr /\ bplist[i].addr \in Nat
      /\ bplist[i].ovalue \in Byte
  BY <1>1, BplistFacts, ProgramAssumption DEF TypeInv
<1>3. base_address = load_base /\ load_base \in Nat /\ rip \in Nat
  BY RearmedFacts DEF TypeInv, TypeOK
<1>4. At - 1 = bplist[i].addr /\ rip - 1 \in Nat
  BY <1>1, <1>2, <1>3 DEF At
<1>5. base_address + bplist[i].addr - load_base = bplist[i].addr
  BY <1>2, <1>3
<1>6. Restored(i) = [Rearmed EXCEPT ![bplist[i].addr] = bplist[i].ovalue]
  BY <1>5 DEF Restored
<1>7. Restored(i) \in [Instr -> Byte]
  BY <1>2, <1>6, RearmedFacts
<1>. QED BY <1>1, <1>2, <1>4, <1>6, <1>7 DEF Listed

LEMMA QuitTypeInv ==
    ASSUME TypeInv, NEW k \in BOOLEAN, Quit(k)
    PROVE  TypeInv'
<1>1. TypeOK'
  BY DEF TypeInv, TypeOK, Quit, At, Live
<1>2. pc' = "quit" /\ tracee' \notin {"exec", "stopped", "stepping", "running"}
  BY DEF TypeInv, TypeOK, Quit, Live
<1>3. Control'
  BY <1>2 DEF Control, Waits, Attached, Live
<1>. QED BY <1>1, <1>3 DEF TypeInv

LEMMA ReportTypeInv ==
    ASSUME TypeInv, Attached, tracee = "stopped", NEW i, ReportBreakpoint(i)
    PROVE  TypeInv'
<1>1. /\ mem' \in [Instr -> Byte] /\ rip' \in Nat
      /\ report' \in Instr /\ At' \in Instr
  <2>1. IsHit(i) /\ mem' = Restored(i) /\ rip' = rip - 1
        /\ report' = bplist[i].addr /\ load_base' = load_base
    BY DEF ReportBreakpoint, Rewound
  <2>2. At' = At - 1
    BY <2>1, RearmedFacts DEF At, TypeInv, TypeOK
  <2>. QED BY <2>1, <2>2, HitFacts
<1>2. TypeOK'
  BY <1>1 DEF TypeInv, TypeOK, ReportBreakpoint
<1>3. Control'
  BY DEF TypeInv, Control, ReportBreakpoint, Attached, Live
<1>. QED BY <1>2, <1>3 DEF TypeInv

LEMMA HoldTypeInv ==
    ASSUME TypeInv, Attached, Hold
    PROVE  TypeInv'
<1>1. TypeOK'
  BY RearmedFacts DEF TypeInv, TypeOK, Hold, At
<1>2. Control'
  BY DEF TypeInv, Control, Hold, Attached, Live
<1>. QED BY <1>1, <1>2 DEF TypeInv

\* start gets the base right whenever it has a process.
LEMMA AttachFacts ==
    ASSUME TypeInv, Attach
    PROVE  /\ tracee = "stopped" => BaseRead = load_base
           /\ load_base \in Nat
           /\ base_address' = BaseRead /\ BaseRead \in LoadBases \cup {0, NoBase}
           /\ bplist' \in Seq([addr : UserAddr \cap Instr, ovalue : Byte])
           /\ DOMAIN bplist' = DOMAIN bplist
           /\ \A i \in DOMAIN bplist : bplist'[i].addr = bplist[i].addr
           /\ Listed' = Listed
           /\ mem' \in [Instr -> Byte]
<1>1. /\ tracee = "stopped" => BaseRead = load_base
      /\ load_base \in Nat
      /\ base_address' = BaseRead /\ BaseRead \in LoadBases \cup {0, NoBase}
  <2>1. load_base \in LoadBases \cup {0}
    BY DEF TypeInv, TypeOK
  <2>2. LoadBases \subseteq Nat /\ (~Dynamic => LoadBases = {0})
    BY ProgramAssumption
  <2>3. base_address' = BaseRead
    BY DEF Attach
  <2>. QED BY <2>1, <2>2, <2>3, ProgramAssumption DEF BaseRead
<1>2. /\ bplist' = ArmedList(BaseRead)
      /\ DOMAIN bplist' = DOMAIN bplist /\ DOMAIN bplist = 1..Len(bplist)
      /\ Len(bplist) \in Nat
  BY BplistFacts DEF Attach, ArmedList, TypeInv
<1>3. \A x : PeekByte(x) \in Byte
  BY DEF PeekByte, TypeInv, TypeOK, Byte
<1>4. ASSUME NEW i \in DOMAIN bplist
      PROVE  /\ bplist'[i] \in [addr : UserAddr \cap Instr, ovalue : Byte]
             /\ bplist'[i].addr = bplist[i].addr
  BY <1>2, <1>3, BplistFacts DEF ArmedList, TypeInv, Byte, INT3
<1>5. bplist' \in Seq([addr : UserAddr \cap Instr, ovalue : Byte])
  <2>. DEFINE S == [addr : UserAddr \cap Instr, ovalue : Byte]
  <2>1. bplist' \in [1..Len(bplist) -> S]
    BY <1>2, <1>4 DEF ArmedList
  <2>. HIDE DEF S
  <2>2. bplist' \in Seq(S)
    BY <2>1, <1>2
  <2>. QED BY <2>2 DEF S
<1>6. Listed' = Listed
  BY <1>2, <1>4 DEF Listed
<1>7. mem' \in [Instr -> Byte]
  BY DEF Attach, ArmedText, TypeInv, TypeOK, INT3, Byte
<1>. QED BY <1>1, <1>2, <1>4, <1>5, <1>6, <1>7

LEMMA CommandTypeInv ==
    ASSUME TypeInv, Command
    PROVE  TypeInv'
<1>0. TypeOK /\ Control /\ exitkill \in BOOLEAN
  BY DEF TypeInv, TypeOK
<1>1. CASE InsLoad
  <2>1. TypeOK'
    BY <1>0, <1>1 DEF TypeOK, InsLoad, process, At
  <2>2. Control'
    BY <1>0, <1>1 DEF Control, InsLoad, process, Attached, Live
  <2>. QED BY <2>1, <2>2 DEF TypeInv
<1>2. ASSUME NEW w \in {"start_wait", "run_wait"}, ForkTracee(w)
      PROVE  TypeInv'
  <2>1. TypeOK'
    BY <1>0, <1>2, ProgramAssumption DEF TypeOK, ForkTracee, At, Waits
  <2>2. Control'
    BY <1>0, <1>2 DEF Control, ForkTracee, Attached, Live
  <2>. QED BY <2>1, <2>2 DEF TypeInv
<1>3. ASSUME NEW w \in {"cont_step", "si_step"}, pc = "prompt", Singlestep(w),
             UNCHANGED <<state, bplist, base_address, report,
                         rip, mem, load_base, exitkill>>
      PROVE  TypeInv'
  <2>1. TypeOK'
    BY <1>0, <1>3 DEF TypeOK, Singlestep, At, Waits
  <2>2. Control'
    BY <1>0, <1>3 DEF Control, Singlestep, Attached, Live
  <2>. QED BY <2>1, <2>2 DEF TypeInv
<1>4. CASE Quit(exitkill)
  BY <1>0, <1>4, QuitTypeInv
<1>5. ASSUME NEW a \in UserAddr, pc = "prompt", state = "RUNNING", SetBreak(a)
      PROVE  TypeInv'
  <2>1. Attached /\ base_address = load_base /\ load_base \in Nat
    BY <1>0, <1>5, RearmedFacts DEF SetBreak, Pokeable, Attached
  <2>2. base_address + a - load_base = a /\ a \in Instr
    BY <2>1, <1>5, ProgramAssumption DEF SetBreak, Pokeable
  <2>3. PeekByte(base_address + a) \in Byte
    BY <1>0 DEF PeekByte, TypeOK, Byte
  <2>4. /\ bplist' = Append(bplist, [addr |-> a, ovalue |-> PeekByte(base_address + a)])
        /\ mem' = [mem EXCEPT ![base_address + a - load_base] = INT3]
        /\ UNCHANGED <<state, base_address, pc, report,
                       tracee, cause, rip, load_base, exitkill>>
    BY <1>5 DEF SetBreak
  <2>5. bplist' \in Seq([addr : UserAddr \cap Instr, ovalue : Byte])
    <3>1. bplist \in Seq([addr : UserAddr \cap Instr, ovalue : Byte])
      BY <1>0 DEF TypeOK
    <3>2. [addr |-> a, ovalue |-> PeekByte(base_address + a)]
            \in [addr : UserAddr \cap Instr, ovalue : Byte]
      BY <2>2, <2>3
    <3>. QED BY <3>1, <3>2, <2>4, AppendFacts
  <2>6. TypeOK'
    <3>0. mem' = [mem EXCEPT ![a] = INT3]
      BY <2>2, <2>4
    <3>1. mem' \in [Instr -> Byte]
      <4>1. mem \in [Instr -> Byte] /\ INT3 \in Byte
        BY <1>0 DEF TypeOK, INT3, Byte
      <4>. QED BY <3>0, <4>1
    <3>. QED BY <1>0, <2>4, <2>5, <3>1 DEF TypeOK, At
  <2>7. Control'
    BY <1>0, <2>4 DEF Control, Attached, Live
  <2>. QED BY <2>6, <2>7 DEF TypeInv
<1>6. ASSUME NEW i \in DOMAIN bplist, Erase(i)
      PROVE  TypeInv'
  <2>1. /\ bplist' = RemoveAt(bplist, i)
        /\ mem' = DeletedText(i)
        /\ UNCHANGED <<state, base_address, pc, report,
                       tracee, cause, rip, load_base, exitkill>>
    BY <1>6 DEF Erase
  <2>2. bplist' \in Seq([addr : UserAddr \cap Instr, ovalue : Byte])
    BY <1>0, <2>1, RemoveAtFacts, Zenon DEF TypeOK
  <2>3. mem' \in [Instr -> Byte]
    BY <1>0, <2>1, BplistFacts DEF DeletedText, TypeOK
  <2>4. TypeOK'
    BY <1>0, <2>1, <2>2, <2>3 DEF TypeOK, At
  <2>5. Control'
    BY <1>0, <2>1 DEF Control, Attached, Live
  <2>. QED BY <2>4, <2>5 DEF TypeInv
<1>7. ASSUME NEW a \in RipTargets, load_base + a >= 0, tracee = "stopped", rip' = load_base + a,
             UNCHANGED <<debugger, tracee, cause, mem, load_base, exitkill>>
      PROVE  TypeInv'
  <2>1. rip' \in Nat /\ At' \in RipTargets
    BY <1>0, <1>7, ProgramAssumption DEF TypeOK, At, debugger
  <2>2. TypeOK'
    BY <1>0, <1>7, <2>1 DEF TypeOK, debugger
  <2>3. Control'
    BY <1>0, <1>7 DEF Control, Attached, Live, debugger
  <2>. QED BY <2>2, <2>3 DEF TypeInv
<1>. QED
  <2>1. CASE InsStart \/ InsRun
    BY <2>1, <1>2 DEF InsStart, InsRun
  <2>2. CASE InsSi \/ \E nargs \in {0, 1} : InsCont(nargs)
    BY <2>2, <1>3, <1>4 DEF InsSi, InsCont
  <2>3. CASE InsGet \/ InsExit \/ BadNumber
    BY <2>3, <1>4 DEF InsGet, InsExit, BadNumber
  <2>4. CASE \E a \in UserAddr : InsBreak(a)
    BY <2>4, <1>4, <1>5 DEF InsBreak
  <2>5. CASE \E i \in DOMAIN bplist : InsDelete(i)
    BY <2>5, <1>4, <1>6 DEF InsDelete
  <2>6. CASE \E a \in RipTargets : InsSet(a)
    BY <2>6, <1>4, <1>7 DEF InsSet
  <2>. QED BY <1>1, <2>1, <2>2, <2>3, <2>4, <2>5, <2>6 DEF Command

LEMMA AttachTypeInv ==
    ASSUME TypeInv, Attach,
           \/ pc = "start_wait" /\ pc' = "prompt" /\ UNCHANGED <<tracee, cause>>
           \/ pc = "run_wait" /\ Singlestep("cont_step"),
           tracee # "exec"
    PROVE  TypeInv'
<1>1. /\ state' = "RUNNING" /\ exitkill' = (tracee = "stopped")
      /\ UNCHANGED <<report, rip, load_base>>
  BY DEF Attach, OptionsSet
<1>2. TypeOK'
  BY <1>1, AttachFacts DEF TypeInv, TypeOK, At, Singlestep, Waits
<1>3. Control'
  BY <1>1, AttachFacts DEF TypeInv, Control, Attached, Live, Singlestep
<1>. QED BY <1>2, <1>3 DEF TypeInv

LEMMA WaitedTypeInv ==
    ASSUME TypeInv, Waited
    PROVE  TypeInv'
<1>0. /\ TypeOK /\ Control /\ exitkill \in BOOLEAN
      /\ OptionsSet \in BOOLEAN /\ FALSE \in BOOLEAN
  BY DEF TypeInv, TypeOK, OptionsSet
<1>1. CASE StartWaited
  BY <1>0, <1>1, AttachTypeInv, QuitTypeInv DEF StartWaited, AttachFails
<1>2. CASE RunWaited
  BY <1>0, <1>2, AttachTypeInv, QuitTypeInv DEF RunWaited, AttachFails
<1>3. ASSUME pc \in {"cont_step", "cont_run", "si_step"}, tracee = "stopped"
      PROVE  Attached
  BY <1>0, <1>3 DEF Control, Attached
<1>4. CASE ContStepped
  <2>1. CASE tracee = "stopped" /\ \E i \in DOMAIN bplist : ReportBreakpoint(i)
    BY <1>3, <1>4, <2>1, ReportTypeInv DEF ContStepped
  <2>2. CASE /\ tracee = "stopped" /\ NoHit
             /\ mem' = Rearmed
             /\ tracee' = "running" /\ cause' = "none"
             /\ pc' = "cont_run"
             /\ UNCHANGED <<state, bplist, base_address, report,
                            rip, load_base, exitkill>>
    <3>1. mem' \in [Instr -> Byte]
      BY <1>3, <1>4, <2>2, RearmedFacts DEF ContStepped
    <3>2. TypeOK'
      BY <1>0, <2>2, <3>1 DEF TypeOK, At, Waits
    <3>3. Control'
      BY <1>0, <1>4, <2>2 DEF Control, Attached, Live, ContStepped
    <3>. QED BY <3>2, <3>3 DEF TypeInv
  <2>3. CASE Quit(exitkill)
    BY <1>0, <2>3, QuitTypeInv
  <2>. QED BY <1>4, <2>1, <2>2, <2>3 DEF ContStepped
<1>5. CASE ContStopped
  <2>1. CASE tracee = "stopped" /\ \E i \in DOMAIN bplist : ReportBreakpoint(i)
    BY <1>3, <1>5, <2>1, ReportTypeInv DEF ContStopped
  <2>2. CASE Hold
    BY <1>3, <1>5, <2>2, HoldTypeInv DEF ContStopped, Hold
  <2>3. CASE /\ tracee = "exited"
             /\ state' = "LOADED" /\ pc' = "prompt"
             /\ UNCHANGED <<bplist, base_address, report, process>>
    <3>1. TypeOK'
      BY <1>0, <2>3 DEF TypeOK, At, process
    <3>2. Control'
      BY <1>0, <2>3 DEF Control, Attached, Live, process
    <3>. QED BY <3>1, <3>2 DEF TypeInv
  <2>4. CASE Quit(exitkill)
    BY <1>0, <2>4, QuitTypeInv
  <2>. QED BY <1>5, <2>1, <2>2, <2>3, <2>4 DEF ContStopped
<1>6. CASE SiStepped
  <2>1. CASE tracee = "stopped" /\ \E i \in DOMAIN bplist : ReportBreakpoint(i)
    BY <1>3, <1>6, <2>1, ReportTypeInv DEF SiStepped
  <2>2. CASE Hold
    BY <1>3, <1>6, <2>2, HoldTypeInv DEF SiStepped, Hold
  <2>3. CASE Quit(exitkill)
    BY <1>0, <2>3, QuitTypeInv
  <2>. QED BY <1>6, <2>1, <2>2, <2>3 DEF SiStepped
<1>. QED BY <1>1, <1>2, <1>4, <1>5, <1>6 DEF Waited

LEMMA ProcessTypeInv ==
    ASSUME TypeInv, ExecOutcome \/ TraceeStep \/ Fault
    PROVE  TypeInv'
<1>0. TypeOK /\ Control /\ exitkill \in BOOLEAN
  BY DEF TypeInv, TypeOK
<1>1. CASE ExecSucceeds
  <2>1. rip' \in Nat /\ At' \in Instr /\ load_base' \in LoadBases
    BY <1>1, ProgramAssumption DEF ExecSucceeds, At
  <2>2. TypeOK'
    BY <1>0, <1>1, <2>1 DEF TypeOK, ExecSucceeds, debugger
  <2>3. Control'
    BY <1>0, <1>1 DEF TypeOK, Control, ExecSucceeds, Attached, Live, Waits, debugger
  <2>. QED BY <2>2, <2>3 DEF TypeInv
<1>2. CASE ExecFails
  <2>1. TypeOK'
    BY <1>0, <1>2 DEF TypeOK, ExecFails, At, debugger
  <2>2. Control'
    BY <1>0, <1>2 DEF TypeOK, Control, ExecFails, Attached, Live, Waits, debugger
  <2>. QED BY <2>1, <2>2 DEF TypeInv
<1>3. CASE Trap
  <2>1. rip' \in Nat /\ At' = At + 1
    BY <1>0, <1>3, ProgramAssumption DEF Trap, At, TypeOK
  <2>2. TypeOK'
    BY <1>0, <1>3, <2>1 DEF TypeOK, Trap, debugger
  <2>3. Control'
    BY <1>0, <1>3 DEF TypeOK, Control, Trap, Attached, Live, Waits, debugger
  <2>. QED BY <2>2, <2>3 DEF TypeInv
<1>4. CASE Execute
  <2>1. rip' \in Nat /\ At' \in Instr
    <3>1. PICK next \in Flow[At] : rip' = load_base + next
      BY <1>4 DEF Execute
    <3>2. next \in Instr /\ next \in Nat
      BY <1>4, ProgramAssumption DEF Execute
    <3>3. load_base \in Nat /\ load_base' = load_base
      BY <1>0, <1>4, ProgramAssumption DEF Execute, TypeOK
    <3>. QED BY <3>1, <3>2, <3>3 DEF At
  <2>2. TypeOK'
    BY <1>0, <1>4, <2>1 DEF TypeOK, Execute, debugger
  <2>3. Control'
    BY <1>0, <1>4 DEF TypeOK, Control, Execute, Attached, Live, Waits, debugger
  <2>. QED BY <2>2, <2>3 DEF TypeInv
<1>5. CASE Exit \/ Segfault
  <2>1. TypeOK'
    BY <1>0, <1>5 DEF TypeOK, Exit, Segfault, At, debugger
  <2>2. Control'
    BY <1>0, <1>5 DEF TypeOK, Control, Exit, Segfault, Attached, Live, Waits, debugger
  <2>. QED BY <2>1, <2>2 DEF TypeInv
<1>6. CASE Signal
  <2>1. TypeOK'
    BY <1>0, <1>6 DEF TypeOK, Signal, At, debugger
  <2>2. Control'
    BY <1>0, <1>6 DEF TypeOK, Control, Signal, Attached, Live, Waits, debugger
  <2>. QED BY <2>1, <2>2 DEF TypeInv
<1>7. CASE Kill
  <2>1. TypeOK'
    BY <1>0, <1>7 DEF TypeOK, Kill, At, debugger
  <2>2. Control'
    BY <1>0, <1>7 DEF TypeOK, Control, Kill, Attached, Live, Waits, debugger
  <2>. QED BY <2>1, <2>2 DEF TypeInv
<1>8. CASE Interrupted
  BY <1>0, <1>8, QuitTypeInv DEF Interrupted
<1>. QED BY <1>1, <1>2, <1>3, <1>4, <1>5, <1>6, <1>7, <1>8
         DEF ExecOutcome, TraceeStep, Fault

LEMMA NextTypeInv == TypeInv /\ [Next]_vars => TypeInv'
<1> SUFFICES ASSUME TypeInv, [Next]_vars PROVE TypeInv'
  OBVIOUS
<1>1. CASE UNCHANGED vars
  <2>1. TypeOK'
    BY <1>1 DEF vars, TypeInv, TypeOK, At
  <2>2. Control'
    BY <1>1 DEF vars, TypeInv, Control, Attached, Live
  <2>. QED BY <2>1, <2>2 DEF TypeInv
<1>. QED BY <1>1, CommandTypeInv, WaitedTypeInv, ProcessTypeInv DEF Next, Ended

\* Type correctness, whatever the user writes to rip: the breakpoints that the
\* list accepts are patched where there is text, and rip is on an instruction,
\* just behind one, or where the user has moved it.
THEOREM TypeCorrect == Spec => []TypeOK
<1>1. TypeInv => TypeOK
  BY DEF TypeInv
<1>. QED BY <1>1, InitTypeInv, NextTypeInv, PTL DEF Spec

-----------------------------------------------------------------------------
(* PatchInv is inductive, given TypeInv *)

LEMMA InitPatchInv == Init => PatchInv
<1> SUFFICES ASSUME Init PROVE PatchInv
  OBVIOUS
<1>1. bplist = <<>> /\ mem = Opcode /\ tracee = "none" /\ ~Live /\ ~Attached
  BY DEF Init, Live, Attached
<1>2. DOMAIN bplist = {}
  BY <1>1
<1>3. TextInv
  BY <1>1, <1>2 DEF TextInv, TextIntegrity, Distinct, Untouched
<1>. QED BY <1>1, <1>3 DEF PatchInv, DisarmedIsReported, DetachedClean

\* Steps that patch nothing and resume the tracee, if at all, from the prompt.
LEMMA FramePatchInv ==
    ASSUME PatchInv, UNCHANGED <<bplist, mem, report>>,
           Live' => Live,
           Live' /\ state' # "RUNNING" => state # "RUNNING",
           Attached' =>
             Attached /\ (pc' = pc \/ pc' \in {"prompt", "cont_step", "si_step"}),
           tracee' = "detached" => tracee = "detached"
    PROVE  PatchInv'
<1>1. TextIntegrity' /\ Distinct' /\ Untouched'
  BY DEF PatchInv, TextInv, TextIntegrity, Distinct, Untouched, Listed
<1>2. DisarmedIsReported'
  BY DEF PatchInv, DisarmedIsReported, Listed
<1>3. DetachedClean'
  BY DEF PatchInv, DetachedClean
<1>. QED BY <1>1, <1>2, <1>3 DEF PatchInv, TextInv

\* Without EXITKILL nothing has been patched.
LEMMA QuitPatchInv ==
    ASSUME IInv, NEW k \in BOOLEAN, Quit(k), k = FALSE /\ Live => mem = Opcode
    PROVE  PatchInv'
<1>1. ~Live' /\ ~Attached' /\ UNCHANGED <<bplist, mem, report>>
  BY DEF IInv, TypeInv, TypeOK, Quit, Live, Attached
<1>2. TextInv'
  BY <1>1 DEF IInv, PatchInv, TextInv, TextIntegrity, Distinct, Untouched
<1>3. DetachedClean'
  BY <1>1 DEF IInv, PatchInv, DetachedClean, Quit, Live
<1>. QED BY <1>1, <1>2, <1>3 DEF PatchInv, DisarmedIsReported

LEMMA ExitkillFacts ==
    ASSUME IInv
    PROVE  exitkill = FALSE /\ Live => mem = Opcode
BY DEF IInv, TypeInv, TypeOK, Control, PatchInv, TextInv, Untouched,
       Live, Attached, Waits

\* A new text with every breakpoint armed, and nothing else patched.
LEMMA ArmedPatchInv ==
    ASSUME IInv, Attached, tracee' # "detached", state' = "RUNNING",
           UNCHANGED <<bplist, report>>, mem' = Rearmed
    PROVE  PatchInv'
<1>1. \A a \in Instr : mem'[a] = IF a \in Listed THEN INT3 ELSE mem[a]
  BY RearmedFacts DEF IInv
<1>2. Live
  BY DEF Attached, Live
<1>3. TextIntegrity'
  BY <1>1, <1>2 DEF IInv, PatchInv, TextInv, TextIntegrity, Listed
<1>4. TextInv'
  BY <1>3 DEF IInv, PatchInv, TextInv, Distinct, Untouched
<1>5. DisarmedIsReported'
  BY <1>1, BplistFacts DEF IInv, TypeInv, DisarmedIsReported, Listed
<1>. QED BY <1>4, <1>5 DEF PatchInv, DetachedClean

LEMMA ReportPatchInv ==
    ASSUME IInv, Attached, NEW i, ReportBreakpoint(i)
    PROVE  PatchInv'
<1>1. /\ i \in DOMAIN bplist /\ IsHit(i)
      /\ bplist[i].addr \in Listed /\ bplist[i].addr \in Instr
      /\ bplist[i].ovalue = Opcode[bplist[i].addr]
  BY HitFacts DEF IInv, ReportBreakpoint, PatchInv, TextInv, TextIntegrity
<1>2. \A a \in Instr :
        mem'[a] = IF a = bplist[i].addr THEN Opcode[a]
                  ELSE IF a \in Listed THEN INT3 ELSE mem[a]
  BY <1>1, HitFacts, RearmedFacts DEF IInv, ReportBreakpoint
<1>3. /\ UNCHANGED <<bplist, tracee, state>> /\ Listed' = Listed
      /\ report' = bplist[i].addr /\ pc' = "prompt" /\ Live
  BY DEF ReportBreakpoint, Attached, Live, Listed
<1>4. TextIntegrity'
  BY <1>2, <1>3 DEF IInv, PatchInv, TextInv, TextIntegrity
<1>5. TextInv'
  BY <1>3, <1>4 DEF IInv, PatchInv, TextInv, Distinct, Untouched, Attached
<1>6. DisarmedIsReported'
  BY <1>2, <1>3, BplistFacts DEF IInv, TypeInv, DisarmedIsReported
<1>. QED BY <1>3, <1>5, <1>6 DEF PatchInv, DetachedClean, Attached

\* start saves the bytes of the file, whatever it had saved before.
LEMMA AttachPatchInv ==
    ASSUME IInv, Attach, pc \in {"start_wait", "run_wait"}, tracee # "exec",
           tracee' # "detached", tracee = "stopped" \/ UNCHANGED tracee
    PROVE  PatchInv'
<1>0. /\ state = "LOADED" /\ state' = "RUNNING"
      /\ DOMAIN bplist' = DOMAIN bplist /\ Listed' = Listed
      /\ \A i \in DOMAIN bplist : bplist'[i].addr = bplist[i].addr
      /\ Listed \subseteq Instr /\ Instr \subseteq Nat
  BY AttachFacts, BplistFacts, ProgramAssumption
     DEF IInv, TypeInv, Control, Attach
<1>1. Distinct'
  BY <1>0 DEF IInv, PatchInv, TextInv, Distinct
<1>2. CASE tracee = "stopped"
  <2>1. mem = Opcode /\ BaseRead = load_base /\ load_base \in Nat
    BY <1>0, <1>2, AttachFacts DEF IInv, PatchInv, TextInv, Untouched, Live
  <2>2. ASSUME NEW i \in DOMAIN bplist
        PROVE  bplist'[i].ovalue = Opcode[bplist'[i].addr]
    <3>1. bplist[i].addr \in Instr /\ bplist[i].addr \in Nat
      BY <1>0 DEF Listed
    <3>2. i \in Nat /\ \A j \in 1..(i - 1) : j \in DOMAIN bplist /\ j # i
      BY BplistFacts DEF IInv, TypeInv
    <3>3. ~ \E j \in 1..(i - 1) : bplist[j].addr = bplist[i].addr
      BY <3>2 DEF IInv, PatchInv, TextInv, Distinct
    <3>4. bplist'[i].ovalue = PeekByte(BaseRead + bplist[i].addr)
      BY <3>3 DEF Attach, ArmedList
    <3>5. PeekByte(BaseRead + bplist[i].addr) = mem[bplist[i].addr]
      BY <2>1, <3>1 DEF PeekByte
    <3>. QED BY <1>0, <2>1, <3>4, <3>5
  <2>3. ASSUME NEW a \in Instr
        PROVE  mem'[a] = IF a \in Listed THEN INT3 ELSE mem[a]
    <3>1. load_base + a \in {BaseRead + b : b \in Listed} <=> a \in Listed
      BY <1>0, <2>1
    <3>. QED BY <3>1 DEF Attach, ArmedText
  <2>4. TextInv'
    BY <1>0, <1>1, <2>1, <2>2, <2>3 DEF TextInv, TextIntegrity, Untouched
  <2>5. DisarmedIsReported'
    BY <1>0, <2>3 DEF DisarmedIsReported
  <2>. QED BY <2>4, <2>5 DEF PatchInv, DetachedClean
<1>3. CASE tracee # "stopped"
  <2>1. Listed = {}
    BY <1>3 DEF Attach, Pokeable
  <2>2. DOMAIN bplist' = {}
    BY <1>0, <2>1 DEF Listed
  <2>3. ~Live'
    BY <1>3 DEF IInv, TypeInv, Control, Live
  <2>4. TextInv'
    BY <2>2, <2>3 DEF TextInv, TextIntegrity, Distinct, Untouched
  <2>. QED BY <1>0, <2>1, <2>4 DEF PatchInv, DisarmedIsReported, DetachedClean
<1>. QED BY <1>2, <1>3

\* What setbreak adds.
LEMMA SetBreakFacts ==
    ASSUME IInv, NEW a \in UserAddr, state = "RUNNING", ~Dup(a), SetBreak(a)
    PROVE  /\ Attached /\ Live /\ a \in Instr \ Listed
           /\ Len(bplist) \in Nat /\ DOMAIN bplist = 1..Len(bplist)
           /\ DOMAIN bplist' = 1..(Len(bplist) + 1)
           /\ \A i \in 1..Len(bplist) : bplist'[i] = bplist[i]
           /\ bplist'[Len(bplist) + 1] = [addr |-> a, ovalue |-> Opcode[a]]
           /\ Listed' = Listed \cup {a}
           /\ \A x \in Instr : mem'[x] = IF x = a THEN INT3 ELSE mem[x]
           /\ UNCHANGED <<state, base_address, pc, report,
                          tracee, cause, rip, load_base, exitkill>>
<1>1. Attached /\ base_address = load_base /\ load_base \in Nat /\ Live
  BY RearmedFacts DEF IInv, SetBreak, Pokeable, Attached, Live
<1>2. base_address + a - load_base = a /\ a \in Instr
  BY <1>1, ProgramAssumption DEF SetBreak, Pokeable
<1>3. a \notin Listed /\ mem[a] = Opcode[a]
  BY <1>1, <1>2 DEF Dup, IInv, PatchInv, TextInv, TextIntegrity
<1>4. PeekByte(base_address + a) = Opcode[a]
  <2>1. a \in Nat
    BY ProgramAssumption
  <2>2. PeekByte(base_address + a) = mem[a]
    BY <1>1, <1>2, <2>1 DEF PeekByte
  <2>. QED BY <1>3, <2>2
<1>5. bplist' = Append(bplist, [addr |-> a, ovalue |-> Opcode[a]])
  BY <1>4 DEF SetBreak
<1>6. /\ DOMAIN bplist = 1..Len(bplist) /\ Len(bplist) \in Nat
      /\ DOMAIN bplist' = 1..(Len(bplist) + 1)
      /\ \A i \in 1..Len(bplist) : bplist'[i] = bplist[i]
      /\ bplist'[Len(bplist) + 1] = [addr |-> a, ovalue |-> Opcode[a]]
  <2>. DEFINE S == [addr : UserAddr \cap Instr, ovalue : Byte]
  <2>1. bplist \in Seq(S) /\ [addr |-> a, ovalue |-> Opcode[a]] \in S
    BY <1>2, ProgramAssumption DEF IInv, TypeInv, TypeOK
  <2>. HIDE DEF S
  <2>. QED BY <1>5, <2>1, ElementFacts, AppendFacts
<1>7. Listed' = Listed \cup {a}
  BY <1>6 DEF Listed
<1>8. \A x \in Instr : mem'[x] = IF x = a THEN INT3 ELSE mem[x]
  <2>1. mem' = [mem EXCEPT ![a] = INT3]
    BY <1>2 DEF SetBreak
  <2>2. mem \in [Instr -> Byte]
    BY DEF IInv, TypeInv, TypeOK
  <2>. QED BY <2>1, <2>2
<1>. QED BY <1>1, <1>2, <1>3, <1>6, <1>7, <1>8 DEF SetBreak

LEMMA SetBreakPatchInv ==
    ASSUME IInv, NEW a \in UserAddr, state = "RUNNING", ~Dup(a), SetBreak(a)
    PROVE  PatchInv'
<1>1. /\ Attached /\ Live /\ a \in Instr \ Listed /\ Listed' = Listed \cup {a}
      /\ \A x \in Instr : mem'[x] = IF x = a THEN INT3 ELSE mem[x]
      /\ UNCHANGED <<state, pc, report, tracee>>
  BY SetBreakFacts
<1>2. /\ Len(bplist) \in Nat /\ DOMAIN bplist = 1..Len(bplist)
      /\ DOMAIN bplist' = 1..(Len(bplist) + 1)
      /\ \A i \in 1..Len(bplist) : bplist'[i] = bplist[i]
      /\ bplist'[Len(bplist) + 1] = [addr |-> a, ovalue |-> Opcode[a]]
  BY SetBreakFacts
<1>3. TextIntegrity'
  <2>1. ASSUME NEW i \in DOMAIN bplist'
        PROVE  bplist'[i].ovalue = Opcode[bplist'[i].addr]
    <3>1. CASE i \in 1..Len(bplist)
      BY <3>1, <1>2 DEF IInv, PatchInv, TextInv, TextIntegrity
    <3>2. CASE i = Len(bplist) + 1
      BY <3>2, <1>2
    <3>. QED BY <3>1, <3>2, <1>2
  <2>. QED BY <2>1, <1>1 DEF IInv, PatchInv, TextInv, TextIntegrity
<1>4. Distinct'
  <2>1. \A i \in 1..Len(bplist) : bplist'[i].addr # a
    BY <1>1, <1>2 DEF Listed
  <2>. QED BY <2>1, <1>2 DEF IInv, PatchInv, TextInv, Distinct
<1>5. DisarmedIsReported'
  BY <1>1, BplistFacts
     DEF IInv, TypeInv, PatchInv, DisarmedIsReported, Attached
<1>. QED BY <1>1, <1>3, <1>4, <1>5
         DEF PatchInv, TextInv, Untouched, DetachedClean, Attached

\* What insdelete takes away.
LEMMA EraseFacts ==
    ASSUME IInv, state = "RUNNING", NEW i \in DOMAIN bplist, Erase(i)
    PROVE  /\ Attached /\ Live
           /\ Listed' = Listed \ {bplist[i].addr}
           /\ \A j \in DOMAIN bplist' :
                \E k \in DOMAIN bplist \ {i} :
                    bplist'[j] = bplist[k] /\ k = (IF j < i THEN j ELSE j + 1)
           /\ DOMAIN bplist' \subseteq Nat /\ i \in Nat
           /\ \A x \in Instr :
                mem'[x] = IF x = bplist[i].addr THEN Opcode[x] ELSE mem[x]
           /\ UNCHANGED <<state, base_address, pc, report,
                          tracee, cause, rip, load_base, exitkill>>
<1>. DEFINE a == bplist[i].addr
<1>1. Attached /\ base_address = load_base /\ load_base \in Nat /\ Live
  BY RearmedFacts DEF IInv, Erase, Pokeable, Attached, Live
<1>2. base_address + a - load_base = a /\ a \in Instr
      /\ bplist[i].ovalue = Opcode[a]
  <2>1. a \in Instr /\ a \in Nat
    BY BplistFacts, ProgramAssumption DEF IInv, TypeInv
  <2>2. bplist[i].ovalue = Opcode[a]
    BY DEF IInv, PatchInv, TextInv, TextIntegrity
  <2>. QED BY <1>1, <2>1, <2>2
<1>3. /\ DOMAIN bplist = 1..Len(bplist) /\ Len(bplist) \in Nat
      /\ DOMAIN bplist' = 1..(Len(bplist) - 1)
      /\ \A j \in 1..(Len(bplist) - 1) :
           bplist'[j] = IF j < i THEN bplist[j] ELSE bplist[j + 1]
  <2>. DEFINE S == [addr : UserAddr \cap Instr, ovalue : Byte]
  <2>1. bplist \in Seq(S) /\ bplist' = RemoveAt(bplist, i)
    BY DEF IInv, TypeInv, TypeOK, Erase
  <2>. HIDE DEF S
  <2>. QED BY <2>1, ElementFacts, RemoveAtFacts
<1>4. ASSUME NEW j \in DOMAIN bplist'
      PROVE  \E k \in DOMAIN bplist \ {i} :
               bplist'[j] = bplist[k] /\ k = (IF j < i THEN j ELSE j + 1)
  <2>1. CASE j < i
    BY <1>3, <2>1
  <2>2. CASE ~(j < i)
    BY <1>3, <2>2
  <2>. QED BY <2>1, <2>2
<1>5. ASSUME NEW k \in DOMAIN bplist \ {i}
      PROVE  \E j \in DOMAIN bplist' : bplist'[j] = bplist[k]
  <2>1. CASE k < i
    BY <1>3, <2>1
  <2>2. CASE k > i
    <3>1. k - 1 \in 1..(Len(bplist) - 1) /\ ~(k - 1 < i) /\ (k - 1) + 1 = k
      BY <1>3, <2>2
    <3>. QED BY <1>3, <3>1
  <2>. QED BY <1>3, <2>1, <2>2
<1>6. Listed' = Listed \ {a}
  <2>1. \A k \in DOMAIN bplist \ {i} : bplist[k].addr # a
    BY DEF IInv, PatchInv, TextInv, Distinct
  <2>2. Listed' \subseteq Listed \ {a}
    BY <1>4, <2>1 DEF Listed
  <2>3. Listed \ {a} \subseteq Listed'
    BY <1>5 DEF Listed
  <2>. QED BY <2>2, <2>3
<1>7. \A x \in Instr : mem'[x] = IF x = a THEN Opcode[a] ELSE mem[x]
  <2>1. mem' = [mem EXCEPT ![a] = Opcode[a]]
    BY <1>2 DEF Erase, DeletedText
  <2>2. mem \in [Instr -> Byte]
    BY DEF IInv, TypeInv, TypeOK
  <2>. QED BY <2>1, <2>2
<1>. QED BY <1>1, <1>2, <1>3, <1>4, <1>6, <1>7 DEF Erase

LEMMA ErasePatchInv ==
    ASSUME IInv, state = "RUNNING", NEW i \in DOMAIN bplist, Erase(i)
    PROVE  PatchInv'
<1>1. TextIntegrity'
  BY EraseFacts DEF IInv, PatchInv, TextInv, TextIntegrity
<1>2. Distinct'
  <2>1. ASSUME NEW j \in DOMAIN bplist', NEW m \in DOMAIN bplist',
               bplist'[j].addr = bplist'[m].addr
        PROVE  j = m
    <3>1. (IF j < i THEN j ELSE j + 1) = (IF m < i THEN m ELSE m + 1)
      BY EraseFacts, <2>1 DEF IInv, PatchInv, TextInv, Distinct
    <3>. QED BY <3>1, EraseFacts
  <2>. QED BY <2>1 DEF Distinct
<1>3. DisarmedIsReported'
  BY EraseFacts, BplistFacts
     DEF IInv, TypeInv, PatchInv, DisarmedIsReported, Attached
<1>. QED BY <1>1, <1>2, <1>3, EraseFacts
         DEF PatchInv, TextInv, Untouched, DetachedClean, Attached

LEMMA CommandPatchInv ==
    ASSUME IInv, Command
    PROVE  PatchInv'
<1>0. /\ PatchInv /\ exitkill \in BOOLEAN
      /\ exitkill = FALSE /\ Live => mem = Opcode
  BY ExitkillFacts DEF IInv, TypeInv, TypeOK
<1>1. CASE InsLoad
  <2>1. UNCHANGED <<bplist, mem, report, tracee>> /\ state = "NONE"
        /\ state' = "LOADED"
    BY <1>1 DEF InsLoad, process
  <2>. QED BY <1>0, <2>1, FramePatchInv DEF Live, Attached
<1>2. ASSUME NEW w \in {"start_wait", "run_wait"}, ForkTracee(w)
      PROVE  PatchInv'
  <2>1. /\ UNCHANGED <<bplist, report>> /\ mem' = Opcode
        /\ tracee' = "exec" /\ ~Attached'
    BY <1>2 DEF ForkTracee, Attached
  <2>2. TextInv'
    BY <1>0, <2>1
       DEF PatchInv, TextInv, TextIntegrity, Distinct, Untouched, Listed
  <2>. QED BY <2>1, <2>2 DEF PatchInv, DisarmedIsReported, DetachedClean
<1>3. ASSUME NEW w \in {"cont_step", "si_step"}, pc = "prompt", Singlestep(w),
             UNCHANGED <<state, bplist, base_address, report,
                         rip, mem, load_base, exitkill>>
      PROVE  PatchInv'
  BY <1>0, <1>3, FramePatchInv DEF Singlestep, Live, Attached
<1>4. CASE Quit(exitkill)
  BY <1>0, <1>4, QuitPatchInv
<1>5. ASSUME tracee = "stopped",
             UNCHANGED <<debugger, tracee, cause, mem, load_base, exitkill>>
      PROVE  PatchInv'
  BY <1>0, <1>5, FramePatchInv DEF debugger, Live, Attached
<1>. QED
  <2>1. CASE InsStart \/ InsRun
    BY <2>1, <1>2 DEF InsStart, InsRun
  <2>2. CASE InsSi \/ \E nargs \in {0, 1} : InsCont(nargs)
    BY <2>2, <1>3, <1>4 DEF InsSi, InsCont
  <2>3. CASE InsGet \/ InsExit \/ BadNumber
    BY <2>3, <1>4 DEF InsGet, InsExit, BadNumber
  <2>4. CASE \E a \in UserAddr : InsBreak(a)
    BY <2>4, <1>4, SetBreakPatchInv DEF InsBreak
  <2>5. CASE \E i \in DOMAIN bplist : InsDelete(i)
    BY <2>5, <1>4, ErasePatchInv DEF InsDelete
  <2>6. CASE \E a \in RipTargets : InsSet(a)
    BY <2>6, <1>4, <1>5 DEF InsSet
  <2>. QED BY <1>1, <2>1, <2>2, <2>3, <2>4, <2>5, <2>6 DEF Command

LEMMA WaitedPatchInv ==
    ASSUME IInv, Waited
    PROVE  PatchInv'
<1>0. /\ PatchInv /\ TypeOK /\ Control
      /\ exitkill \in BOOLEAN /\ OptionsSet \in BOOLEAN
      /\ exitkill = FALSE /\ Live => mem = Opcode
  BY ExitkillFacts DEF IInv, TypeInv, TypeOK, OptionsSet
<1>1. CASE StartWaited \/ RunWaited
  <2>1. /\ pc \in {"start_wait", "run_wait"} /\ tracee # "exec"
        /\ OptionsSet = FALSE => ~Live /\ tracee # "stopped"
    BY <1>0, <1>1 DEF StartWaited, RunWaited, Control, OptionsSet, Live
  <2>2. CASE Attach /\ UNCHANGED tracee
    BY <1>0, <2>1, <2>2, AttachPatchInv DEF Control
  <2>3. CASE Attach /\ Singlestep("cont_step")
    BY <2>1, <2>3, AttachPatchInv DEF Singlestep
  <2>4. CASE AttachFails
    BY <1>0, <2>1, <2>4, QuitPatchInv DEF AttachFails
  <2>5. CASE tracee # "stopped" /\ Quit(FALSE)
    <3>1. ~Live
      BY <1>0, <2>1, <2>5 DEF Control, Live
    <3>2. FALSE \in BOOLEAN
      OBVIOUS
    <3>. QED BY <2>5, <3>1, <3>2, QuitPatchInv
  <2>. QED BY <1>1, <2>2, <2>3, <2>4, <2>5 DEF StartWaited, RunWaited
<1>2. ASSUME pc \in {"cont_step", "cont_run", "si_step"}, tracee = "stopped"
      PROVE  Attached /\ state = "RUNNING"
  BY <1>0, <1>2 DEF Control, Attached
<1>3. ASSUME pc \in {"cont_step", "cont_run", "si_step"}, Hold
      PROVE  PatchInv'
  <2>1. Attached /\ state' = "RUNNING" /\ tracee' # "detached"
        /\ UNCHANGED <<bplist, report>> /\ mem' = Rearmed
    BY <1>2, <1>3 DEF Hold
  <2>. QED BY <2>1, ArmedPatchInv
<1>4. CASE ContStepped
  <2>1. CASE tracee = "stopped" /\ \E i \in DOMAIN bplist : ReportBreakpoint(i)
    BY <1>2, <1>4, <2>1, ReportPatchInv DEF ContStepped
  <2>2. CASE /\ tracee = "stopped" /\ NoHit
             /\ mem' = Rearmed
             /\ tracee' = "running" /\ cause' = "none"
             /\ pc' = "cont_run"
             /\ UNCHANGED <<state, bplist, base_address, report,
                            rip, load_base, exitkill>>
    BY <1>2, <1>4, <2>2, ArmedPatchInv DEF ContStepped
  <2>3. CASE Quit(exitkill)
    BY <1>0, <2>3, QuitPatchInv
  <2>. QED BY <1>4, <2>1, <2>2, <2>3 DEF ContStepped
<1>5. CASE ContStopped
  <2>1. CASE tracee = "stopped" /\ \E i \in DOMAIN bplist : ReportBreakpoint(i)
    BY <1>2, <1>5, <2>1, ReportPatchInv DEF ContStopped
  <2>2. CASE Hold
    BY <1>3, <1>5, <2>2 DEF ContStopped
  <2>3. CASE /\ tracee = "exited"
             /\ state' = "LOADED" /\ pc' = "prompt"
             /\ UNCHANGED <<bplist, base_address, report, process>>
    BY <1>0, <2>3, FramePatchInv DEF process, Live, Attached
  <2>4. CASE Quit(exitkill)
    BY <1>0, <2>4, QuitPatchInv
  <2>. QED BY <1>5, <2>1, <2>2, <2>3, <2>4 DEF ContStopped
<1>6. CASE SiStepped
  <2>1. CASE tracee = "stopped" /\ \E i \in DOMAIN bplist : ReportBreakpoint(i)
    BY <1>2, <1>6, <2>1, ReportPatchInv DEF SiStepped
  <2>2. CASE Hold
    BY <1>3, <1>6, <2>2 DEF SiStepped
  <2>3. CASE Quit(exitkill)
    BY <1>0, <2>3, QuitPatchInv
  <2>. QED BY <1>6, <2>1, <2>2, <2>3 DEF SiStepped
<1>. QED BY <1>1, <1>4, <1>5, <1>6 DEF Waited

LEMMA ProcessPatchInv ==
    ASSUME IInv, ExecOutcome \/ TraceeStep \/ Fault
    PROVE  PatchInv'
<1>0. /\ PatchInv /\ TypeOK /\ Control /\ exitkill \in BOOLEAN
      /\ exitkill = FALSE /\ Live => mem = Opcode
  BY ExitkillFacts DEF IInv, TypeInv, TypeOK
<1>1. CASE ExecSucceeds
  <2>1. state # "RUNNING"
    BY <1>0, <1>1 DEF TypeOK, Control, ExecSucceeds, Live, Waits
  <2>. QED BY <1>0, <1>1, <2>1, FramePatchInv
           DEF ExecSucceeds, debugger, Live, Attached
<1>2. CASE ExecFails
  BY <1>0, <1>2, FramePatchInv DEF ExecFails, debugger, Live, Attached
<1>3. CASE Trap
  BY <1>0, <1>3, FramePatchInv DEF Trap, debugger, Live, Attached
<1>4. CASE Execute
  BY <1>0, <1>4, FramePatchInv DEF Execute, debugger, Live, Attached
<1>5. CASE Exit \/ Segfault
  BY <1>0, <1>5, FramePatchInv DEF Exit, Segfault, debugger, Live, Attached
<1>6. CASE Signal
  BY <1>0, <1>6, FramePatchInv DEF Signal, debugger, Live, Attached
<1>7. CASE Kill
  BY <1>0, <1>7, FramePatchInv DEF Kill, debugger, Live, Attached
<1>8. CASE Interrupted
  BY <1>0, <1>8, QuitPatchInv DEF Interrupted
<1>. QED BY <1>1, <1>2, <1>3, <1>4, <1>5, <1>6, <1>7, <1>8
         DEF ExecOutcome, TraceeStep, Fault

-----------------------------------------------------------------------------
(* The theorems *)

LEMMA InitIInv == Init => IInv
BY InitTypeInv, InitPatchInv DEF IInv

LEMMA NextIInv == IInv /\ [Next]_vars => IInv'
<1> SUFFICES ASSUME IInv, [Next]_vars PROVE IInv'
  OBVIOUS
<1>1. TypeInv'
  BY NextTypeInv DEF IInv
<1>2. ASSUME UNCHANGED vars
      PROVE  PatchInv'
  BY <1>2, FramePatchInv DEF vars, IInv, Live, Attached
<1>3. ASSUME Next
      PROVE  PatchInv'
  BY <1>2, <1>3, CommandPatchInv, WaitedPatchInv, ProcessPatchInv DEF Next, Ended
<1>. QED BY <1>1, <1>2, <1>3 DEF IInv

THEOREM Inductive == Spec => []IInv
BY InitIInv, NextIInv, PTL DEF Spec

\* Patching is invisible: the saved bytes are those of the file, and nothing
\* but listed breakpoints differs from it, in every run of every program.
THEOREM TextIsIntact == Spec => []TextIntegrity
<1>1. IInv => TextIntegrity
  BY DEF IInv, PatchInv, TextInv
<1>. QED BY <1>1, Inductive, PTL

\* Only the breakpoint just announced can be off, and never while the
\* program runs freely.
THEOREM OnlyReportedIsDisarmed == Spec => []DisarmedIsReported
<1>1. IInv => DisarmedIsReported
  BY DEF IInv, PatchInv
<1>. QED BY <1>1, Inductive, PTL

\* A process that survives the debugger is the program of the file.
THEOREM SurvivorIsClean == Spec => []DetachedClean
<1>1. IInv => DetachedClean
  BY DEF IInv, PatchInv
<1>. QED BY <1>1, Inductive, PTL

\* No program gets past an armed breakpoint while cont waits for it.
THEOREM NoBreakpointMissed == Spec => BreakpointsStop
<1>1. IInv /\ [Next]_vars =>
        [tracee = "running" /\ At \in Listed /\ rip' # rip => cause' = "int3"]_vars
  <2> SUFFICES ASSUME IInv, Next, tracee = "running", At \in Listed, rip' # rip
               PROVE  cause' = "int3"
    BY DEF vars
  <2>1. pc = "cont_run" /\ Attached
    BY DEF IInv, TypeInv, TypeOK, Control, Attached, Live, Waits
  <2>2. mem[At] = INT3
    BY <2>1 DEF IInv, PatchInv, DisarmedIsReported
  <2>3. ~Command
    BY <2>1 DEF Command, InsLoad, InsStart, InsRun, ForkTracee, InsSi, InsGet,
                InsExit, BadNumber, InsCont, InsBreak, InsDelete, InsSet
  <2>4. ~Waited
    BY <2>1 DEF Waited, StartWaited, RunWaited, ContStepped, ContStopped,
                SiStepped, Hold, Live
  <2>5. ~(ExecSucceeds \/ ExecFails \/ Signal \/ Kill \/ Interrupted \/ Ended)
    BY DEF ExecSucceeds, ExecFails, Signal, Kill, Interrupted, Ended, Quit, vars
  <2>6. ~(Execute \/ Exit \/ Segfault)
    BY <2>2, BplistFacts DEF Execute, Exit, Segfault, IInv, TypeInv
  <2>7. Trap
    BY <2>3, <2>4, <2>5, <2>6 DEF Next, ExecOutcome, TraceeStep, Fault
  <2>. QED BY <2>7 DEF Trap
<1>. QED BY <1>1, Inductive, PTL DEF Spec, BreakpointsStop

=============================================================================
