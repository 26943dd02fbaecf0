----------------------- MODULE LoggerRefinementProofs -----------------------
(* On a terminal, the logger of a program that leaves its descriptor alone  *)
(* keeps the ideal log.                                                     *)
EXTENDS LoggerRefinement, LoggerProofs

\* The program closes only what it has opened.
LeftAlone == "close" \notin Program

NeverCut == cut = {}

RInv == TypeInv /\ TerminalInv /\ NeverCut

-----------------------------------------------------------------------------

LEMMA CallNeverCuts ==
    ASSUME LeftAlone, TypeInv, NeverCut, NEW p \in Proc, MonitoredCall(p)
    PROVE  cut' = cut
<1>1. ASSUME NEW d, Acquire(p, d) PROVE cut' = cut
  BY <1>1 DEF Acquire, descriptors
<1>2. ASSUME NEW f \in File, Open(p, f) \/ Creat(p, f) \/ Fopen(p, f) \/ Remove(p, f)
      PROVE  cut' = cut
  BY <1>1, <1>2 DEF Open, Creat, Fopen, Remove, descriptors
<1>3. ASSUME NEW fd \in Fds, Close(p, fd) \/ Fclose(p, fd)
      PROVE  cut' = cut
  BY <1>3 DEF Close, Fclose, Release, LeftAlone
<1>4. ASSUME Tmpfile(p) \/ Transfer(p) \/ Read(p)
      PROVE  cut' = cut
  BY <1>1, <1>4 DEF Tmpfile, Transfer, Read, Crash, End, descriptors
<1>. QED BY <1>2, <1>3, <1>4 DEF MonitoredCall

LEMMA NeverCutIsInductive ==
    ASSUME LeftAlone, TypeInv, NeverCut, [Next]_vars
    PROVE  NeverCut'
<1>1. ASSUME NEW t \in Targets, Launch(t) PROVE cut' = cut
  BY <1>1 DEF Launch
<1>2. ASSUME NEW p \in Proc, Log(p) \/ LogFails(p) \/ Exec(p) \/ Exit(p) \/ Abort(p)
      PROVE  cut' = cut
  BY <1>2 DEF Log, LogFails, Crash, Exec, Exit, Abort, End, descriptors
<1>3. ASSUME NEW p \in Proc, NEW q \in Proc, Fork(p, q) PROVE cut' = cut
  BY <1>3 DEF Fork, NeverCut
<1>4. ASSUME LaunchFails \/ Over \/ UNCHANGED vars PROVE cut' = cut
  BY <1>4 DEF LaunchFails, End, Over, vars, descriptors
<1>. QED BY <1>1, <1>2, <1>3, <1>4, CallNeverCuts DEF Next, NeverCut

-----------------------------------------------------------------------------
(* The steps *)

LEMMA Quiet ==
    ASSUME written' = written
    PROVE  idealLines' = idealLines
BY DEF idealLines

LEMMA InitRefines ==
    ASSUME Init
    PROVE  Ideal!Init
<1>1. idealAlive = {} /\ idealDue = {}
  BY DEF Init, idealAlive, idealDue, Running
<1>2. idealLines = <<>>
  <2>1. Len(<<>>) \div 2 = 0
    OBVIOUS
  <2>2. 1..(Len(written) \div 2) = {}
    BY <2>1 DEF Init
  <2>. QED BY <2>2 DEF idealLines
<1>. QED BY <1>1, <1>2 DEF Init, Ideal!Init

LEMMA LaunchRefines ==
    ASSUME RInv, NEW t \in Targets, Launch(t)
    PROVE  Ideal!Start(First)
<1>1. /\ status[First] = "launcher" /\ First \in Proc
      /\ status' = [status EXCEPT ![First] = "running"]
      /\ UNCHANGED <<logging, made, written>>
  BY LoggerAssumption DEF Launch, output
<1>2. First \notin idealAlive /\ idealAlive' = idealAlive \cup {First}
  BY <1>1 DEF idealAlive, Running, RInv, TypeInv, TypeOK
<1>3. ~logging[First]
  BY <1>1 DEF RInv, TypeInv, Held, Running
<1>4. idealDue' = idealDue
  BY <1>1, <1>3 DEF idealDue, Running, RInv, TypeInv, TypeOK
<1>. QED BY <1>1, <1>2, <1>4, Quiet DEF Ideal!Start

LEMMA ForkRefines ==
    ASSUME RInv, NEW p \in Proc, NEW q \in Proc, Fork(p, q)
    PROVE  Ideal!Start(q)
<1>1. /\ status[q] = "unborn"
      /\ status' = [status EXCEPT ![q] = "running"]
      /\ UNCHANGED <<logging, made, written>>
  BY DEF Fork, output
<1>2. q \notin idealAlive /\ idealAlive' = idealAlive \cup {q}
  BY <1>1 DEF idealAlive, Running, RInv, TypeInv, TypeOK
<1>3. ~logging[q]
  BY <1>1 DEF RInv, TypeInv, Held
<1>4. idealDue' = idealDue
  BY <1>1, <1>3 DEF idealDue, Running, RInv, TypeInv, TypeOK
<1>. QED BY <1>1, <1>2, <1>4, Quiet DEF Ideal!Start

LEMMA CallRefines ==
    ASSUME RInv, NEW p \in Proc, Called(p)
    PROVE  Ideal!Call(p)
<1>1. /\ Running(p) /\ ~logging[p]
      /\ made' = [made EXCEPT ![p] = @ + 1]
      /\ logging' = [logging EXCEPT ![p] = TRUE]
      /\ UNCHANGED <<status, written>>
  BY DEF Called, Call, output
<1>2. p \in idealAlive \ idealDue /\ idealAlive' = idealAlive
  BY <1>1 DEF idealAlive, idealDue, Running
<1>3. idealDue' = idealDue \cup {p}
  BY <1>1 DEF idealDue, Running, RInv, TypeInv, TypeOK
<1>. QED BY <1>1, <1>2, <1>3, Quiet DEF Ideal!Call

\* The end of a process, whether it has something to flush or not.
LEMMA EndRefines ==
    ASSUME RInv, NEW p \in Proc, Ended(p) \/ Exit(p)
    PROVE  Ideal!End(p) \/ UNCHANGED Ideal!vars
<1>1. PICK how \in {"failed", "exited", "aborted", "crashed"} : End(p, how)
  BY DEF Ended, Exit
<1>2. /\ status' = [status EXCEPT ![p] = how]
      /\ logging' = [logging EXCEPT ![p] = FALSE] /\ UNCHANGED made
  BY <1>1 DEF End
<1>3. written' = written
  BY TerminalQuiet DEF RInv
<1>4. idealAlive' = idealAlive \ {p} /\ idealDue' = idealDue \ {p}
  BY <1>2 DEF idealAlive, idealDue, Running, RInv, TypeInv, TypeOK
<1>5. CASE p \in idealAlive
  BY <1>2, <1>3, <1>4, <1>5, Quiet DEF Ideal!End
<1>6. CASE p \notin idealAlive
  <2>1. p \notin idealDue
    BY <1>6 DEF idealAlive, idealDue
  <2>2. idealAlive' = idealAlive /\ idealDue' = idealDue
    BY <1>4, <1>6, <2>1
  <2>. QED BY <1>2, <1>3, <2>2, Quiet DEF Ideal!vars
<1>. QED BY <1>5, <1>6

LEMMA ExecRefines ==
    ASSUME RInv, NEW p \in Proc, Exec(p)
    PROVE  UNCHANGED Ideal!vars
<1>1. UNCHANGED <<status, logging, made, written>>
  BY DEF Exec, output
<1>2. idealAlive' = idealAlive /\ idealDue' = idealDue
  BY <1>1 DEF idealAlive, idealDue, Running
<1>. QED BY <1>1, <1>2, Quiet DEF Ideal!vars

LEMMA LogRefines ==
    ASSUME Terminal, RInv, NEW p \in Proc, Log(p)
    PROVE  Ideal!Log(p)
<1>1. /\ Running(p) /\ logging[p]
      /\ logging' = [logging EXCEPT ![p] = FALSE]
      /\ UNCHANGED <<status, made>>
  BY DEF Log
<1>2. p \in idealDue /\ idealDue' = idealDue \ {p} /\ idealAlive' = idealAlive
  BY <1>1 DEF idealAlive, idealDue, Running, RInv, TypeInv, TypeOK
<1>3. written' = written \o Line(p, made[p])
  BY TerminalLog DEF RInv, NeverCut
<1>4. PICK k \in Nat : Len(written) = 2 * k
  BY DEF RInv, TerminalInv
<1>5. /\ Len(written') = 2 * (k + 1)
      /\ \A i \in 1..2 * k : written'[i] = written[i]
      /\ written'[2 * k + 2] = <<p, made[p], 2>>
  BY <1>3, <1>4, LineGrows DEF RInv, TerminalInv
<1>. DEFINE entry(i) == <<written[2 * i][1], written[2 * i][2]>>
            entry2(i) == <<written'[2 * i][1], written'[2 * i][2]>>
            s == [i \in 1..k |-> entry(i)]
            t == [i \in 1..k + 1 |-> entry2(i)]
            e == <<p, made[p]>>
<1>6. idealLines = s /\ idealLines' = t
  <2>1. (2 * k) \div 2 = k /\ (2 * (k + 1)) \div 2 = k + 1
    OBVIOUS
  <2>. QED BY <1>4, <1>5, <2>1 DEF idealLines
<1>7. \A i \in 1..k : entry2(i) = entry(i)
  BY <1>5
<1>8. entry2(k + 1) = e
  <2>1. 2 * (k + 1) = 2 * k + 2
    OBVIOUS
  <2>. QED BY <1>5, <2>1
<1>. DEFINE S == {entry(i) : i \in 1..k} \cup {e}
<1>9. /\ s \in Seq(S) /\ Len(s) = k /\ e \in S
      /\ t \in Seq(S) /\ Len(t) = k + 1
  <2>1. s \in [1..k -> S] /\ t \in [1..k + 1 -> S] /\ e \in S
    BY <1>7, <1>8
  <2>. HIDE DEF s, t, S
  <2>. QED BY <2>1
<1>10. t = Append(s, e)
  <2>1. \A i \in 1..k : s[i] = t[i]
    BY <1>7
  <2>2. t[k + 1] = e
    BY <1>8
  <2>. HIDE DEF s, t, e, S
  <2>3. /\ Append(s, e) \in Seq(S) /\ Len(Append(s, e)) = k + 1
        /\ \A i \in 1..k : Append(s, e)[i] = s[i]
        /\ Append(s, e)[k + 1] = e
    BY <1>9, AppendProperties
  <2>4. \A i \in 1..k + 1 : t[i] = Append(s, e)[i]
    BY <2>1, <2>2, <2>3
  <2>. QED BY <1>9, <2>3, <2>4, SeqEqual
<1>. QED BY <1>1, <1>2, <1>6, <1>10 DEF Ideal!Log, e

LEMMA StepRefines ==
    ASSUME Terminal, RInv, [Next]_vars
    PROVE  [Ideal!Next]_Ideal!vars
<1>1. ASSUME UNCHANGED vars PROVE UNCHANGED Ideal!vars
  BY <1>1, Quiet DEF vars, output, Ideal!vars, idealAlive, idealDue, Running
<1>2. First \in Proc /\ TypeOK
  BY LoggerAssumption DEF RInv, TypeInv
<1>. QED BY <1>1, <1>2, NextCases, LaunchRefines, ForkRefines, CallRefines, EndRefines,
            ExecRefines, LogRefines DEF Ideal!Next

\* On a terminal, if the program leaves alone the descriptor of the log, every
\* call is in the log, once, when the process goes on: over forks, execs and
\* sudden ends.
THEOREM TheIdealLogIsKept ==
    ASSUME Terminal, LeftAlone
    PROVE  Spec => ImplementsIdealLog
<1>1. Init => RInv
  BY InitTypeInv, InitTerminalInv DEF RInv, NeverCut, Init
<1>2. RInv /\ [Next]_vars => RInv'
  BY TypeInvIsInductive, TerminalInvIsInductive, NeverCutIsInductive DEF RInv
<1>3. Init => Ideal!Init
  BY InitRefines
<1>4. RInv /\ [Next]_vars => [Ideal!Next]_Ideal!vars
  BY StepRefines
<1>. QED BY <1>1, <1>2, <1>3, <1>4, PTL DEF Spec, ImplementsIdealLog, Ideal!Spec
=============================================================================
