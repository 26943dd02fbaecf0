---------------------------- MODULE LoggerProofs ----------------------------
(* What reaches the log, for any number of processes, descriptors, files    *)
(* and calls, and buffers of any size.                                      *)
EXTENDS Logger, WellFoundedInduction, SequenceTheorems, TLAPS

(***************************************************************************)
(* Held relates the descriptor of the log to what the processes have done  *)
(* with it: a running process has it exactly if it has not closed it, and  *)
(* every stream writes to it.  A process that is yet to be born has no     *)
(* history, and one that has ended has no stream.                          *)
(***************************************************************************)
Held ==
    /\ \A p \in Proc :
         status[p] = "launcher" =>
            /\ p = First /\ target = "none" /\ own[p] = Standard
            /\ fds[p] = [fd \in Fds |-> IF fd \in Standard THEN "stderr" ELSE Closed]
    /\ \A p \in Proc :
         status[p] \in {"unborn", "launcher"} =>
            made[p] = 0 /\ image[p] = 0 /\ ~logging[p] /\ p \notin cut
    /\ \A p \in Proc :
         Running(p) => target # "none" /\ (p \notin cut <=> fds[p][output_fd] = target)
    /\ \A p \in Proc :
         ~Running(p) => /\ output_file[p] = NoFile /\ ~logging[p]
                        /\ own[p] \subseteq Standard
    /\ \A p \in Proc :
         IF output_file[p].open THEN output_file[p].fd = output_fd
                                ELSE output_file[p].buf = <<>>

TypeInv == TypeOK /\ Held

(***************************************************************************)
(* What the log will hold if p flushes its stream next.                    *)
(***************************************************************************)
Pending(p) == written \o output_file[p].buf

\* Both units of the line are there, in this order.
Within(s, p, n) ==
    \E i, j \in DOMAIN s : i < j /\ s[i] = <<p, n, 1>> /\ s[j] = <<p, n, 2>>

\* No line of p appears before the line about the call before it.
Preceded(s, p, n) ==
    \A i \in DOMAIN s :
        s[i] = <<p, n + 1, 1>> => \E j \in DOMAIN s : j < i /\ s[j] = <<p, n, 1>>

\* The calls of each process that are over.
logged == [p \in Proc |-> IF logging[p] THEN made[p] - 1 ELSE made[p]]

(***************************************************************************)
(* A sequence of units is sound if it is about calls that are over, each   *)
(* after the one before it in the same image.  The log is sound, and stays *)
(* so whoever flushes next; a process that has not closed the log's        *)
(* descriptor still has every line of its image, in the log or in its      *)
(* buffer.                                                                 *)
(***************************************************************************)
Sound(s, from, done) ==
    /\ \A i \in DOMAIN s : s[i][2] <= done[s[i][1]]
    /\ \A p \in Proc : \A n \in (from[p] + 1)..(done[p] - 1) : Preceded(s, p, n)

Complete(p) == \A n \in (image[p] + 1)..logged[p] : Within(Pending(p), p, n)

LinesInv ==
    /\ Sound(written, image, logged)
    /\ \A p \in Proc \ cut :
         /\ Sound(Pending(p), image, logged)
         /\ status[p] \in {"running", "exited"} => Complete(p)
    /\ \A p \in Proc : image[p] <= logged[p]

IInv == TypeInv /\ LinesInv /\ OnlyTheTarget

-----------------------------------------------------------------------------
(* The steps *)

LEMMA MinFacts ==
    ASSUME NEW S \in SUBSET Nat, S # {}
    PROVE  Min(S) \in S
<1>1. PICK x \in S : \A y \in S : <<y, x>> \notin OpToRel(<, Nat)
  BY NatLessThanWellFounded, WFMin
<1>2. ASSUME NEW y \in S PROVE x <= y
  <2>1. <<y, x>> \notin {ss \in Nat \X Nat : ss[1] < ss[2]}
    BY <1>1 DEF OpToRel
  <2>2. <<y, x>> \in Nat \X Nat
    OBVIOUS
  <2>. QED BY <2>1, <2>2
<1>. QED BY <1>2 DEF Min

\* What a monitored call that does not crash does to the descriptors.
Handles(p) ==
    \/ \E d \in File \cup {"tmp"} : Acquire(p, d)
    \/ \E fd \in Fds :
         /\ fds' = [fds EXCEPT ![p][fd] = Closed]
         /\ own' = [own EXCEPT ![p] = @ \ {fd}]
         /\ cut' = IF fd = output_fd /\ fd \notin own[p] THEN cut \cup {p} ELSE cut
    \/ UNCHANGED descriptors

Called(p) ==
    /\ Call(p) /\ Handles(p)
    /\ mode \in [File -> {"absent"} \cup OpenModes] =>
         mode' \in [File -> {"absent"} \cup OpenModes]

Ended(p) ==
    /\ status[p] \in {"launcher", "running"}
    /\ \E how \in {"failed", "crashed", "aborted"} : End(p, how)
    /\ UNCHANGED output

\* The steps of a monitored call are alike.
LEMMA CallCases ==
    ASSUME NEW p \in Proc, MonitoredCall(p)
    PROVE  Called(p) \/ Ended(p)
<1>1. ASSUME NEW f \in File, Open(p, f) \/ Creat(p, f) \/ Fopen(p, f)
      PROVE  Called(p)
  BY <1>1 DEF Open, Creat, Fopen, Called, Handles, OpenModes
<1>2. ASSUME NEW f \in File, Remove(p, f)
      PROVE  Called(p)
  BY <1>2 DEF Remove, Called, Handles
<1>3. ASSUME NEW fd \in Fds, Close(p, fd) \/ Fclose(p, fd)
      PROVE  Called(p)
  BY <1>3 DEF Close, Fclose, Release, Called, Handles
<1>4. ASSUME Tmpfile(p)
      PROVE  Called(p) \/ Ended(p)
  BY <1>4 DEF Tmpfile, Called, Handles, Ended, Crash, Running
<1>5. ASSUME Transfer(p) \/ Read(p)
      PROVE  Called(p) \/ Ended(p)
  BY <1>5 DEF Transfer, Read, Called, Handles, Ended, Crash, Running
<1>. QED BY <1>1, <1>2, <1>3, <1>4, <1>5 DEF MonitoredCall

LEMMA NextCases ==
    ASSUME TypeOK, [Next]_vars
    PROVE  \/ \E t \in Targets : Launch(t)
           \/ \E p \in Proc : Ended(p) \/ Called(p) \/ Log(p) \/ Exec(p) \/ Exit(p)
           \/ \E p, q \in Proc : Fork(p, q)
           \/ UNCHANGED vars
<1>1. ASSUME LaunchFails PROVE Ended(First)
  BY <1>1 DEF LaunchFails, Ended
<1>2. ASSUME NEW p \in Proc, LogFails(p) \/ Abort(p) PROVE Ended(p)
  BY <1>2 DEF LogFails, Crash, Abort, Ended, Running
<1>3. ASSUME Over PROVE UNCHANGED vars
  BY <1>3 DEF Over
<1>. QED BY <1>1, <1>2, <1>3, CallCases, LoggerAssumption DEF Next

-----------------------------------------------------------------------------
(* The descriptor of the log *)

\* Sequences of units are what the stream keeps and writes.
LEMMA BufferFacts ==
    ASSUME TypeInv, NEW p \in Proc
    PROVE  /\ GetOutputFile(p) \in Stream /\ GetOutputFile(p).open
           /\ Line(p, made[p]) \in Seq(Unit) /\ Len(Line(p, made[p])) = 2
           /\ Buffered(p) \in Seq(Unit)
           /\ Len(Buffered(p)) = Len(GetOutputFile(p).buf) + 2
           /\ Len(GetOutputFile(p).buf) <= BufSize
           /\ GetOutputFile(p).buf = output_file[p].buf
           /\ GetOutputFile(p).fd = output_fd
<1>1. output_file[p] \in Stream /\ output_fd \in Fds /\ made[p] \in Nat
      /\ Len(output_file[p].buf) <= BufSize
  BY LoggerAssumption DEF TypeInv, TypeOK
<1>2. output_file[p].buf \in Seq(Unit) /\ Len(<<>>) = 0 /\ <<>> \in Seq(Unit)
  BY <1>1 DEF Stream
<1>3. /\ GetOutputFile(p) \in Stream /\ GetOutputFile(p).open
      /\ GetOutputFile(p).buf = output_file[p].buf /\ GetOutputFile(p).fd = output_fd
  BY <1>1, <1>2 DEF GetOutputFile, LineBuffered, Stream, TypeInv, Held
<1>4. Line(p, made[p]) \in Seq(Unit) /\ Len(Line(p, made[p])) = 2
  BY <1>1 DEF Line, Unit
<1>. HIDE DEF Line, Unit
<1>5. Buffered(p) = output_file[p].buf \o Line(p, made[p])
  BY <1>3 DEF Buffered
<1>6. Buffered(p) \in Seq(Unit) /\ Len(Buffered(p)) = Len(output_file[p].buf) + 2
  <2>. DEFINE s == output_file[p].buf
              t == Line(p, made[p])
  <2>. HIDE DEF s, t
  <2>1. s \in Seq(Unit) /\ t \in Seq(Unit) /\ Len(t) = 2 /\ Buffered(p) = s \o t
    BY <1>2, <1>4, <1>5 DEF s, t
  <2>2. s \o t \in Seq(Unit) /\ Len(s \o t) = Len(s) + Len(t)
    BY <2>1, ConcatProperties
  <2>. QED BY <2>1, <2>2 DEF s
<1>. QED BY <1>1, <1>3, <1>4, <1>6

LEMMA FlushFacts ==
    ASSUME TypeInv, NEW p \in Proc
    PROVE  LET n == Flushed(p) IN
           /\ n \in 0..Len(Buffered(p)) /\ Len(Buffered(p)) - n \in 0..BufSize
           /\ SubSeq(Buffered(p), 1, n) \in Seq(Unit)
           /\ SubSeq(Buffered(p), n + 1, Len(Buffered(p))) \in Seq(Unit)
           /\ Len(SubSeq(Buffered(p), n + 1, Len(Buffered(p)))) <= BufSize
           /\ SubSeq(Buffered(p), 1, n) \o SubSeq(Buffered(p), n + 1, Len(Buffered(p)))
                = Buffered(p)
<1>. DEFINE n == Flushed(p)
            b == Buffered(p)
<1>1. b \in Seq(Unit) /\ Len(b) \in Nat /\ Len(b) <= BufSize + 2
  BY BufferFacts, LenProperties, LoggerAssumption DEF Stream
<1>2. n \in 0..Len(b) /\ Len(b) - n \in 0..BufSize
  BY <1>1, LoggerAssumption DEF Flushed
<1>. HIDE DEF n, b, Unit
<1>3. \A i \in 1..Len(b) : b[i] \in Unit
  BY <1>1, ElementOfSeq
<1>4. SubSeq(b, 1, n) \in Seq(Unit)
  BY <1>2, <1>3, <1>1, SubSeqProperties
<1>5. SubSeq(b, n + 1, Len(b)) \in Seq(Unit) /\ Len(SubSeq(b, n + 1, Len(b))) <= BufSize
  BY <1>2, <1>3, <1>1, SubSeqProperties, LoggerAssumption
<1>6. SubSeq(b, 1, n) \o SubSeq(b, n + 1, Len(b)) = SubSeq(b, 1, Len(b))
  <2>1. 1 \in 1..Len(b) + 1 /\ n \in (1 - 1)..Len(b) /\ Len(b) \in n..Len(b)
    BY <1>1, <1>2
  <2>. QED BY <1>1, <2>1, ConcatAdjacentSubSeq
<1>7. SubSeq(b, 1, Len(b)) = b
  BY <1>1, SubSeqFull
<1>. QED BY <1>2, <1>4, <1>5, <1>6, <1>7 DEF n, b

\* A stream reaches the log if its process has not closed the descriptor, and
\* nothing else then; it never does otherwise.
LEMMA EmitFacts ==
    ASSUME TypeInv, NEW p \in Proc, Running(p), NEW units \in Seq(Unit),
           Emit(p, written, units)
    PROVE  /\ written' \in Seq(Unit) /\ stray' \in Seq(Unit)
           /\ p \notin cut => written' = written \o units /\ stray' = stray
           /\ p \in cut => written' = written
<1>1. /\ written \in Seq(Unit) /\ stray \in Seq(Unit)
      /\ p \notin cut <=> fds[p][output_fd] = target
  BY DEF TypeInv, TypeOK, Held
<1>2. GetOutputFile(p).fd = output_fd
  BY BufferFacts
<1>. HIDE DEF Unit
<1>3. written \o units \in Seq(Unit) /\ stray \o units \in Seq(Unit)
  BY <1>1, ConcatProperties
<1>. QED BY <1>1, <1>2, <1>3 DEF Emit

LEMMA InitTypeInv ==
    ASSUME Init
    PROVE  TypeInv
<1>. USE LoggerAssumption
<1>1. NoFile \in Stream /\ ~NoFile.open /\ NoFile.buf = <<>> /\ Len(NoFile.buf) = 0
  BY DEF NoFile, Stream, Fds
<1>2. /\ fds \in [Proc -> [Fds -> Descriptions \cup {Closed}]] /\ Standard \subseteq Fds
  BY DEF Init, Fds, Standard, Descriptions, Closed
<1>3. /\ output_file \in [Proc -> Stream]
      /\ \A p \in Proc : Len(output_file[p].buf) <= BufSize
  BY <1>1 DEF Init
<1>4. TypeOK
  BY <1>2, <1>3 DEF Init, TypeOK, Fds, OpenModes
<1>5. \A p \in Proc : output_file[p] = NoFile
  BY DEF Init
<1>6. Held
  BY <1>1, <1>2, <1>5 DEF Init, Held, Running
<1>. QED BY <1>4, <1>6 DEF TypeInv

\* The duplicate is a free descriptor of its own, and the program does not
\* know of it.
LEMMA LaunchKeepsType ==
    ASSUME TypeInv, NEW t \in Targets, Launch(t)
    PROVE  TypeInv'
<1>. USE LoggerAssumption
<1>1. /\ status[First] = "launcher" /\ target = "none" /\ own[First] = Standard
      /\ fds[First] = [fd \in Fds |-> IF fd \in Standard THEN "stderr" ELSE Closed]
  BY DEF Launch, TypeInv, Held
<1>2. Free(First) = Fds \ Standard
  BY <1>1 DEF Free, Closed
<1>3. Output(t) \in Fds /\ (Output(t) = 2 \/ Output(t) \in Free(First))
  <2>1. 3 \in Free(First) /\ Free(First) \in SUBSET Nat
    BY <1>2 DEF Fds, Standard
  <2>2. Min(Free(First)) \in Free(First)
    BY <2>1, MinFacts
  <2>. QED BY <1>2, <2>2 DEF Output, Fds
<1>4. Dup(t) \in Fds \ Standard /\ Dup(t) # Output(t)
  <2>1. Free(First) \ {Output(t)} \in SUBSET Nat /\ Free(First) \ {Output(t)} # {}
    <3>1. {3, 4} \subseteq Free(First) /\ Free(First) \subseteq Nat
      BY <1>2 DEF Fds, Standard
    <3>. QED BY <3>1
  <2>2. Dup(t) \in Free(First) \ {Output(t)}
    BY <2>1, MinFacts DEF Dup
  <2>. QED BY <1>2, <2>2
<1>5. /\ fds' = [fds EXCEPT ![First] = [fds[First] EXCEPT ![Output(t)] = t, ![Dup(t)] = t]]
      /\ output_fd' = Dup(t) /\ target' = t
      /\ status' = [status EXCEPT ![First] = "running"]
      /\ UNCHANGED <<own, cut, output_file, logging, made, image, mode, output>>
  BY DEF Launch
<1>6. fds' \in [Proc -> [Fds -> Descriptions \cup {Closed}]] /\ fds'[First][Dup(t)] = t
  BY <1>3, <1>4, <1>5 DEF TypeInv, TypeOK, Descriptions
<1>7. \A p \in Proc : status[p] = "launcher" => p = First
  BY DEF TypeInv, Held
<1>8. \A p \in Proc : ~Running(p)
  BY <1>1 DEF TypeInv, Held, Running
<1>9. \A p \in Proc : output_file[p] = NoFile /\ ~logging[p]
  BY <1>8 DEF TypeInv, Held
<1>10. \A p \in Proc : p \notin cut => Dup(t) \notin own[p]
  BY <1>4, <1>8 DEF TypeInv, Held
<1>11. TypeOK'
  BY <1>4, <1>5, <1>6, <1>10 DEF TypeInv, TypeOK, output
<1>12. Held'
  <2>1. \A p \in Proc : status'[p] # "launcher"
    BY <1>5, <1>7 DEF TypeInv, TypeOK
  <2>2. \A p \in Proc : status'[p] = "running" <=> p = First
    BY <1>1, <1>5, <1>8 DEF TypeInv, TypeOK, Running
  <2>3. First \notin cut /\ t # "none"
    BY <1>1 DEF TypeInv, Held
  <2>4. \A p \in Proc : status'[p] = "unborn" => status[p] = "unborn"
    BY <1>5 DEF TypeInv, TypeOK
  <2>5. \A p \in Proc : ~output_file[p].open /\ output_file[p].buf = <<>>
    BY <1>9 DEF NoFile
  <2>. QED BY <1>5, <1>6, <1>9, <2>1, <2>2, <2>3, <2>4, <2>5
            DEF TypeInv, Held, Running, output
<1>. QED BY <1>11, <1>12 DEF TypeInv

LEMMA CallKeepsType ==
    ASSUME TypeInv, NEW p \in Proc, Called(p)
    PROVE  TypeInv'
<1>. USE LoggerAssumption
<1>1. /\ Running(p) /\ ~logging[p] /\ made[p] < MaxCalls
      /\ made' = [made EXCEPT ![p] = @ + 1]
      /\ logging' = [logging EXCEPT ![p] = TRUE]
      /\ UNCHANGED <<status, output_file, image, output_fd, target, written, stray>>
  BY DEF Called, Call, environment, output
<1>2. /\ target # "none" /\ target \in {"stderr", "output"} /\ output_fd \in Fds
      /\ p \notin cut <=> fds[p][output_fd] = target
      /\ p \notin cut => output_fd \notin own[p]
  BY <1>1 DEF TypeInv, TypeOK, Held
<1>3. /\ fds' \in [Proc -> [Fds -> Descriptions \cup {Closed}]]
      /\ own' \in [Proc -> SUBSET Fds] /\ cut' \subseteq Proc
      /\ \A q \in Proc \ {p} : fds'[q] = fds[q] /\ own'[q] = own[q]
      /\ \A q \in Proc \ {p} : q \in cut' <=> q \in cut
      /\ p \notin cut' <=> fds'[p][output_fd] = target
      /\ p \notin cut' => output_fd \notin own'[p]
  <2>1. ASSUME NEW d \in File \cup {"tmp"}, Acquire(p, d), Free(p) # {}
        PROVE  <1>3
    <3>1. Min(Free(p)) \in Free(p)
      BY <2>1, MinFacts DEF Free, Fds
    <3>. DEFINE fd == Min(Free(p))
    <3>. HIDE DEF fd
    <3>2. /\ fd \in Fds /\ fds[p][fd] = Closed
          /\ fds' = [fds EXCEPT ![p][fd] = d]
          /\ own' = [own EXCEPT ![p] = @ \cup {fd}] /\ cut' = cut
      BY <2>1, <3>1 DEF Acquire, Free, fd
    <3>3. d # target /\ d \in Descriptions /\ Closed # target
      BY <1>2 DEF Descriptions, Closed
    <3>. QED BY <1>2, <3>2, <3>3 DEF TypeInv, TypeOK
  <2>2. ASSUME NEW fd \in Fds, fds' = [fds EXCEPT ![p][fd] = Closed],
               own' = [own EXCEPT ![p] = @ \ {fd}],
               cut' = IF fd = output_fd /\ fd \notin own[p] THEN cut \cup {p} ELSE cut
        PROVE  <1>3
    <3>1. Closed # target
      BY <1>2 DEF Closed
    <3>. QED BY <1>2, <2>2, <3>1 DEF TypeInv, TypeOK
  <2>3. ASSUME UNCHANGED descriptors
        PROVE  <1>3
    BY <1>2, <2>3 DEF descriptors, TypeInv, TypeOK
  <2>. QED BY <2>1, <2>2, <2>3 DEF Called, Handles, Acquire
<1>4. mode' \in [File -> {"absent"} \cup OpenModes]
  BY DEF Called, TypeInv, TypeOK
<1>5. made' \in [Proc -> 0..MaxCalls] /\ logging' \in [Proc -> BOOLEAN]
  BY <1>1 DEF TypeInv, TypeOK
<1>6. TypeOK'
  BY <1>1, <1>3, <1>4, <1>5 DEF TypeInv, TypeOK
<1>7. Held'
  <2>1. \A q \in Proc : ~Running(q) => /\ q # p /\ made'[q] = made[q]
                                       /\ logging'[q] = logging[q]
    BY <1>1 DEF TypeInv, TypeOK
  <2>2. \A q \in Proc : status[q] \in {"unborn", "launcher"} => ~Running(q)
    BY DEF Running
  <2>. QED BY <1>1, <1>3, <2>1, <2>2 DEF TypeInv, Held, Running
<1>. QED BY <1>6, <1>7 DEF TypeInv

\* The end of a process, whatever it has written before.
LEMMA EndKeepsType ==
    ASSUME TypeInv, NEW p \in Proc, NEW how \in {"failed", "exited", "aborted", "crashed"},
           End(p, how), written' \in Seq(Unit), stray' \in Seq(Unit)
    PROVE  TypeInv'
<1>. USE LoggerAssumption
<1>1. /\ status' = [status EXCEPT ![p] = how]
      /\ logging' = [logging EXCEPT ![p] = FALSE]
      /\ output_file' = [output_file EXCEPT ![p] = NoFile]
      /\ fds' = [fds EXCEPT ![p] = AllClosed] /\ own' = [own EXCEPT ![p] = {}]
      /\ UNCHANGED <<made, image, mode, output_fd, target, cut>>
  BY DEF End, environment
<1>2. NoFile \in Stream /\ ~NoFile.open /\ NoFile.buf = <<>> /\ Len(NoFile.buf) = 0
  BY DEF NoFile, Stream, Fds
<1>3. AllClosed \in [Fds -> Descriptions \cup {Closed}]
  BY DEF AllClosed
<1>4. TypeOK'
  BY <1>1, <1>2, <1>3 DEF TypeInv, TypeOK
<1>5. \A q \in Proc : \/ q = p /\ status'[q] = how
                      \/ q # p /\ status'[q] = status[q] /\ fds'[q] = fds[q]
                         /\ own'[q] = own[q] /\ output_file'[q] = output_file[q]
                         /\ logging'[q] = logging[q]
  BY <1>1 DEF TypeInv, TypeOK
<1>6. /\ output_file'[p] = NoFile /\ ~logging'[p] /\ own'[p] = {}
  BY <1>1 DEF TypeInv, TypeOK
<1>7. Held'
  <2>1. \A q \in Proc : /\ status'[q] \in {"unborn", "launcher", "running"} =>
                             q # p /\ status'[q] = status[q]
                        /\ ~Running(q)' => q = p \/ ~Running(q)
    BY <1>5 DEF Running
  <2>2. \A q \in Proc :
           status'[q] = "launcher" =>
              /\ q = First /\ target' = "none" /\ own'[q] = Standard
              /\ fds'[q] = [fd \in Fds |-> IF fd \in Standard THEN "stderr" ELSE Closed]
    BY <1>1, <1>5, <2>1 DEF TypeInv, Held
  <2>3. \A q \in Proc : status'[q] \in {"unborn", "launcher"} =>
            made'[q] = 0 /\ image'[q] = 0 /\ ~logging'[q] /\ q \notin cut'
    BY <1>1, <1>5, <2>1 DEF TypeInv, Held
  <2>4. \A q \in Proc : Running(q)' =>
            target' # "none" /\ (q \notin cut' <=> fds'[q][output_fd'] = target')
    BY <1>1, <1>5, <2>1 DEF TypeInv, Held, Running
  <2>5. \A q \in Proc :
           ~Running(q)' => output_file'[q] = NoFile /\ ~logging'[q] /\ own'[q] \subseteq Standard
    BY <1>5, <1>6, <2>1 DEF TypeInv, Held
  <2>6. \A q \in Proc : IF output_file'[q].open THEN output_file'[q].fd = output_fd'
                                                ELSE output_file'[q].buf = <<>>
    BY <1>1, <1>2, <1>5, <1>6 DEF TypeInv, Held
  <2>. QED BY <2>2, <2>3, <2>4, <2>5, <2>6 DEF Held
<1>. QED BY <1>4, <1>7 DEF TypeInv

LEMMA LogKeepsType ==
    ASSUME TypeInv, NEW p \in Proc, Log(p)
    PROVE  TypeInv'
<1>. USE LoggerAssumption
<1>. DEFINE g == GetOutputFile(p)
            rest == SubSeq(Buffered(p), Flushed(p) + 1, Len(Buffered(p)))
            s == [g EXCEPT !.buf = rest]
<1>1. /\ Running(p) /\ output_file' = [output_file EXCEPT ![p] = s]
      /\ logging' = [logging EXCEPT ![p] = FALSE]
      /\ UNCHANGED <<status, made, image, mode, output_fd, target, fds, own, cut>>
  BY DEF Log, environment, descriptors
<1>2. written' \in Seq(Unit) /\ stray' \in Seq(Unit)
  BY <1>1, FlushFacts, EmitFacts DEF Log, OpenedTarget
<1>3. g \in Stream /\ g.open /\ g.fd = output_fd
  BY BufferFacts
<1>4. rest \in Seq(Unit) /\ Len(rest) <= BufSize
  BY FlushFacts
<1>. HIDE DEF g, rest
<1>5. s \in Stream /\ s.open /\ s.fd = output_fd /\ s.buf = rest
  BY <1>3, <1>4 DEF Stream
<1>. HIDE DEF s
<1>6. TypeOK'
  BY <1>1, <1>2, <1>4, <1>5 DEF TypeInv, TypeOK
<1>7. Held'
  <2>1. \A q \in Proc : \/ q = p /\ output_file'[q] = s /\ Running(q)
                        \/ q # p /\ output_file'[q] = output_file[q]
                           /\ logging'[q] = logging[q]
    BY <1>1 DEF TypeInv, TypeOK
  <2>2. \A q \in Proc : status[q] \in {"unborn", "launcher"} => ~Running(q)
    BY DEF Running
  <2>. QED BY <1>1, <1>5, <2>1, <2>2 DEF TypeInv, Held, Running
<1>. QED BY <1>6, <1>7 DEF TypeInv

LEMMA ForkKeepsType ==
    ASSUME TypeInv, NEW p \in Proc, NEW q \in Proc, Fork(p, q)
    PROVE  TypeInv'
<1>1. /\ Running(p) /\ ~logging[p] /\ status[q] = "unborn" /\ p # q
      /\ status' = [status EXCEPT ![q] = "running"]
      /\ fds' = [fds EXCEPT ![q] = fds[p]]
      /\ own' = [own EXCEPT ![q] = own[p]]
      /\ cut' = IF p \in cut THEN cut \cup {q} ELSE cut
      /\ output_file' = [output_file EXCEPT ![q] = output_file[p]]
      /\ UNCHANGED <<logging, made, image, mode, output_fd, target, written, stray>>
  BY DEF Fork, Running, environment, output
<1>2. q \notin cut
  BY <1>1 DEF TypeInv, Held
<1>3. TypeOK'
  BY <1>1, <1>2 DEF TypeInv, TypeOK
<1>4. \A r \in Proc : /\ r # q => /\ status'[r] = status[r] /\ fds'[r] = fds[r]
                                  /\ own'[r] = own[r] /\ output_file'[r] = output_file[r]
                      /\ r # q => (r \in cut' <=> r \in cut)
  BY <1>1 DEF TypeInv, TypeOK
<1>5. /\ status'[q] = "running" /\ fds'[q] = fds[p] /\ output_file'[q] = output_file[p]
      /\ q \in cut' <=> p \in cut
  BY <1>1, <1>2 DEF TypeInv, TypeOK
<1>6. Held'
  BY <1>1, <1>4, <1>5 DEF TypeInv, Held, Running
<1>. QED BY <1>3, <1>6 DEF TypeInv

LEMMA ExecKeepsType ==
    ASSUME TypeInv, NEW p \in Proc, Exec(p)
    PROVE  TypeInv'
<1>1. /\ Running(p)
      /\ output_file' = [output_file EXCEPT ![p] = NoFile]
      /\ image' = [image EXCEPT ![p] = made[p]]
      /\ UNCHANGED <<status, logging, made, mode, output_fd, target, fds, own, cut,
                     written, stray>>
  BY DEF Exec, environment, descriptors, output
<1>2. NoFile \in Stream /\ ~NoFile.open /\ NoFile.buf = <<>> /\ Len(NoFile.buf) = 0
  BY LoggerAssumption DEF NoFile, Stream, Fds
<1>3. TypeOK'
  BY <1>1, <1>2, LoggerAssumption DEF TypeInv, TypeOK
<1>4. \A q \in Proc : \/ q = p
                      \/ output_file'[q] = output_file[q] /\ image'[q] = image[q]
  BY <1>1 DEF TypeInv, TypeOK
<1>5. output_file'[p] = NoFile /\ status[p] \notin {"unborn", "launcher"}
  BY <1>1 DEF TypeInv, TypeOK, Running
<1>6. Held'
  BY <1>1, <1>2, <1>4, <1>5 DEF TypeInv, Held, Running
<1>. QED BY <1>3, <1>6 DEF TypeInv

LEMMA TypeInvIsInductive ==
    ASSUME TypeInv, [Next]_vars
    PROVE  TypeInv'
<1>1. ASSUME NEW p \in Proc, Ended(p) PROVE TypeInv'
  <2>1. written' \in Seq(Unit) /\ stray' \in Seq(Unit)
    BY <1>1 DEF Ended, output, TypeInv, TypeOK
  <2>. QED BY <1>1, <2>1, EndKeepsType DEF Ended
<1>2. ASSUME NEW p \in Proc, Exit(p) PROVE TypeInv'
  <2>1. output_file[p].buf \in Seq(Unit)
    BY DEF TypeInv, TypeOK, Stream
  <2>2. written' \in Seq(Unit) /\ stray' \in Seq(Unit)
    BY <1>2, <2>1, EmitFacts DEF Exit, output, TypeInv, TypeOK
  <2>. QED BY <1>2, <2>2, EndKeepsType DEF Exit
<1>3. ASSUME UNCHANGED vars PROVE TypeInv'
  BY <1>3 DEF vars, environment, descriptors, output, TypeInv, TypeOK, Held, Running
<1>. QED BY <1>1, <1>2, <1>3, NextCases, LaunchKeepsType, CallKeepsType, LogKeepsType,
            ForkKeepsType, ExecKeepsType DEF TypeInv

\* The logger is typed: in particular, what a stream keeps fits into its
\* buffer, and no process owns the log's descriptor that has not closed it.
THEOREM LoggerTypeCorrect == Spec => []TypeOK
<1>1. Init => TypeInv
  BY InitTypeInv
<1>2. TypeInv /\ [Next]_vars => TypeInv'
  BY TypeInvIsInductive
<1>3. TypeInv => TypeOK
  BY DEF TypeInv
<1>. QED BY <1>1, <1>2, <1>3, PTL DEF Spec

-----------------------------------------------------------------------------
(* Sequences of units *)

LEMMA ConcatFacts ==
    ASSUME NEW S, NEW s \in Seq(S), NEW t \in Seq(S)
    PROVE  /\ s \o t \in Seq(S) /\ Len(s) \in Nat /\ Len(t) \in Nat
           /\ DOMAIN s = 1..Len(s) /\ DOMAIN t = 1..Len(t)
           /\ DOMAIN (s \o t) = 1..(Len(s) + Len(t))
           /\ \A i \in 1..Len(s) : (s \o t)[i] = s[i]
           /\ \A i \in 1..Len(t) : (s \o t)[Len(s) + i] = t[i]
           /\ \A i \in Len(s) + 1..Len(s) + Len(t) : (s \o t)[i] = t[i - Len(s)]
<1>1. /\ s \o t \in Seq(S) /\ Len(s \o t) = Len(s) + Len(t)
      /\ \A i \in 1..Len(s) + Len(t) :
            (s \o t)[i] = IF i <= Len(s) THEN s[i] ELSE t[i - Len(s)]
  BY ConcatProperties
<1>2. /\ Len(s) \in Nat /\ Len(t) \in Nat
      /\ DOMAIN s = 1..Len(s) /\ DOMAIN t = 1..Len(t)
  BY LenProperties
<1>3. DOMAIN (s \o t) = 1..Len(s \o t)
  BY <1>1, LenProperties
<1>. QED BY <1>1, <1>2, <1>3

\* Where the unit at i is once x has been written after s.
Shifted(s, x, i) == IF i <= Len(s) THEN i ELSE i + Len(x)

LEMMA ShiftFacts ==
    ASSUME NEW s \in Seq(Unit), NEW x \in Seq(Unit), NEW t \in Seq(Unit),
           NEW i \in DOMAIN (s \o t)
    PROVE  /\ Shifted(s, x, i) \in DOMAIN ((s \o x) \o t)
           /\ ((s \o x) \o t)[Shifted(s, x, i)] = (s \o t)[i]
           /\ \A j \in DOMAIN (s \o t) : j < i => Shifted(s, x, j) < Shifted(s, x, i)
<1>. HIDE DEF Unit
<1>. DEFINE u == (s \o x) \o t
            at == Shifted(s, x, i)
<1>1. s \o x \in Seq(Unit)
  BY ConcatFacts
<1>2. /\ Len(s) \in Nat /\ Len(t) \in Nat /\ Len(x) \in Nat
      /\ Len(s \o x) = Len(s) + Len(x)
  BY ConcatProperties, LenProperties
<1>3. i \in 1..Len(s) + Len(t) /\ DOMAIN (s \o t) \subseteq Nat
  BY ConcatFacts
<1>4. at \in DOMAIN u /\ u[at] = (s \o t)[i]
  <2>1. CASE i <= Len(s)
    <3>1. /\ i \in 1..Len(s \o x) /\ i \in 1..Len(s)
          /\ i \in 1..Len(s \o x) + Len(t)
      BY <1>2, <1>3, <2>1
    <3>2. u[i] = (s \o x)[i] /\ (s \o x)[i] = s[i] /\ (s \o t)[i] = s[i]
      BY <1>1, <3>1, ConcatFacts
    <3>. QED BY <1>1, <2>1, <3>1, <3>2, ConcatFacts DEF Shifted
  <2>2. CASE i > Len(s)
    <3>. DEFINE j == i - Len(s)
    <3>1. j \in 1..Len(t) /\ i = Len(s) + j /\ at = Len(s \o x) + j
      BY <1>2, <1>3, <2>2 DEF Shifted
    <3>. HIDE DEF j, at
    <3>2. u[at] = t[j] /\ (s \o t)[i] = t[j]
      BY <1>1, <3>1, ConcatFacts
    <3>3. at \in 1..Len(s \o x) + Len(t)
      BY <1>2, <3>1
    <3>. QED BY <1>1, <3>2, <3>3, ConcatFacts
  <2>. QED BY <1>2, <1>3, <2>1, <2>2
<1>5. \A j \in DOMAIN (s \o t) : j < i => Shifted(s, x, j) < at
  BY <1>2, <1>3 DEF Shifted
<1>. QED BY <1>4, <1>5

\* What is written in between takes nothing away.
LEMMA WithinExtends ==
    ASSUME NEW s \in Seq(Unit), NEW x \in Seq(Unit), NEW t \in Seq(Unit), NEW p, NEW n,
           Within(s \o t, p, n)
    PROVE  Within((s \o x) \o t, p, n)
<1>. HIDE DEF Unit
<1>1. PICK i, j \in DOMAIN (s \o t) :
         i < j /\ (s \o t)[i] = <<p, n, 1>> /\ (s \o t)[j] = <<p, n, 2>>
  BY DEF Within
<1>2. /\ Shifted(s, x, i) \in DOMAIN ((s \o x) \o t)
      /\ Shifted(s, x, j) \in DOMAIN ((s \o x) \o t)
      /\ ((s \o x) \o t)[Shifted(s, x, i)] = <<p, n, 1>>
      /\ ((s \o x) \o t)[Shifted(s, x, j)] = <<p, n, 2>>
      /\ Shifted(s, x, i) < Shifted(s, x, j)
  BY <1>1, ShiftFacts
<1>. QED BY <1>2 DEF Within

\* A unit of a concatenation is in one of its parts.
LEMMA PartFacts ==
    ASSUME NEW s \in Seq(Unit), NEW t \in Seq(Unit), NEW k \in DOMAIN (s \o t)
    PROVE  \/ k \in DOMAIN s /\ (s \o t)[k] = s[k]
           \/ \E m \in DOMAIN t : k = Len(s) + m /\ (s \o t)[k] = t[m]
<1>. HIDE DEF Unit
<1>1. k \in 1..Len(s) + Len(t) /\ Len(s) \in Nat /\ Len(t) \in Nat
  BY ConcatFacts
<1>2. CASE k <= Len(s)
  <2>1. k \in 1..Len(s)
    BY <1>1, <1>2
  <2>. QED BY <2>1, ConcatFacts
<1>3. CASE k > Len(s)
  <2>. DEFINE m == k - Len(s)
  <2>1. m \in 1..Len(t) /\ k = Len(s) + m
    BY <1>1, <1>3
  <2>. HIDE DEF m
  <2>2. m \in DOMAIN t /\ (s \o t)[k] = t[m]
    BY <2>1, ConcatFacts
  <2>. QED BY <2>1, <2>2
<1>. QED BY <1>1, <1>2, <1>3

\* The parts are where they were, and one behind the other.
LEMMA PlaceFacts ==
    ASSUME NEW s \in Seq(Unit), NEW t \in Seq(Unit)
    PROVE  /\ Len(s) \in Nat
           /\ \A k \in DOMAIN s :
                k \in DOMAIN (s \o t) /\ (s \o t)[k] = s[k] /\ k \in Nat /\ k <= Len(s)
           /\ \A m \in DOMAIN t :
                /\ Len(s) + m \in DOMAIN (s \o t) /\ (s \o t)[Len(s) + m] = t[m]
                /\ m \in Nat \ {0}
<1>. HIDE DEF Unit
<1>1. Len(s) \in Nat /\ Len(t) \in Nat /\ DOMAIN s = 1..Len(s) /\ DOMAIN t = 1..Len(t)
      /\ DOMAIN (s \o t) = 1..Len(s) + Len(t)
  BY ConcatFacts
<1>2. ASSUME NEW k \in DOMAIN s
      PROVE  k \in DOMAIN (s \o t) /\ (s \o t)[k] = s[k] /\ k \in Nat /\ k <= Len(s)
  BY <1>1, ConcatFacts
<1>3. ASSUME NEW m \in DOMAIN t
      PROVE  Len(s) + m \in DOMAIN (s \o t) /\ (s \o t)[Len(s) + m] = t[m] /\ m \in Nat \ {0}
  <2>1. Len(s) + m \in 1..Len(s) + Len(t) /\ m \in 1..Len(t)
    BY <1>1
  <2>. QED BY <1>1, <2>1, ConcatFacts
<1>. QED BY <1>1, <1>2, <1>3

LEMMA PrecededExtends ==
    ASSUME NEW s \in Seq(Unit), NEW x \in Seq(Unit), NEW t \in Seq(Unit), NEW p, NEW n,
           Preceded(s \o t, p, n), Preceded(s \o x, p, n)
    PROVE  Preceded((s \o x) \o t, p, n)
<1>. HIDE DEF Unit
<1>. DEFINE u == (s \o x) \o t
<1>1. s \o x \in Seq(Unit)
  BY ConcatFacts
<1>. SUFFICES ASSUME NEW k \in DOMAIN u, u[k] = <<p, n + 1, 1>>
              PROVE  \E j \in DOMAIN u : j < k /\ u[j] = <<p, n, 1>>
  BY DEF Preceded
<1>2. CASE k \in DOMAIN (s \o x) /\ u[k] = (s \o x)[k]
  <2>1. PICK j \in DOMAIN (s \o x) : j < k /\ (s \o x)[j] = <<p, n, 1>>
    BY <1>2 DEF Preceded
  <2>2. j \in DOMAIN u /\ u[j] = (s \o x)[j]
    BY <1>1, PlaceFacts
  <2>. QED BY <2>1, <2>2
<1>3. ASSUME NEW m \in DOMAIN t, k = Len(s \o x) + m, u[k] = t[m]
      PROVE  \E j \in DOMAIN u : j < k /\ u[j] = <<p, n, 1>>
  <2>. DEFINE i == Len(s) + m
  <2>1. i \in DOMAIN (s \o t) /\ (s \o t)[i] = <<p, n + 1, 1>>
    BY <1>3, PlaceFacts
  <2>2. Shifted(s, x, i) = k
    <3>1. Len(s) \in Nat /\ Len(x) \in Nat /\ Len(s \o x) = Len(s) + Len(x)
      BY ConcatProperties, LenProperties
    <3>2. m \in Nat \ {0}
      BY PlaceFacts
    <3>. QED BY <1>3, <3>1, <3>2 DEF Shifted
  <2>. HIDE DEF i
  <2>3. PICK j \in DOMAIN (s \o t) : j < i /\ (s \o t)[j] = <<p, n, 1>>
    BY <2>1 DEF Preceded
  <2>4. /\ Shifted(s, x, j) \in DOMAIN u /\ u[Shifted(s, x, j)] = <<p, n, 1>>
        /\ Shifted(s, x, j) < k
    BY <2>1, <2>2, <2>3, ShiftFacts
  <2>. QED BY <2>4
<1>. QED BY <1>1, <1>2, <1>3, PartFacts

\* A prefix of a sound sequence is sound, and stays so when calls end.
LEMMA SoundPrefix ==
    ASSUME NEW s \in Seq(Unit), NEW t \in Seq(Unit), NEW from, NEW done,
           Sound(s \o t, from, done)
    PROVE  Sound(s, from, done)
<1>. HIDE DEF Unit
<1>1. ASSUME NEW i \in DOMAIN s PROVE s[i][2] <= done[s[i][1]]
  <2>1. i \in DOMAIN (s \o t) /\ (s \o t)[i] = s[i]
    BY PlaceFacts
  <2>. QED BY <2>1 DEF Sound
<1>2. ASSUME NEW p \in Proc, NEW n \in (from[p] + 1)..(done[p] - 1)
      PROVE  Preceded(s, p, n)
  <2>1. Preceded(s \o t, p, n)
    BY DEF Sound
  <2>2. ASSUME NEW k \in DOMAIN s, s[k] = <<p, n + 1, 1>>
        PROVE  \E j \in DOMAIN s : j < k /\ s[j] = <<p, n, 1>>
    <3>1. k \in DOMAIN (s \o t) /\ (s \o t)[k] = s[k] /\ k \in Nat /\ k <= Len(s)
      BY PlaceFacts
    <3>2. PICK j \in DOMAIN (s \o t) : j < k /\ (s \o t)[j] = <<p, n, 1>>
      BY <2>1, <2>2, <3>1 DEF Preceded
    <3>3. j \in 1..Len(s)
      BY <3>1, <3>2, ConcatFacts
    <3>. QED BY <3>2, <3>3, ConcatFacts
  <2>. QED BY <2>2 DEF Preceded
<1>. QED BY <1>1, <1>2 DEF Sound

LEMMA SoundLater ==
    ASSUME NEW s \in Seq(Unit), NEW from \in [Proc -> Int], NEW done \in [Proc -> Int],
           NEW from2 \in [Proc -> Int], NEW done2 \in [Proc -> Int],
           \A p \in Proc : from[p] <= from2[p] /\ done[p] <= done2[p],
           Sound(s, from, done)
    PROVE  Sound(s, from2, done2)
<1>1. \A i \in DOMAIN s : s[i] \in Unit
  BY ElementOfSeq, LenProperties
<1>2. ASSUME NEW i \in DOMAIN s PROVE s[i][2] <= done2[s[i][1]]
  BY <1>1 DEF Sound, Unit
<1>3. ASSUME NEW p \in Proc, NEW n \in (from2[p] + 1)..(done2[p] - 1)
      PROVE  Preceded(s, p, n)
  <2>1. CASE n \in (from[p] + 1)..(done[p] - 1)
    BY <2>1 DEF Sound
  <2>2. CASE n + 1 > done[p]
    BY <2>2 DEF Sound, Preceded
  <2>. QED BY <2>1, <2>2
<1>. QED BY <1>2, <1>3 DEF Sound

LEMMA SoundExtends ==
    ASSUME NEW s \in Seq(Unit), NEW x \in Seq(Unit), NEW t \in Seq(Unit),
           NEW from, NEW done, Sound(s \o t, from, done), Sound(s \o x, from, done)
    PROVE  Sound((s \o x) \o t, from, done)
<1>. HIDE DEF Unit
<1>. DEFINE u == (s \o x) \o t
<1>1. s \o x \in Seq(Unit)
  BY ConcatFacts
<1>2. ASSUME NEW k \in DOMAIN u PROVE u[k][2] <= done[u[k][1]]
  <2>1. CASE k \in DOMAIN (s \o x) /\ u[k] = (s \o x)[k]
    BY <2>1 DEF Sound
  <2>2. ASSUME NEW m \in DOMAIN t, u[k] = t[m]
        PROVE  u[k][2] <= done[u[k][1]]
    <3>1. Len(s) + m \in DOMAIN (s \o t) /\ (s \o t)[Len(s) + m] = t[m]
      BY PlaceFacts
    <3>. QED BY <2>2, <3>1 DEF Sound
  <2>. QED BY <1>1, <2>1, <2>2, PartFacts
<1>3. ASSUME NEW p \in Proc, NEW n \in (from[p] + 1)..(done[p] - 1)
      PROVE  Preceded(u, p, n)
  BY PrecededExtends DEF Sound
<1>. QED BY <1>2, <1>3 DEF Sound

\* The next line of a process, behind the line before it.
LEMMA SoundLine ==
    ASSUME NEW s \in Seq(Unit), NEW p \in Proc, NEW n \in Nat, NEW from \in [Proc -> Int],
           NEW done \in [Proc -> Int], Sound(s, from, done), done[p] = n - 1,
           n - 1 > from[p] => Within(s, p, n - 1)
    PROVE  Sound(s \o Line(p, n), from, [done EXCEPT ![p] = n])
<1>. DEFINE t == Line(p, n)
            u == s \o t
            done2 == [done EXCEPT ![p] = n]
<1>1. /\ t \in Seq(Unit) /\ DOMAIN t = {1, 2}
      /\ t[1] = <<p, n, 1>> /\ t[2] = <<p, n, 2>>
  BY DEF Line, Unit
<1>2. done2 \in [Proc -> Int] /\ done2[p] = n /\ \A q \in Proc : done[q] <= done2[q]
  OBVIOUS
<1>. HIDE DEF t
<1>3. Sound(s, from, done2)
  <2>. HIDE DEF done2
  <2>1. \A q \in Proc : from[q] <= from[q]
    OBVIOUS
  <2>. QED BY <1>2, <2>1, SoundLater
<1>4. ASSUME NEW k \in DOMAIN u PROVE u[k][2] <= done2[u[k][1]]
  <2>1. CASE k \in DOMAIN s /\ u[k] = s[k]
    BY <1>3, <2>1 DEF Sound
  <2>2. ASSUME NEW m \in DOMAIN t, u[k] = t[m]
        PROVE  u[k][2] <= done2[u[k][1]]
    BY <1>1, <1>2, <2>2
  <2>. QED BY <1>1, <2>1, <2>2, PartFacts
<1>5. ASSUME NEW q \in Proc, NEW l \in (from[q] + 1)..(done2[q] - 1)
      PROVE  Preceded(u, q, l)
  <2>. SUFFICES ASSUME NEW k \in DOMAIN u, u[k] = <<q, l + 1, 1>>
                PROVE  \E j \in DOMAIN u : j < k /\ u[j] = <<q, l, 1>>
    BY DEF Preceded
  <2>1. CASE k \in DOMAIN s /\ u[k] = s[k]
    <3>1. PICK j \in DOMAIN s : j < k /\ s[j] = <<q, l, 1>>
      BY <1>3, <2>1 DEF Sound, Preceded
    <3>2. j \in DOMAIN u /\ u[j] = s[j]
      BY <1>1, PlaceFacts
    <3>. QED BY <3>1, <3>2
  <2>2. ASSUME NEW m \in DOMAIN t, k = Len(s) + m, u[k] = t[m]
        PROVE  \E j \in DOMAIN u : j < k /\ u[j] = <<q, l, 1>>
    <3>1. q = p /\ l + 1 = n
      BY <1>1, <2>2
    <3>2. n - 1 > from[p] /\ l = n - 1
      BY <1>2, <3>1
    <3>3. PICK j \in DOMAIN s : s[j] = <<p, n - 1, 1>>
      BY <3>2 DEF Within
    <3>4. j \in DOMAIN u /\ u[j] = s[j] /\ j \in Nat /\ j <= Len(s) /\ Len(s) \in Nat
      BY <1>1, PlaceFacts
    <3>5. m \in Nat \ {0}
      BY <1>1
    <3>6. j < k
      BY <2>2, <3>4, <3>5
    <3>7. u[j] = <<q, l, 1>>
      BY <3>1, <3>2, <3>3, <3>4
    <3>. QED BY <3>4, <3>6, <3>7
  <2>. QED BY <1>1, <2>1, <2>2, PartFacts
<1>6. Sound(u, from, done2)
  BY <1>4, <1>5 DEF Sound
<1>. QED BY <1>6 DEF t

LEMMA WithinLine ==
    ASSUME NEW s \in Seq(Unit), NEW p \in Proc, NEW n \in Nat
    PROVE  /\ Within(s \o Line(p, n), p, n)
           /\ \A l : Within(s, p, l) => Within(s \o Line(p, n), p, l)
<1>. DEFINE t == Line(p, n)
<1>1. /\ t \in Seq(Unit) /\ DOMAIN t = {1, 2}
      /\ t[1] = <<p, n, 1>> /\ t[2] = <<p, n, 2>>
  BY DEF Line, Unit
<1>. HIDE DEF t
<1>2. Within(s \o t, p, n)
  <2>1. /\ Len(s) \in Nat
        /\ Len(s) + 1 \in DOMAIN (s \o t) /\ (s \o t)[Len(s) + 1] = <<p, n, 1>>
        /\ Len(s) + 2 \in DOMAIN (s \o t) /\ (s \o t)[Len(s) + 2] = <<p, n, 2>>
    BY <1>1, PlaceFacts
  <2>2. Len(s) + 1 < Len(s) + 2
    BY <2>1
  <2>. QED BY <2>1, <2>2 DEF Within
<1>3. ASSUME NEW l, Within(s, p, l) PROVE Within(s \o t, p, l)
  <2>1. PICK i, j \in DOMAIN s : i < j /\ s[i] = <<p, l, 1>> /\ s[j] = <<p, l, 2>>
    BY <1>3 DEF Within
  <2>2. i \in DOMAIN (s \o t) /\ (s \o t)[i] = s[i] /\ j \in DOMAIN (s \o t) /\ (s \o t)[j] = s[j]
    BY <1>1, PlaceFacts
  <2>. QED BY <2>1, <2>2 DEF Within
<1>. QED BY <1>2, <1>3 DEF t

-----------------------------------------------------------------------------
(* The lines of the log *)

LEMMA LineTypes ==
    ASSUME TypeInv
    PROVE  /\ image \in [Proc -> Int] /\ logged \in [Proc -> Int] /\ written \in Seq(Unit)
           /\ \A p \in Proc : output_file[p].buf \in Seq(Unit) /\ Pending(p) \in Seq(Unit)
           /\ \A p \in Proc : made[p] \in Nat
<1>1. /\ image \in [Proc -> Int] /\ logged \in [Proc -> Int] /\ written \in Seq(Unit)
      /\ \A p \in Proc : made[p] \in Nat
  BY LoggerAssumption DEF TypeInv, TypeOK, logged
<1>2. \A p \in Proc : output_file[p].buf \in Seq(Unit)
  BY DEF TypeInv, TypeOK, Stream
<1>. HIDE DEF Unit
<1>3. \A p \in Proc : Pending(p) \in Seq(Unit)
  BY <1>1, <1>2, ConcatFacts DEF Pending
<1>. QED BY <1>1, <1>2, <1>3

\* An empty buffer is as good as the log alone.
LEMMA NothingPending ==
    ASSUME TypeInv, NEW p \in Proc, output_file[p].buf = <<>>
    PROVE  Pending(p) = written
BY LineTypes, ConcatEmptySeq DEF Pending

\* A step in which nothing is written.
LEMMA QuietKeepsLines ==
    ASSUME TypeInv, TypeInv', LinesInv, written' = written,
           \A p \in Proc : /\ image[p] <= image'[p] /\ logged[p] <= logged'[p]
                           /\ image'[p] <= logged'[p],
           \A p \in Proc \ cut' :
              \/ output_file'[p].buf = <<>>
              \/ \E q \in Proc \ cut : output_file'[p].buf = output_file[q].buf,
           \A p \in Proc \ cut' :
              status'[p] \in {"running", "exited"} =>
                 \/ image'[p] = logged'[p]
                 \/ /\ p \notin cut /\ status[p] \in {"running", "exited"}
                    /\ image'[p] = image[p] /\ logged'[p] = logged[p]
                    /\ output_file'[p].buf = output_file[p].buf
    PROVE  LinesInv'
<1>. DEFINE from == image
            done == logged
            from2 == image'
            done2 == logged'
<1>1. /\ from \in [Proc -> Int] /\ done \in [Proc -> Int]
      /\ from2 \in [Proc -> Int] /\ done2 \in [Proc -> Int]
      /\ \A p \in Proc : from[p] <= from2[p] /\ done[p] <= done2[p]
  <2>1. (image \in [Proc -> Int] /\ logged \in [Proc -> Int])'
    BY LineTypes, PTL
  <2>. QED BY <2>1, LineTypes
<1>2. \A p \in Proc : Pending(p)' = written \o output_file'[p].buf
  BY DEF Pending
<1>3. Sound(written, from2, done2)
  BY <1>1, LineTypes, SoundLater DEF LinesInv
<1>4. ASSUME NEW p \in Proc \ cut'
      PROVE  Sound(Pending(p)', from2, done2)
  <2>1. CASE output_file'[p].buf = <<>>
    <3>1. Pending(p)' = written
      BY <1>2, <2>1, LineTypes, ConcatEmptySeq
    <3>. QED BY <1>3, <3>1
  <2>2. ASSUME NEW q \in Proc \ cut, output_file'[p].buf = output_file[q].buf
        PROVE  Sound(Pending(p)', from2, done2)
    <3>1. Pending(p)' = Pending(q)
      BY <1>2, <2>2 DEF Pending
    <3>2. Sound(Pending(q), from2, done2)
      BY <1>1, LineTypes, SoundLater DEF LinesInv
    <3>. QED BY <3>1, <3>2
  <2>. QED BY <2>1, <2>2
<1>5. ASSUME NEW p \in Proc \ cut', status'[p] \in {"running", "exited"}
      PROVE  Complete(p)'
  <2>1. CASE from2[p] = done2[p]
    BY <1>1, <2>1 DEF Complete
  <2>2. CASE /\ p \notin cut /\ status[p] \in {"running", "exited"}
             /\ image'[p] = image[p] /\ logged'[p] = logged[p]
             /\ output_file'[p].buf = output_file[p].buf
    <3>1. Complete(p) /\ Pending(p)' = Pending(p)
      BY <1>2, <2>2 DEF LinesInv, Pending
    <3>. QED BY <2>2, <3>1 DEF Complete
  <2>. QED BY <1>5, <2>1, <2>2
<1>. QED BY <1>3, <1>4, <1>5 DEF LinesInv

LEMMA EndKeepsLines ==
    ASSUME TypeInv, TypeInv', LinesInv, NEW p \in Proc, Ended(p)
    PROVE  LinesInv'
<1>1. PICK how \in {"failed", "crashed", "aborted"} : End(p, how)
  BY DEF Ended
<1>2. /\ status' = [status EXCEPT ![p] = how]
      /\ logging' = [logging EXCEPT ![p] = FALSE]
      /\ output_file' = [output_file EXCEPT ![p] = NoFile]
      /\ UNCHANGED <<made, image, cut, written>>
  BY <1>1 DEF End, Ended, output
<1>3. \A q \in Proc : /\ logged[q] <= logged'[q] /\ logged'[q] \in Int
                      /\ q # p => logged'[q] = logged[q]
  BY <1>2, LineTypes DEF logged, TypeInv, TypeOK
<1>4. \A q \in Proc : /\ q # p => /\ output_file'[q] = output_file[q]
                                  /\ status'[q] = status[q]
                      /\ q = p => output_file'[q] = NoFile /\ status'[q] = how
  BY <1>2 DEF TypeInv, TypeOK
<1>5. \A q \in Proc : image[q] <= image[q] /\ image[q] <= logged'[q]
  BY <1>3, LineTypes DEF LinesInv
<1>6. NoFile.buf = <<>>
  BY DEF NoFile
<1>. QED BY <1>1, <1>2, <1>3, <1>4, <1>5, <1>6, QuietKeepsLines

LEMMA CallKeepsLines ==
    ASSUME TypeInv, TypeInv', LinesInv, NEW p \in Proc, Called(p)
    PROVE  LinesInv'
<1>1. /\ Running(p) /\ ~logging[p]
      /\ made' = [made EXCEPT ![p] = @ + 1]
      /\ logging' = [logging EXCEPT ![p] = TRUE]
      /\ UNCHANGED <<status, output_file, image, written>>
  BY DEF Called, Call, output
<1>2. cut \subseteq cut'
  BY DEF Called, Handles, Acquire, descriptors
<1>3. \A q \in Proc : logged'[q] = logged[q]
  BY <1>1, LineTypes DEF logged, TypeInv, TypeOK
<1>4. \A q \in Proc : image[q] <= image[q] /\ image[q] <= logged[q] /\ logged[q] <= logged[q]
  BY LineTypes DEF LinesInv
<1>. QED BY <1>1, <1>2, <1>3, <1>4, QuietKeepsLines

LEMMA LaunchKeepsLines ==
    ASSUME TypeInv, TypeInv', LinesInv, NEW t \in Targets, Launch(t)
    PROVE  LinesInv'
<1>1. /\ status[First] = "launcher"
      /\ status' = [status EXCEPT ![First] = "running"]
      /\ UNCHANGED <<output_file, logging, made, image, cut, written>>
  BY DEF Launch, output
<1>2. image[First] = 0 /\ logged[First] = 0
  BY <1>1, LoggerAssumption DEF TypeInv, Held, logged
<1>3. \A q \in Proc : logged'[q] = logged[q] /\ (q # First => status'[q] = status[q])
  BY <1>1 DEF logged, TypeInv, TypeOK
<1>4. \A q \in Proc : image[q] <= image[q] /\ image[q] <= logged[q] /\ logged[q] <= logged[q]
  BY LineTypes DEF LinesInv
<1>. QED BY <1>1, <1>2, <1>3, <1>4, QuietKeepsLines

LEMMA ForkKeepsLines ==
    ASSUME TypeInv, TypeInv', LinesInv, NEW p \in Proc, NEW q \in Proc, Fork(p, q)
    PROVE  LinesInv'
<1>1. /\ status[q] = "unborn"
      /\ status' = [status EXCEPT ![q] = "running"]
      /\ output_file' = [output_file EXCEPT ![q] = output_file[p]]
      /\ cut' = IF p \in cut THEN cut \cup {q} ELSE cut
      /\ UNCHANGED <<logging, made, image, written>>
  BY DEF Fork, output
<1>2. image[q] = 0 /\ logged[q] = 0 /\ q \notin cut
  BY <1>1 DEF TypeInv, Held, logged
<1>3. \A r \in Proc : /\ logged'[r] = logged[r]
                      /\ r # q => status'[r] = status[r] /\ output_file'[r] = output_file[r]
                      /\ r = q => output_file'[r] = output_file[p]
                      /\ r \notin cut' => r \notin cut /\ (r = q => p \notin cut)
  BY <1>1, <1>2 DEF logged, TypeInv, TypeOK
<1>4. \A r \in Proc : image[r] <= image[r] /\ image[r] <= logged[r] /\ logged[r] <= logged[r]
  BY LineTypes DEF LinesInv
<1>. QED BY <1>1, <1>2, <1>3, <1>4, QuietKeepsLines

LEMMA ExecKeepsLines ==
    ASSUME TypeInv, TypeInv', LinesInv, NEW p \in Proc, Exec(p)
    PROVE  LinesInv'
<1>1. /\ ~logging[p]
      /\ output_file' = [output_file EXCEPT ![p] = NoFile]
      /\ image' = [image EXCEPT ![p] = made[p]]
      /\ UNCHANGED <<status, logging, made, cut, written>>
  BY DEF Exec, descriptors, output
<1>2. logged' = logged /\ logged[p] = made[p]
  BY <1>1 DEF logged
<1>3. \A q \in Proc : /\ q # p => output_file'[q] = output_file[q] /\ image'[q] = image[q]
                      /\ q = p => output_file'[q] = NoFile /\ image'[q] = made[q]
  BY <1>1 DEF TypeInv, TypeOK
<1>4. \A q \in Proc : /\ image[q] <= image'[q] /\ logged[q] <= logged'[q]
                      /\ image'[q] <= logged'[q]
  BY <1>2, <1>3, LineTypes DEF LinesInv
<1>5. NoFile.buf = <<>>
  BY DEF NoFile
<1>. QED BY <1>1, <1>2, <1>3, <1>4, <1>5, QuietKeepsLines

\* What one process writes leaves sound what the others keep.
LEMMA OthersKeepLines ==
    ASSUME TypeInv, NEW q \in Proc, NEW x \in Seq(Unit), written' = written \o x,
           output_file'[q].buf = output_file[q].buf, NEW from, NEW done
    PROVE  /\ Sound(Pending(q), from, done) /\ Sound(written \o x, from, done) =>
                Sound(Pending(q)', from, done)
           /\ \A n : Within(Pending(q), q, n) => Within(Pending(q)', q, n)
<1>. DEFINE t == output_file[q].buf
<1>1. written \in Seq(Unit) /\ t \in Seq(Unit) /\ Pending(q) = written \o t
  BY LineTypes DEF Pending
<1>2. Pending(q)' = (written \o x) \o t
  BY DEF Pending
<1>. HIDE DEF t, Unit
<1>3. Sound(Pending(q), from, done) /\ Sound(written \o x, from, done) =>
         Sound(Pending(q)', from, done)
  BY <1>1, <1>2, SoundExtends
<1>4. \A n : Within(Pending(q), q, n) => Within(Pending(q)', q, n)
  BY <1>1, <1>2, WithinExtends
<1>. QED BY <1>3, <1>4

\* A process flushes what is in its buffer: all that was pending stays so.
LEMMA ExitKeepsLines ==
    ASSUME TypeInv, TypeInv', LinesInv, NEW p \in Proc, Exit(p)
    PROVE  LinesInv'
<1>. DEFINE b == output_file[p].buf
            from == image
            done == logged
<1>1. /\ Running(p) /\ ~logging[p]
      /\ status' = [status EXCEPT ![p] = "exited"]
      /\ logging' = [logging EXCEPT ![p] = FALSE]
      /\ output_file' = [output_file EXCEPT ![p] = NoFile]
      /\ UNCHANGED <<made, image, cut>>
  BY DEF Exit, End
<1>2. logged' = logged
  BY <1>1 DEF logged, TypeInv, TypeOK
<1>3. /\ written \in Seq(Unit) /\ b \in Seq(Unit) /\ Pending(p) = written \o b
      /\ \A q \in Proc : output_file[q].buf \in Seq(Unit)
  BY LineTypes DEF Pending
<1>4. \A q \in Proc : /\ q # p => /\ output_file'[q] = output_file[q]
                                  /\ status'[q] = status[q]
                      /\ q = p => output_file'[q].buf = <<>> /\ status[q] = "running"
  BY <1>1 DEF TypeInv, TypeOK, NoFile, Running
<1>. HIDE DEF b, Unit
<1>5. CASE written' = written
  <2>1. CASE p \in cut
    <3>1. \A q \in Proc : image[q] <= image[q] /\ image[q] <= logged[q] /\ logged[q] <= logged[q]
      BY LineTypes DEF LinesInv
    <3>. QED BY <1>1, <1>2, <1>4, <1>5, <2>1, <3>1, QuietKeepsLines
  <2>2. CASE p \notin cut /\ b = <<>>
    <3>1. \A q \in Proc : image[q] <= image[q] /\ image[q] <= logged[q] /\ logged[q] <= logged[q]
      BY LineTypes DEF LinesInv
    <3>2. \A q \in Proc : output_file'[q].buf = output_file[q].buf
      BY <1>4, <2>2 DEF b
    <3>. QED BY <1>1, <1>2, <1>4, <1>5, <3>1, <3>2, QuietKeepsLines
  <2>3. CASE p \notin cut /\ b # <<>>
    <3>1. output_file[p].open
      BY <2>3 DEF TypeInv, Held, b
    <3>2. written' = written \o b
      BY <1>1, <1>3, <2>3, <3>1, EmitFacts DEF Exit, b
    <3>. QED BY <1>3, <1>5, <2>3, <3>2, ConcatEqualIffEmpty
  <2>. QED BY <2>1, <2>2, <2>3
<1>6. CASE p \notin cut /\ written' = written \o b
  <2>1. Sound(written \o b, from, done)
    BY <1>3, <1>6 DEF LinesInv
  <2>2. Pending(p)' = Pending(p)
    <3>1. written \o b \in Seq(Unit)
      BY <1>3, ConcatFacts
    <3>2. Pending(p)' = (written \o b) \o <<>>
      BY <1>4, <1>6 DEF Pending
    <3>. QED BY <1>3, <3>1, <3>2, ConcatEmptySeq
  <2>3. ASSUME NEW q \in Proc \ cut
        PROVE  /\ Sound(Pending(q)', from, done)
               /\ \A n : Within(Pending(q), q, n) => Within(Pending(q)', q, n)
    <3>1. Sound(Pending(q), from, done)
      BY DEF LinesInv
    <3>2. CASE q = p
      BY <2>2, <3>1, <3>2
    <3>3. CASE q # p
      <4>1. output_file'[q].buf = output_file[q].buf
        BY <1>4, <3>3
      <4>. HIDE DEF from, done
      <4>. QED BY <1>3, <1>6, <2>1, <3>1, <4>1, OthersKeepLines
    <3>. QED BY <3>2, <3>3
  <2>4. ASSUME NEW q \in Proc \ cut, status'[q] \in {"running", "exited"}
        PROVE  Complete(q)'
    <3>1. Complete(q)
      BY <1>4, <2>4 DEF LinesInv
    <3>. QED BY <1>1, <1>2, <2>3, <3>1 DEF Complete
  <2>5. \A q \in Proc : image'[q] <= logged'[q]
    BY <1>1, <1>2 DEF LinesInv
  <2>. QED BY <1>1, <1>2, <1>6, <2>1, <2>3, <2>4, <2>5 DEF LinesInv
<1>7. written' = written \/ (p \notin cut /\ written' = written \o b)
  BY <1>1, <1>3, EmitFacts DEF Exit, output, b
<1>. QED BY <1>5, <1>6, <1>7

\* A process prints the line about its last call: what is pending grows by it,
\* whether the buffer is flushed or not.
LEMMA LogKeepsLines ==
    ASSUME TypeInv, TypeInv', LinesInv, NEW p \in Proc, Log(p)
    PROVE  LinesInv'
<1>. DEFINE x == SubSeq(Buffered(p), 1, Flushed(p))
            y == SubSeq(Buffered(p), Flushed(p) + 1, Len(Buffered(p)))
            b == output_file[p].buf
            l == Line(p, made[p])
            from == image
            done == logged
            done2 == logged'
<1>1. /\ Running(p) /\ logging[p]
      /\ output_file' = [output_file EXCEPT ![p] = [GetOutputFile(p) EXCEPT !.buf = y]]
      /\ logging' = [logging EXCEPT ![p] = FALSE]
      /\ UNCHANGED <<status, made, image, cut>>
  BY DEF Log, descriptors
<1>2. /\ logged \in [Proc -> Int] /\ image \in [Proc -> Int] /\ made[p] \in Nat
      /\ logged' = [logged EXCEPT ![p] = made[p]] /\ logged[p] = made[p] - 1
      /\ \A q \in Proc : logged[q] <= logged'[q]
  <2>1. /\ logged \in [Proc -> Int] /\ image \in [Proc -> Int] /\ made[p] \in Nat
        /\ made \in [Proc -> 0..MaxCalls]
    BY LineTypes DEF TypeInv, TypeOK
  <2>2. logged' = [logged EXCEPT ![p] = made[p]] /\ logged[p] = made[p] - 1
    BY <1>1, <2>1 DEF logged, TypeInv, TypeOK
  <2>. QED BY <2>1, <2>2
<1>3. /\ written \in Seq(Unit) /\ b \in Seq(Unit) /\ l \in Seq(Unit)
      /\ Pending(p) = written \o b /\ Pending(p) \in Seq(Unit)
  BY LineTypes, BufferFacts DEF Pending
<1>4. x \in Seq(Unit) /\ y \in Seq(Unit) /\ x \o y = b \o l
  BY FlushFacts, BufferFacts DEF Buffered
<1>5. \A q \in Proc : /\ q # p => output_file'[q] = output_file[q] /\ logged'[q] = logged[q]
                      /\ q = p => output_file'[q].buf = y
  <2>1. [GetOutputFile(p) EXCEPT !.buf = y].buf = y
    BY BufferFacts DEF Stream
  <2>. HIDE DEF y
  <2>. QED BY <1>1, <1>2, <2>1 DEF TypeInv, TypeOK
<1>6. /\ p \in cut => written' = written
      /\ p \notin cut => written' = written \o x
  BY <1>1, <1>4, EmitFacts DEF Log, OpenedTarget
<1>. HIDE DEF x, y, b, l, Unit
<1>7. CASE p \in cut
  <2>1. \A q \in Proc : /\ image[q] <= image[q] /\ logged[q] <= logged'[q]
                        /\ image[q] <= logged'[q]
    BY <1>2 DEF LinesInv
  <2>. QED BY <1>1, <1>5, <1>6, <1>7, <2>1, QuietKeepsLines
<1>8. CASE p \notin cut
  <2>1. written \o x \in Seq(Unit)
    BY <1>3, <1>4, ConcatFacts
  <2>2. Pending(p)' = Pending(p) \o l
    <3>1. Pending(p)' = (written \o x) \o y
      BY <1>5, <1>6, <1>8 DEF Pending
    <3>2. (written \o x) \o y = written \o (x \o y)
      <4>1. written \in Seq(Unit) /\ x \in Seq(Unit) /\ y \in Seq(Unit)
        BY <1>3, <1>4
      <4>. QED BY <4>1, ConcatAssociative
    <3>3. written \o (b \o l) = (written \o b) \o l
      BY <1>3, ConcatAssociative
    <3>. QED BY <1>3, <1>4, <3>1, <3>2, <3>3
  <2>3. Complete(p) /\ Sound(Pending(p), from, done)
    BY <1>1, <1>8 DEF LinesInv, Running
  <2>4. Sound(Pending(p)', from, done2)
    <3>1. made[p] - 1 > image[p] => Within(Pending(p), p, made[p] - 1)
      BY <1>2, <2>3 DEF Complete
    <3>2. Sound(Pending(p) \o Line(p, made[p]), from, [done EXCEPT ![p] = made[p]])
      BY <1>2, <1>3, <2>3, <3>1, SoundLine
    <3>. QED BY <1>2, <2>2, <3>2 DEF l
  <2>5. Sound(written \o x, from, done2)
    <3>1. Pending(p)' = (written \o x) \o y
      BY <1>5, <1>6, <1>8 DEF Pending
    <3>. HIDE DEF from, done2
    <3>. QED BY <1>4, <2>1, <2>4, <3>1, SoundPrefix
  <2>6. ASSUME NEW q \in Proc \ cut, q # p
        PROVE  /\ Sound(Pending(q)', from, done2)
               /\ \A n : Within(Pending(q), q, n) => Within(Pending(q)', q, n)
    <3>1. Sound(Pending(q), from, done2)
      <4>1. done2 \in [Proc -> Int] /\ \A r \in Proc : from[r] <= from[r]
        BY <1>2
      <4>2. Sound(Pending(q), from, done) /\ Pending(q) \in Seq(Unit)
        BY LineTypes DEF LinesInv
      <4>. QED BY <1>2, <4>1, <4>2, SoundLater
    <3>2. output_file'[q].buf = output_file[q].buf
      BY <1>5, <2>6
    <3>. HIDE DEF from, done2
    <3>. QED BY <1>4, <1>6, <1>8, <2>5, <3>1, <3>2, OthersKeepLines
  <2>7. ASSUME NEW q \in Proc \ cut, status[q] \in {"running", "exited"}
        PROVE  Complete(q)'
    <3>1. Complete(q)
      BY <2>7 DEF LinesInv
    <3>2. CASE q # p
      BY <1>1, <1>5, <2>6, <3>1, <3>2 DEF Complete
    <3>3. CASE q = p
      <4>1. Within(Pending(p)', p, made[p])
        BY <1>2, <1>3, <2>2, WithinLine DEF l
      <4>2. \A n : Within(Pending(p), p, n) => Within(Pending(p)', p, n)
        BY <1>2, <1>3, <2>2, WithinLine DEF l
      <4>. QED BY <1>1, <1>2, <3>1, <3>3, <4>1, <4>2 DEF Complete
    <3>. QED BY <3>2, <3>3
  <2>8. \A q \in Proc : image[q] <= logged'[q]
    BY <1>2 DEF LinesInv
  <2>. QED BY <1>1, <1>6, <1>8, <2>4, <2>5, <2>6, <2>7, <2>8 DEF LinesInv
<1>. QED BY <1>7, <1>8

LEMMA InitIInv ==
    ASSUME Init
    PROVE  IInv
<1>1. TypeInv
  BY InitTypeInv
<1>2. written = <<>> /\ stray = <<>> /\ \A p \in Proc : output_file[p].buf = <<>>
  BY DEF Init, NoFile
<1>3. \A p \in Proc : image[p] = 0 /\ logged[p] = 0
  BY DEF Init, logged
<1>4. Sound(<<>>, image, logged)
  BY <1>3 DEF Sound
<1>5. \A p \in Proc : Pending(p) = <<>> /\ Complete(p)
  BY <1>1, <1>2, <1>3, NothingPending DEF Complete
<1>6. LinesInv
  BY <1>2, <1>3, <1>4, <1>5 DEF LinesInv
<1>. QED BY <1>1, <1>2, <1>6 DEF IInv, OnlyTheTarget

\* Only a process that has closed the log's descriptor writes elsewhere.
LEMMA OnlyTheTargetIsInductive ==
    ASSUME TypeInv, OnlyTheTarget, [Next]_vars
    PROVE  OnlyTheTarget'
<1>1. ASSUME NEW p \in Proc, Log(p) PROVE OnlyTheTarget'
  BY <1>1, EmitFacts, FlushFacts DEF Log, OpenedTarget, descriptors, OnlyTheTarget
<1>2. ASSUME NEW p \in Proc, Exit(p) PROVE OnlyTheTarget'
  <2>1. output_file[p].buf \in Seq(Unit)
    BY LineTypes
  <2>. QED BY <1>2, <2>1, EmitFacts DEF Exit, End, output, OnlyTheTarget
<1>3. ASSUME UNCHANGED stray, cut \subseteq cut' PROVE OnlyTheTarget'
  BY <1>3 DEF OnlyTheTarget
<1>4. ASSUME NEW t \in Targets, Launch(t) PROVE UNCHANGED stray /\ cut \subseteq cut'
  BY <1>4 DEF Launch, output
<1>5. ASSUME NEW p \in Proc, Ended(p) PROVE UNCHANGED stray /\ cut \subseteq cut'
  BY <1>5 DEF Ended, End, output
<1>6. ASSUME NEW p \in Proc, Called(p) PROVE UNCHANGED stray /\ cut \subseteq cut'
  BY <1>6 DEF Called, Call, Handles, Acquire, descriptors, output
<1>7. ASSUME NEW p \in Proc, Exec(p) PROVE UNCHANGED stray /\ cut \subseteq cut'
  BY <1>7 DEF Exec, descriptors, output
<1>8. ASSUME NEW p \in Proc, NEW q \in Proc, Fork(p, q)
      PROVE  UNCHANGED stray /\ cut \subseteq cut'
  BY <1>8 DEF Fork, output
<1>9. ASSUME UNCHANGED vars PROVE UNCHANGED stray /\ cut \subseteq cut'
  BY <1>9 DEF vars, output, descriptors
<1>. QED BY <1>1, <1>2, <1>3, <1>4, <1>5, <1>6, <1>7, <1>8, <1>9, NextCases DEF TypeInv

LEMMA IInvIsInductive ==
    ASSUME IInv, [Next]_vars
    PROVE  IInv'
<1>1. TypeInv /\ LinesInv /\ OnlyTheTarget /\ TypeInv' /\ OnlyTheTarget'
  BY TypeInvIsInductive, OnlyTheTargetIsInductive DEF IInv
<1>2. ASSUME UNCHANGED vars PROVE LinesInv'
  <2>1. \A q \in Proc : logged'[q] = logged[q]
    BY <1>2 DEF vars, logged
  <2>2. \A q \in Proc : image[q] <= image[q] /\ image[q] <= logged[q] /\ logged[q] <= logged[q]
    BY <1>1, LineTypes DEF LinesInv
  <2>. QED BY <1>1, <1>2, <2>1, <2>2, QuietKeepsLines DEF vars, descriptors, output
<1>3. LinesInv'
  BY <1>1, <1>2, NextCases, LaunchKeepsLines, EndKeepsLines, CallKeepsLines, LogKeepsLines,
     ExecKeepsLines, ExitKeepsLines, ForkKeepsLines DEF TypeInv
<1>. QED BY <1>1, <1>3 DEF IInv

LEMMA InvariantsOfTheLog ==
    ASSUME IInv
    PROVE  ExitComplete /\ InOrder
<1>. USE DEF IInv
<1>1. ASSUME NEW p \in Proc, status[p] = "exited", p \notin cut,
             NEW n \in (image[p] + 1)..made[p]
      PROVE  \E i \in Places(p, n, 1), j \in Places(p, n, 2) : i < j
  <2>1. output_file[p].buf = <<>> /\ ~logging[p]
    BY <1>1 DEF TypeInv, Held, Running, NoFile
  <2>2. Pending(p) = written /\ logged[p] = made[p]
    BY <2>1, NothingPending DEF logged
  <2>3. Within(written, p, n)
    BY <1>1, <2>2 DEF LinesInv, Complete
  <2>. QED BY <2>3 DEF Within, Places
<1>2. ASSUME NEW p \in Proc, NEW n \in (image[p] + 1)..(made[p] - 1),
             NEW i \in Places(p, n + 1, 1)
      PROVE  \E j \in Places(p, n, 1) : j < i
  <2>1. i \in DOMAIN written /\ written[i] = <<p, n + 1, 1>>
    BY <1>2 DEF Places
  <2>2. Sound(written, image, logged) /\ made[p] \in Nat /\ image[p] \in Int
        /\ logged[p] = IF logging[p] THEN made[p] - 1 ELSE made[p]
    BY LineTypes DEF LinesInv, logged
  <2>3. n + 1 <= logged[p]
    BY <2>1, <2>2 DEF Sound
  <2>4. Preceded(written, p, n)
    BY <2>2, <2>3 DEF Sound
  <2>. QED BY <2>1, <2>4 DEF Preceded, Places
<1>. QED BY <1>1, <1>2 DEF ExitComplete, InOrder

LEMMA LoggerInvariant == Spec => []IInv
<1>1. Init => IInv
  BY InitIInv
<1>2. IInv /\ [Next]_vars => IInv'
  BY IInvIsInductive
<1>. QED BY <1>1, <1>2, PTL DEF Spec

\* What a process has done since its last exec is in the log once it has
\* exited: getoutputfile keeps one stream per image, and only a close of the
\* log's descriptor comes between the stream and the log.
THEOREM ExitedProcessesAreLogged == Spec => []ExitComplete
<1>1. IInv => ExitComplete
  BY InvariantsOfTheLog
<1>. QED BY <1>1, LoggerInvariant, PTL

\* The lines of an image appear in the order of its calls, whoever flushes
\* copies of its buffer.
THEOREM LinesAreInOrder == Spec => []InOrder
<1>1. IInv => InOrder
  BY InvariantsOfTheLog
<1>. QED BY <1>1, LoggerInvariant, PTL

\* No line lands in a file of the program that has left alone the descriptor
\* that hw2 has made for the log.
THEOREM FilesAreLeftAlone == Spec => []OnlyTheTarget
<1>1. IInv => OnlyTheTarget
  BY DEF IInv
<1>. QED BY <1>1, LoggerInvariant, PTL

-----------------------------------------------------------------------------
(* A terminal *)

\* The log goes to a terminal.
Terminal == StderrTty = TRUE /\ Targets = {"stderr"}

(***************************************************************************)
(* On a terminal nothing stays in the buffer of a process that has the     *)
(* descriptor, so the log grows by whole lines.                            *)
(***************************************************************************)
TerminalInv ==
    /\ target \in {"none", "stderr"}
    /\ \A p \in Proc \ cut :
         output_file[p].buf = <<>> /\ (output_file[p].open => output_file[p].line = TRUE)
    /\ \E k \in Nat : Len(written) = 2 * k
    /\ WholeLines

LEMMA TerminalLog ==
    ASSUME Terminal, TypeInv, TerminalInv, NEW p \in Proc \ cut, Log(p)
    PROVE  /\ written' = written \o Line(p, made[p])
           /\ output_file'[p].buf = <<>> /\ output_file'[p].line = TRUE
<1>1. Running(p) /\ target = "stderr" /\ fds[p][output_fd] = "stderr"
  BY DEF Log, TypeInv, Held, TerminalInv
<1>2. GetOutputFile(p).line = TRUE
  BY <1>1 DEF GetOutputFile, LineBuffered, TerminalInv, Terminal
<1>. DEFINE b == Buffered(p)
<1>3. b \in Seq(Unit) /\ Flushed(p) = Len(b)
  BY <1>2, BufferFacts DEF Flushed
<1>4. b = Line(p, made[p])
  <2>1. Line(p, made[p]) \in Seq(Unit) /\ GetOutputFile(p).buf = <<>>
    BY BufferFacts DEF TerminalInv
  <2>. QED BY <2>1, ConcatEmptySeq DEF Buffered
<1>. DEFINE y == SubSeq(b, Flushed(p) + 1, Len(b))
<1>5. SubSeq(b, 1, Flushed(p)) = b /\ y = <<>>
  <2>. HIDE DEF b, Unit
  <2>1. Len(b) \in Nat
    BY <1>3, LenProperties
  <2>2. SubSeq(b, Len(b) + 1, Len(b)) = <<>>
    BY <2>1, SubSeqEmpty
  <2>3. SubSeq(b, 1, Len(b)) = b
    BY <1>3, SubSeqFull
  <2>. QED BY <1>3, <2>2, <2>3
<1>6. written' = written \o b
  BY <1>1, <1>3, <1>5, EmitFacts DEF Log, OpenedTarget
<1>7. output_file'[p] = [GetOutputFile(p) EXCEPT !.buf = y]
  BY DEF Log, TypeInv, TypeOK
<1>8. output_file'[p].buf = y /\ output_file'[p].line = TRUE
  <2>. HIDE DEF y
  <2>. QED BY <1>2, <1>7, BufferFacts DEF Stream
<1>. QED BY <1>4, <1>5, <1>6, <1>8

LEMMA LineGrows ==
    ASSUME TypeInv, WholeLines, NEW k \in Nat, Len(written) = 2 * k, NEW p \in Proc,
           written' = written \o Line(p, made[p])
    PROVE  /\ Len(written') = 2 * (k + 1) /\ WholeLines'
           /\ \A i \in 1..2 * k : written'[i] = written[i]
           /\ written'[2 * k + 1] = <<p, made[p], 1>>
           /\ written'[2 * k + 2] = <<p, made[p], 2>>
<1>. DEFINE t == Line(p, made[p])
<1>1. /\ t \in Seq(Unit) /\ Len(t) = 2
      /\ t[1] = <<p, made[p], 1>> /\ t[2] = <<p, made[p], 2>>
  BY BufferFacts DEF Line
<1>2. written \in Seq(Unit) /\ written' = written \o t
  BY LineTypes
<1>. HIDE DEF t, Unit
<1>3. /\ Len(written') = 2 * k + 2 /\ DOMAIN written = 1..2 * k
      /\ DOMAIN written' = 1..2 * k + 2
  <2>1. Len(written \o t) = Len(written) + Len(t) /\ written \o t \in Seq(Unit)
    BY <1>1, <1>2, ConcatProperties
  <2>2. DOMAIN written = 1..Len(written) /\ DOMAIN (written \o t) = 1..Len(written \o t)
    BY <1>2, <2>1, LenProperties
  <2>. QED BY <1>1, <1>2, <2>1, <2>2
<1>4. \A i \in 1..2 * k : written'[i] = written[i]
  BY <1>1, <1>2, <1>3, ConcatFacts
<1>5. written'[2 * k + 1] = <<p, made[p], 1>> /\ written'[2 * k + 2] = <<p, made[p], 2>>
  <2>1. \A i \in 1..Len(t) : (written \o t)[Len(written) + i] = t[i]
    BY <1>1, <1>2, ConcatFacts
  <2>2. 1 \in 1..Len(t) /\ 2 \in 1..Len(t)
    BY <1>1
  <2>3. (written \o t)[Len(written) + 1] = t[1] /\ (written \o t)[Len(written) + 2] = t[2]
    BY <2>1, <2>2
  <2>. QED BY <1>1, <1>2, <2>3
<1>6. ASSUME NEW i \in 1..2 * k + 2
      PROVE  written'[i] = IF i % 2 = 1
                           THEN <<written'[i][1], written'[i][2], 1>>
                           ELSE <<written'[i - 1][1], written'[i - 1][2], 2>>
  <2>1. CASE i \in 1..2 * k
    <3>1. i % 2 # 1 => i - 1 \in 1..2 * k
      BY <2>1
    <3>. QED BY <1>3, <1>4, <2>1, <3>1 DEF WholeLines
  <2>2. CASE i = 2 * k + 1
    <3>1. i % 2 = 1
      BY <2>2
    <3>2. written'[i] = <<p, made[p], 1>>
      BY <1>5, <2>2
    <3>. QED BY <3>1, <3>2
  <2>3. CASE i = 2 * k + 2
    <3>1. i % 2 = 0 /\ i - 1 = 2 * k + 1
      BY <2>3
    <3>2. written'[i - 1] = <<p, made[p], 1>> /\ written'[i] = <<p, made[p], 2>>
      BY <1>5, <2>3, <3>1
    <3>. QED BY <3>1, <3>2
  <2>4. i \in 1..2 * k \/ i = 2 * k + 1 \/ i = 2 * k + 2
    OBVIOUS
  <2>. QED BY <2>1, <2>2, <2>3, <2>4
<1>7. 2 * k + 2 = 2 * (k + 1)
  OBVIOUS
<1>. QED BY <1>3, <1>4, <1>5, <1>6, <1>7 DEF WholeLines

\* Every other step writes nothing, and no buffer is filled by it.
LEMMA TerminalQuiet ==
    ASSUME TypeInv, TerminalInv, NEW p \in Proc, Ended(p) \/ Called(p) \/ Exec(p) \/ Exit(p)
    PROVE  /\ written' = written /\ target' = target
           /\ \A q \in Proc \ cut' :
                q \notin cut /\ output_file'[q] \in {output_file[q], NoFile}
<1>1. ASSUME Exit(p) PROVE written' = written
  <2>1. CASE p \notin cut /\ output_file[p].open
    <3>1. written' = written \o <<>>
      BY <1>1, <2>1, EmitFacts, LineTypes DEF Exit, TerminalInv
    <3>. QED BY <3>1, LineTypes, ConcatEmptySeq
  <2>2. CASE p \in cut /\ output_file[p].open
    BY <1>1, <2>2, EmitFacts, LineTypes DEF Exit
  <2>. QED BY <1>1, <2>1, <2>2 DEF Exit, output
<1>2. cut \subseteq cut' /\ target' = target
  BY DEF Ended, Called, Call, Handles, Acquire, descriptors, Exec, Exit, End, environment
<1>3. \A q \in Proc : output_file'[q] \in {output_file[q], NoFile}
  BY DEF Ended, Called, Call, Exec, Exit, End, TypeInv, TypeOK
<1>4. ASSUME Ended(p) \/ Called(p) \/ Exec(p) PROVE written' = written
  BY <1>4 DEF Ended, Called, Call, Exec, output
<1>. QED BY <1>1, <1>2, <1>3, <1>4

LEMMA TerminalInvIsInductive ==
    ASSUME Terminal, TypeInv, TerminalInv, [Next]_vars
    PROVE  TerminalInv'
<1>1. ASSUME NEW p \in Proc, Ended(p) \/ Called(p) \/ Exec(p) \/ Exit(p)
      PROVE  TerminalInv'
  <2>1. NoFile.buf = <<>> /\ ~NoFile.open
    BY DEF NoFile
  <2>2. /\ written' = written /\ target' = target
        /\ \A q \in Proc \ cut' :
             q \notin cut /\ output_file'[q] \in {output_file[q], NoFile}
    BY <1>1, TerminalQuiet
  <2>. QED BY <2>1, <2>2 DEF TerminalInv, WholeLines
<1>2. ASSUME NEW t \in Targets, Launch(t) PROVE TerminalInv'
  BY <1>2 DEF Launch, output, Terminal, TerminalInv, WholeLines
<1>3. ASSUME NEW p \in Proc, NEW q \in Proc, Fork(p, q) PROVE TerminalInv'
  <2>1. /\ output_file' = [output_file EXCEPT ![q] = output_file[p]] /\ q \notin cut
        /\ cut' = IF p \in cut THEN cut \cup {q} ELSE cut
        /\ UNCHANGED <<written, target>>
    BY <1>3 DEF Fork, output, environment, TypeInv, Held
  <2>2. \A r \in Proc \ cut' : \E s \in Proc \ cut : output_file'[r] = output_file[s]
    BY <2>1 DEF TypeInv, TypeOK
  <2>. QED BY <2>1, <2>2 DEF TerminalInv, WholeLines
<1>4. ASSUME NEW p \in Proc, Log(p) PROVE TerminalInv'
  <2>1. /\ UNCHANGED <<target, cut>>
        /\ \A q \in Proc \ {p} : output_file'[q] = output_file[q]
    BY <1>4 DEF Log, environment, descriptors, TypeInv, TypeOK
  <2>2. CASE p \in cut
    <3>1. written' = written
      BY <1>4, <2>2, EmitFacts, FlushFacts DEF Log, OpenedTarget
    <3>. QED BY <2>1, <2>2, <3>1 DEF TerminalInv, WholeLines
  <2>3. CASE p \notin cut
    <3>1. /\ written' = written \o Line(p, made[p])
          /\ output_file'[p].buf = <<>> /\ output_file'[p].line = TRUE
      BY <1>4, <2>3, TerminalLog
    <3>2. PICK k \in Nat : Len(written) = 2 * k
      BY DEF TerminalInv
    <3>3. Len(written') = 2 * (k + 1) /\ WholeLines' /\ k + 1 \in Nat
      BY <3>1, <3>2, LineGrows DEF TerminalInv
    <3>4. \A q \in Proc \ cut' :
            output_file'[q].buf = <<>> /\ (output_file'[q].open => output_file'[q].line = TRUE)
      BY <2>1, <3>1 DEF TerminalInv
    <3>5. target' \in {"none", "stderr"}
      BY <2>1 DEF TerminalInv
    <3>6. \E j \in Nat : Len(written') = 2 * j
      BY <3>3
    <3>. QED BY <3>3, <3>4, <3>5, <3>6 DEF TerminalInv
  <2>. QED BY <2>2, <2>3
<1>5. ASSUME UNCHANGED vars PROVE TerminalInv'
  BY <1>5 DEF vars, environment, descriptors, output, TerminalInv, WholeLines
<1>. QED BY <1>1, <1>2, <1>3, <1>4, <1>5, NextCases DEF TypeInv

LEMMA InitTerminalInv ==
    ASSUME Init
    PROVE  TerminalInv
<1>1. Len(<<>>) = 2 * 0 /\ NoFile.buf = <<>> /\ ~NoFile.open
  BY DEF NoFile
<1>. QED BY <1>1 DEF Init, TerminalInv, WholeLines

\* On a terminal, lines of different processes are not torn.
THEOREM LinesAreWhole ==
    ASSUME Terminal
    PROVE  Spec => []WholeLines
<1>1. Init => TypeInv /\ TerminalInv
  BY InitTypeInv, InitTerminalInv
<1>2. TypeInv /\ TerminalInv /\ [Next]_vars => (TypeInv /\ TerminalInv)'
  BY TypeInvIsInductive, TerminalInvIsInductive
<1>3. TerminalInv => WholeLines
  BY DEF TerminalInv
<1>. QED BY <1>1, <1>2, <1>3, PTL DEF Spec
=============================================================================
