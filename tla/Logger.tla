------------------------------- MODULE Logger -------------------------------
(***************************************************************************)
(* The file activity logger of HW2: the launcher hw2, and logger.so inside *)
(* every process of the monitored program.                                 *)
(*                                                                         *)
(* logger.so interposes the monitored library calls.  Each makes the real  *)
(* call first and prints a line on a stdio stream afterwards; the process  *)
(* may be killed in between.  The stream lives in the memory of the        *)
(* process: fork copies what it buffers, exec and a violent end lose it.   *)
(* It writes to a descriptor that the monitored program has inherited, can *)
(* close, and can get again from its next open.                            *)
(*                                                                         *)
(* A line is abstracted to two units, so that a buffer may end within a    *)
(* line.  What a line says is abstracted to the call it is about, the      *)
(* n-th of its process.  The program keeps output_fd in its environment,   *)
(* and does not put a file in the place of a descriptor without closing it *)
(* first, as dup2 does.                                                    *)
(***************************************************************************)
EXTENDS Naturals, Sequences, FiniteSets, FiniteSetsExt

CONSTANTS
    Proc, First,  \* the processes, and the one hw2 turns into the program
    File,         \* files the program opens
    MaxFd,        \* bound on the descriptors of a process
    MaxCalls,     \* bound on the monitored calls of a process
    BufSize,      \* units that the stream of a regular file buffers
    StderrTty,    \* stderr of the launcher is a terminal
    Targets,      \* "stderr", or "output" for -o
    Program       \* what the program does besides monitored calls

ASSUME LoggerAssumption ==
    /\ First \in Proc
    \* The program does not open the log itself.
    /\ File \cap {"stderr", "output", "tmp", "closed", "none"} = {}
    /\ MaxFd \in Nat /\ MaxFd > 4
    \* A line is not longer than the buffer.
    /\ MaxCalls \in Nat /\ BufSize \in Nat /\ BufSize > 1
    /\ StderrTty \in BOOLEAN
    /\ Targets \subseteq {"stderr", "output"}
    /\ Program \subseteq {"fork", "exec", "abort",
                          "close",  \* closes descriptors it has not opened
                          "fail"}   \* makes reads that fail

VARIABLES
    status,       \* of each process
    fds, own,     \* its descriptors, and those it knows it has
    output_fd,    \* the environment variable that hw2 sets
    target,       \* what output_fd was a descriptor of
    output_file,  \* the static variable of getoutputfile, by process
    logging,      \* a process is between its call and the line about it
    made, image,  \* calls made by a process; those made before its last exec
    mode,         \* files, with the mode asked for or another one
    written,      \* what the loggers have written to the target
    stray,        \* what they have written anywhere else
    cut           \* history: the processes that have closed output_fd, not their own

environment == <<output_fd, target>>
descriptors == <<fds, own, cut>>
output == <<written, stray>>
vars == <<status, output_file, logging, made, image, mode,
          environment, descriptors, output>>

Fds == 0..MaxFd
Standard == {0, 1, 2}
Descriptions == {"stderr", "output", "tmp"} \cup File
Closed == "closed"
AllClosed == [fd \in Fds |-> Closed]

Running(p) == status[p] = "running"
Free(p) == {fd \in Fds : fds[p][fd] = Closed}

\* The units of the line about the n-th call of process p.
Line(p, n) == <<<<p, n, 1>>, <<p, n, 2>>>>
Unit == Proc \X Nat \X {1, 2}

\* "static FILE *output_file = NULL", and an open stream.
NoFile == [open |-> FALSE, fd |-> 0, line |-> FALSE, buf |-> <<>>]
Stream == [open : BOOLEAN, fd : Fds, line : BOOLEAN, buf : Seq(Unit)]

Init ==
    /\ status = [p \in Proc |-> IF p = First THEN "launcher" ELSE "unborn"]
    /\ fds = [p \in Proc |->
                [fd \in Fds |-> IF p = First /\ fd \in Standard THEN "stderr"
                                ELSE Closed]]
    /\ own = [p \in Proc |-> IF p = First THEN Standard ELSE {}]
    /\ output_fd = 0 /\ target = "none"
    /\ output_file = [p \in Proc |-> NoFile]
    /\ logging = [p \in Proc |-> FALSE]
    /\ made = [p \in Proc |-> 0] /\ image = [p \in Proc |-> 0]
    /\ mode = [f \in File |-> "absent"]
    /\ written = <<>> /\ stray = <<>> /\ cut = {}

\* The process ends: the kernel closes its descriptors, its memory is gone.
End(p, how) ==
    /\ status' = [status EXCEPT ![p] = how]
    /\ logging' = [logging EXCEPT ![p] = FALSE]
    /\ output_file' = [output_file EXCEPT ![p] = NoFile]
    /\ fds' = [fds EXCEPT ![p] = AllClosed]
    /\ own' = [own EXCEPT ![p] = {}]
    /\ UNCHANGED <<made, image, mode, environment, cut>>

-----------------------------------------------------------------------------
(* hw2 *)

\* -o opens a file, at the lowest descriptor; stderr is used without it.
Output(t) == IF t = "stderr" THEN 2 ELSE Min(Free(First))

\* The duplicate of output that the program inherits.
NoDup(t) == Output(t)
Dup(t) == Min(Free(First) \ {Output(t)})

Launch(t) ==
    /\ status[First] = "launcher"
    /\ fds' = [fds EXCEPT ![First][Output(t)] = t, ![First][Dup(t)] = t]
    /\ output_fd' = Dup(t) /\ target' = t
    /\ status' = [status EXCEPT ![First] = "running"]
    /\ UNCHANGED <<own, cut, output_file, logging, made, image, mode, output>>

\* No command, a bad option, a file that cannot be opened, a failed execvp.
LaunchFails ==
    /\ status[First] = "launcher"
    /\ End(First, "failed")
    /\ UNCHANGED output

-----------------------------------------------------------------------------
(* The real calls *)

\* A process has entered a monitored call and made the real one.
Call(p) ==
    /\ Running(p) /\ ~logging[p] /\ made[p] < MaxCalls
    /\ made' = [made EXCEPT ![p] = @ + 1]
    /\ logging' = [logging EXCEPT ![p] = TRUE]
    /\ UNCHANGED <<status, output_file, image, environment, output>>

\* Something in the interposed function makes the process crash.
Crash(p) == Running(p) /\ End(p, "crashed") /\ UNCHANGED output

\* The lowest free descriptor now stands for d, if there is one.
Acquire(p, d) ==
    \/ /\ Free(p) # {}
       /\ fds' = [fds EXCEPT ![p][Min(Free(p))] = d]
       /\ own' = [own EXCEPT ![p] = @ \cup {Min(Free(p))}]
       /\ UNCHANGED cut
    \/ Free(p) = {} /\ UNCHANGED descriptors

Creates(p, f) == mode[f] = "absent" /\ Free(p) # {}

\* open passes no mode on: the file is created with whatever is in the
\* register of the third argument.
OpenModes == {"asked", "other"}
Open(p, f) ==
    /\ Call(p) /\ Acquire(p, f)
    /\ \/ Creates(p, f) /\ \E m \in OpenModes : mode' = [mode EXCEPT ![f] = m]
       \/ ~Creates(p, f) /\ UNCHANGED mode

Creat(p, f) ==
    /\ Call(p) /\ Acquire(p, f)
    /\ mode' = IF Creates(p, f) THEN [mode EXCEPT ![f] = "asked"] ELSE mode

Fopen(p, f) == Creat(p, f)

\* getfilename dereferences the stream, which is NULL when there is none.
Tmpfile(p) ==
    \/ Free(p) # {} /\ Call(p) /\ Acquire(p, "tmp") /\ UNCHANGED mode
    \/ Free(p) = {} /\ ~logging[p] /\ Crash(p)

Release(p, fd) ==
    /\ Call(p)
    /\ fds' = [fds EXCEPT ![p][fd] = Closed]
    /\ own' = [own EXCEPT ![p] = @ \ {fd}]
    /\ cut' = IF fd = output_fd /\ fd \notin own[p] THEN cut \cup {p} ELSE cut
    /\ UNCHANGED mode

Close(p, fd) == (fd \in own[p] \/ "close" \in Program) /\ Release(p, fd)
Fclose(p, fd) == fd \in own[p] /\ Release(p, fd)

\* Also rename to a name that is not in File.
Remove(p, f) ==
    /\ Call(p)
    /\ mode' = [mode EXCEPT ![f] = "absent"]
    /\ UNCHANGED descriptors

\* fread, fwrite, write, chmod, chown.
Transfer(p) == Call(p) /\ UNCHANGED <<descriptors, mode>>

\* A read that returns -1 is followed by memcpy of -1 bytes.
Read(p) ==
    \/ Transfer(p)
    \/ "fail" \in Program /\ ~logging[p] /\ Crash(p)

-----------------------------------------------------------------------------
(* The line about the call *)

\* stdio buffers lines on a terminal and blocks elsewhere.
NotLineBuffered(d) == FALSE
LineBuffered(d) == d = "stderr" /\ StderrTty

\* getoutputfile; fdopen fails on a descriptor that is closed.
FileReady(p) == output_file[p].open \/ fds[p][output_fd] # Closed
GetOutputFile(p) ==
    IF output_file[p].open THEN output_file[p]
    ELSE [open |-> TRUE, fd |-> output_fd,
          line |-> LineBuffered(fds[p][output_fd]), buf |-> <<>>]

\* fdopen keeps what the target holds, which fopen would not.
EmptiedTarget(p) == IF output_file[p].open THEN written ELSE <<>>
OpenedTarget(p) == written

\* Without "static" every line would have a stream of its own, and exit would
\* flush the newest first.
BufferedFirst(p) == Line(p, made[p]) \o GetOutputFile(p).buf
Buffered(p) == GetOutputFile(p).buf \o Line(p, made[p])

\* A write to the descriptor of the stream.
Emit(p, kept, units) ==
    LET d == fds[p][GetOutputFile(p).fd]
    IN  /\ written' = IF d = target THEN kept \o units ELSE kept
        /\ stray' = IF d \notin {target, Closed} THEN stray \o units ELSE stray

\* How much of the buffer fprintf flushes: a stream of lines is flushed, any
\* other one when its buffer is full.
Flushed(p) ==
    IF GetOutputFile(p).line THEN Len(Buffered(p))
    ELSE IF Len(Buffered(p)) > BufSize THEN BufSize ELSE 0

Log(p) ==
    /\ Running(p) /\ logging[p] /\ FileReady(p)
    /\ Emit(p, OpenedTarget(p), SubSeq(Buffered(p), 1, Flushed(p)))
    /\ output_file' = [output_file EXCEPT ![p] =
           [GetOutputFile(p) EXCEPT !.buf =
               SubSeq(Buffered(p), Flushed(p) + 1, Len(Buffered(p)))]]
    /\ logging' = [logging EXCEPT ![p] = FALSE]
    /\ UNCHANGED <<status, made, image, mode, environment, descriptors>>

\* fprintf to a NULL stream.
LogFails(p) == logging[p] /\ ~FileReady(p) /\ Crash(p)

-----------------------------------------------------------------------------
(* What else the program does *)

Fork(p, q) ==
    /\ "fork" \in Program
    /\ Running(p) /\ ~logging[p] /\ status[q] = "unborn"
    /\ status' = [status EXCEPT ![q] = "running"]
    /\ fds' = [fds EXCEPT ![q] = fds[p]]
    /\ own' = [own EXCEPT ![q] = own[p]]
    /\ cut' = IF p \in cut THEN cut \cup {q} ELSE cut
    /\ output_file' = [output_file EXCEPT ![q] = output_file[p]]
    /\ UNCHANGED <<logging, made, image, mode, environment, output>>

\* The new image has its own copy of logger.so.
Exec(p) ==
    /\ "exec" \in Program
    /\ Running(p) /\ ~logging[p]
    /\ output_file' = [output_file EXCEPT ![p] = NoFile]
    /\ image' = [image EXCEPT ![p] = made[p]]
    /\ UNCHANGED <<status, logging, made, mode, environment, descriptors, output>>

\* exit flushes the stream.
Exit(p) ==
    /\ Running(p) /\ ~logging[p]
    /\ \/ output_file[p].open /\ Emit(p, written, output_file[p].buf)
       \/ ~output_file[p].open /\ UNCHANGED output
    /\ End(p, "exited")

\* _exit, or a signal, at any time.
Abort(p) ==
    /\ "abort" \in Program
    /\ Running(p) /\ End(p, "aborted")
    /\ UNCHANGED output

Over == /\ \A p \in Proc : status[p] \notin {"launcher", "running"}
        /\ UNCHANGED vars

MonitoredCall(p) ==
    \/ \E f \in File : Open(p, f) \/ Creat(p, f) \/ Fopen(p, f) \/ Remove(p, f)
    \/ \E fd \in Fds : Close(p, fd) \/ Fclose(p, fd)
    \/ Tmpfile(p) \/ Transfer(p) \/ Read(p)

Next ==
    \/ \E t \in Targets : Launch(t)
    \/ LaunchFails
    \/ \E p \in Proc : \/ MonitoredCall(p) \/ Log(p) \/ LogFails(p)
                       \/ Exec(p) \/ Exit(p) \/ Abort(p)
                       \/ \E q \in Proc : Fork(p, q)
    \/ Over

Spec == Init /\ [][Next]_vars

-----------------------------------------------------------------------------
(* Properties *)

\* The type of the state; the program does not know that it has the
\* descriptor of the log.
TypeOK ==
    /\ status \in [Proc -> {"unborn", "launcher", "failed", "running",
                            "exited", "aborted", "crashed"}]
    /\ fds \in [Proc -> [Fds -> Descriptions \cup {Closed}]]
    /\ own \in [Proc -> SUBSET Fds]
    /\ \A p \in Proc : p \notin cut => output_fd \notin own[p] \/ target = "none"
    /\ output_fd \in Fds /\ target \in Targets \cup {"none"}
    /\ output_file \in [Proc -> Stream]
    /\ \A p \in Proc : Len(output_file[p].buf) <= BufSize
    /\ logging \in [Proc -> BOOLEAN]
    /\ made \in [Proc -> 0..MaxCalls] /\ image \in [Proc -> 0..MaxCalls]
    /\ mode \in [File -> {"absent"} \cup OpenModes]
    /\ written \in Seq(Unit) /\ stray \in Seq(Unit)
    /\ cut \subseteq Proc

Places(p, n, half) == {i \in DOMAIN written : written[i] = <<p, n, half>>}

\* What a process does after its last exec is in the log once it has exited,
\* if the descriptor of the log has been left alone: whatever its children
\* inherit, and however often the buffer has been flushed before.
ExitComplete ==
    \A p \in Proc :
        status[p] = "exited" /\ p \notin cut =>
            \A n \in (image[p] + 1)..made[p] :
                \E i \in Places(p, n, 1), j \in Places(p, n, 2) : i < j

\* The lines of one image of a process appear in the order of its calls,
\* though copies of its buffer are flushed by other processes at any time.
InOrder ==
    \A p \in Proc : \A n \in (image[p] + 1)..(made[p] - 1) :
        Places(p, n, 1) # {} =>
            \A i \in Places(p, n + 1, 1) : \E j \in Places(p, n, 1) : j < i

\* No line lands in a file of the program, even one that is opened at the
\* lowest free descriptor, unless a process has closed the descriptor of the
\* log, which it has not opened.
OnlyTheTarget == stray # <<>> => cut # {}

\* Lines of different processes are not torn: every other unit begins a line
\* and the next one ends it.
WholeLines ==
    \A i \in DOMAIN written :
        written[i] = IF i % 2 = 1
                     THEN <<written[i][1], written[i][2], 1>>
                     ELSE <<written[i - 1][1], written[i - 1][2], 2>>

\* "You have to dump the library calls" (README.md:9): the calls of a
\* program that has ended by exit are in the log, once each.
LoggedOnce ==
    \A p \in Proc :
        status[p] = "exited" =>
            \A n \in 1..made[p] : Cardinality(Places(p, n, 1)) = 1

\* An "arbitrary binary" (README.md:9) survives being monitored.
Harmless == \A p \in Proc : status[p] # "crashed"
=============================================================================
