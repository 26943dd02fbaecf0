------------------------------ MODULE LibMini ------------------------------
(***************************************************************************)
(* The C library of HW3 in a process whose signal handlers call it too:    *)
(* errno and perror, signals, setjmp and longjmp.                          *)
(*                                                                         *)
(* The process is a stack of activations, main at the bottom and a handler *)
(* for every signal that is being handled.  The kernel may start a handler *)
(* between any two steps of the library.  A library function that a signal *)
(* can interrupt where it matters takes two steps, and at is where the     *)
(* activation is between them.  The remaining functions are one system     *)
(* call, after which errno is set.                                         *)
(***************************************************************************)
EXTENDS Integers, Sequences, FiniteSets, SequencesExt

CONSTANTS
    Sig,        \* the signals
    Errors,     \* errors that system calls return
    Masks,      \* values of sa_mask that the program gives to sigaction
    MaxDepth,   \* bound on the activations
    MaxDrift    \* bound on the words that longjmp moves the stack by

EINTR == 4
PERRMSG_MAX == 34

ASSUME LibMiniAssumption ==
    /\ Sig \subseteq 1..64
    /\ Masks \subseteq SUBSET Sig
    /\ Errors \subseteq Nat \ {0} /\ EINTR \in Errors
    /\ MaxDepth \in Nat \ {0} /\ MaxDrift \in Nat

VARIABLES
    stack,      \* the activations, the running one last; empty at the end;
                \* rsp of each in words, 0 where it should be
    blocked, pending, action,   \* the signals of the process
    env,        \* the jmp_buf
    errno,
    printed,    \* what perror has printed in the last step, or Nothing
    error       \* history: the error of the last call of main, Unclear if a
                \* handler has called the library since

signals == <<blocked, pending, action>>
vars == <<stack, blocked, pending, action, env, errno, printed, error>>

Depth == Len(stack)
Top == Last(stack)
InMain == Depth = 1

\* Moves the running activation from one place to another.
Goto(from, to) ==
    /\ stack # <<>> /\ Top.at = from
    /\ stack' = [stack EXCEPT ![Depth].at = to]

\* An activation: the signal, or 0 in main, and the mask to go back to.
Activation(s, saved) ==
    [sig |-> s, saved |-> saved, at |-> "client", backup |-> 0, rsp |-> 0]

\* What perror prints besides messages.
Nothing == -1
Unknown == -2
Garbage == -3
Unclear == -4

\* The jmp_buf as setjmp fills it, the activation that its registers belong to,
\* the mask with which setjmp was last called and the stack pointer with which
\* it last returned.
NoJmpBuf == [ready |-> FALSE, depth |-> 1, mask |-> {}, rsp |-> 0, was |-> {}, ret |-> 0]

Handlers == {"SIG_DFL", "SIG_IGN", "handler"}

Init ==
    /\ stack = <<Activation(0, {})>>
    /\ blocked = {} /\ pending = {}
    /\ action = [s \in Sig |-> [handler |-> "SIG_DFL", mask |-> {}]]
    /\ env = NoJmpBuf
    /\ errno = 0 /\ printed = Nothing /\ error = 0

-----------------------------------------------------------------------------
(* System calls and errno *)

\* WRAPPER_RETval of what the kernel returns.
RawError(ret) == IF ret < 0 THEN ret ELSE 0
ErrnoOf(ret) == IF ret < 0 THEN -ret ELSE 0

Return(ret) ==
    /\ errno' = ErrnoOf(ret)
    /\ error' = IF InMain THEN -ret ELSE Unclear
    /\ printed' = Nothing

ErrnoKept == printed' = Nothing /\ UNCHANGED <<errno, error>>

\* A function that is a system call and its wrapper, with any result.  Those
\* that refuse a signal number set errno in the same way.
Wrapper ==
    /\ Goto("client", "client")
    /\ \E e \in Errors \cup {0} : Return(-e)
    /\ UNCHANGED <<signals, env>>

\* perror in main.  Its writes, which succeed, set errno before it looks at
\* the error.
Perror ==
    /\ InMain /\ Top.at = "client"
    /\ stack' = [stack EXCEPT ![1].at = "perror", ![1].backup = errno]
    /\ \E prefix \in BOOLEAN : errno' = IF prefix THEN 0 ELSE errno
    /\ printed' = Nothing
    /\ UNCHANGED <<signals, env, error>>

MessageOfErrno == errno
Message == Top.backup

PerrorPrints ==
    /\ stack # <<>> /\ Top.at = "perror"
    /\ stack' = [stack EXCEPT ![1].at = "client", ![1].backup = 0]
    /\ printed' = IF errno > PERRMSG_MAX THEN Unknown
                  ELSE IF Message > PERRMSG_MAX THEN Garbage
                  ELSE Message
    /\ errno' = 0 /\ error' = 0
    /\ UNCHANGED <<signals, env>>

-----------------------------------------------------------------------------
(* Signals *)

\* sigaction; to ignore a signal discards one that is pending.  The mask is
\* that of the handler, if there is one.
Sigaction(s, h, mask) ==
    /\ Goto("client", "client")
    /\ action' = [action EXCEPT ![s] = [handler |-> h,
                                 mask |-> IF h = "handler" THEN mask ELSE {}]]
    /\ pending' = IF h = "SIG_IGN" THEN pending \ {s} ELSE pending
    /\ Return(0)
    /\ UNCHANGED <<blocked, env>>

Signal(s, h) == Sigaction(s, h, {s})

\* A handler of the program only blocks signals.
Sigprocmask(how, set) ==
    /\ Goto("client", "client")
    /\ InMain \/ how = "SIG_BLOCK"
    /\ blocked' = CASE how = "SIG_BLOCK" -> blocked \cup set
                    [] how = "SIG_UNBLOCK" -> blocked \ set
                    [] how = "SIG_SETMASK" -> set
    /\ Return(0)
    /\ UNCHANGED <<pending, action, env>>

\* pause waits for a handler to run.
Pause ==
    /\ Goto("client", "pause")
    /\ ErrnoKept /\ UNCHANGED <<signals, env>>

\* sleep ends in its time, or with a handler; it leaves errno alone.
Sleep ==
    /\ Goto("client", "sleep")
    /\ ErrnoKept /\ UNCHANGED <<signals, env>>

SleepEnds ==
    /\ Goto("sleep", "client")
    /\ ErrnoKept /\ UNCHANGED <<signals, env>>

\* The kernel drops a signal that is ignored, unless it is blocked.
Raise(s) ==
    /\ stack # <<>> /\ s \notin pending
    /\ action[s].handler # "SIG_IGN" \/ s \in blocked
    /\ pending' = pending \cup {s}
    /\ ErrnoKept /\ UNCHANGED <<stack, blocked, action, env>>

\* No flag that sigaction or signal sets lets a handler be interrupted by its
\* own signal.
MaskWithNodefer(s) == action[s].mask
HandlerMask(s) == action[s].mask \cup {s}

Deliver(s) ==
    /\ stack # <<>> /\ Depth < MaxDepth
    /\ s \in pending \ blocked /\ action[s].handler = "handler"
    /\ stack' = Append(stack, Activation(s, blocked))
    /\ blocked' = blocked \cup HandlerMask(s)
    /\ pending' = pending \ {s}
    /\ ErrnoKept /\ UNCHANGED <<action, env>>

\* The end of a handler, through __myrt; a call below it that waits returns,
\* and a jmp_buf that the handler has set is of no use any more.
HandlerReturns ==
    /\ stack # <<>> /\ ~InMain /\ Top.at = "client"
    /\ blocked' = Top.saved
    /\ env' = IF env.depth = Depth THEN NoJmpBuf ELSE env
    /\ LET below == Depth - 1
           place == stack[below].at
       IN  /\ stack' = [Front(stack) EXCEPT ![below].at =
                           IF place \in {"pause", "sleep"} THEN "client" ELSE place]
           /\ errno' = IF place = "pause" THEN ErrnoOf(-EINTR) ELSE errno
           /\ printed' = Nothing
           /\ error' = IF place # "pause" THEN error
                       ELSE IF below = 1 THEN EINTR ELSE Unclear
    /\ UNCHANGED <<pending, action>>

\* exit, or a signal that kills the process: SIGKILL may come at any place.
Exit ==
    /\ stack # <<>>
    /\ stack' = <<>>
    /\ ErrnoKept /\ UNCHANGED <<signals, env>>

\* The kernel does not deliver a signal that has come to be ignored.
Discard(s) ==
    /\ stack # <<>> /\ s \in pending \ blocked /\ action[s].handler = "SIG_IGN"
    /\ pending' = pending \ {s}
    /\ ErrnoKept /\ UNCHANGED <<stack, blocked, action, env>>

-----------------------------------------------------------------------------
(* setjmp and longjmp *)

\* sigsetjmp, in main or in a handler.  The jmp_buf is not set while setjmp or
\* longjmp is at work on it further down.  A jmp_buf that is filled again has
\* the new mask and, until setjmp returns, the old registers: a handler may
\* jump through it meanwhile.
NoSavedMask == {}
SavedMask == blocked

Setjmp ==
    /\ \A i \in DOMAIN stack : stack[i].at \notin {"setjmp", "longjmp"}
    /\ Goto("client", "setjmp") /\ Top.rsp > -MaxDrift
    /\ env' = [env EXCEPT !.mask = SavedMask, !.was = blocked]
    /\ Return(0)
    /\ UNCHANGED signals

\* The registers, taken as one step: rsp points to the return address, one word
\* below where it is when setjmp has returned.
SavedRsp == Top.rsp - 1

SetjmpReturns ==
    /\ Goto("setjmp", "client")
    /\ env' = [env EXCEPT !.ready = TRUE, !.depth = Depth,
                           !.rsp = SavedRsp, !.ret = Top.rsp]
    /\ ErrnoKept /\ UNCHANGED signals

\* siglongjmp.  Signals that it unblocks are handled on the stack that is
\* about to be left.
BlockedMask == blocked \cup env.mask
JumpMask == env.mask

Longjmp ==
    /\ env.ready /\ Goto("client", "longjmp")
    /\ blocked' = JumpMask
    /\ Return(0)
    /\ UNCHANGED <<pending, action, env>>

\* The rest of longjmp pushes the return address below the saved rsp and
\* pops it again.
LandedRsp == env.rsp

Lands ==
    /\ stack # <<>> /\ Top.at = "longjmp"
    /\ stack' = Append(SubSeq(stack, 1, env.depth - 1),
                       [stack[env.depth] EXCEPT !.at = "client", !.rsp = LandedRsp])
    /\ error' = Unclear
    /\ printed' = Nothing
    /\ UNCHANGED <<signals, env, errno>>

-----------------------------------------------------------------------------
Library ==
    \/ Wrapper \/ Perror \/ PerrorPrints \/ Pause \/ Sleep \/ SleepEnds
    \/ Setjmp \/ SetjmpReturns \/ Longjmp \/ Lands
    \/ \E s \in Sig, h \in Handlers :
          Signal(s, h) \/ \E mask \in Masks : Sigaction(s, h, mask)
    \/ \E how \in {"SIG_BLOCK", "SIG_UNBLOCK", "SIG_SETMASK"}, set \in SUBSET Sig :
          Sigprocmask(how, set)

Kernel ==
    \/ \E s \in Sig : Raise(s) \/ Deliver(s) \/ Discard(s)
    \/ HandlerReturns \/ Exit

Ended == stack = <<>> /\ UNCHANGED vars

Next == Library \/ Kernel \/ Ended

Spec == Init /\ [][Next]_vars

-----------------------------------------------------------------------------
(* Properties *)

\* The type of the state.
TypeOK ==
    /\ stack \in Seq([sig : Sig \cup {0}, saved : SUBSET Sig,
                      at : {"client", "perror", "pause", "sleep", "setjmp", "longjmp"},
                      backup : Errors \cup {0}, rsp : -MaxDrift..0])
    /\ Depth <= MaxDepth
    /\ blocked \in SUBSET Sig /\ pending \in SUBSET Sig
    /\ action \in [Sig -> [handler : Handlers, mask : SUBSET Sig]]
    /\ env \in [ready : BOOLEAN, depth : 1..MaxDepth, mask : SUBSET Sig, was : SUBSET Sig,
                rsp : -MaxDrift..0, ret : -MaxDrift..0]
    /\ errno \in Errors \cup {0}
    /\ error \in Errors \cup {0, Unclear}
    /\ printed \in Errors \cup {0, Nothing, Unknown, Garbage}

\* Whatever handlers longjmp leaves, whatever handlers run while it is leaving
\* them, and even if the jmp_buf was being filled again, main, or the handler
\* that had called setjmp, goes on with the signals blocked that were blocked
\* when setjmp was last called: no signal stays blocked because its handler
\* never ended.
JumpRestoresMask ==
    [][stack # <<>> /\ Top.at = "longjmp" /\ stack' # <<>> /\ Last(stack').at = "client"
          /\ Len(stack') <= Depth
         => blocked' = env.was]_vars

\* A handler is entered again before it has ended only on top of a longjmp,
\* which has unblocked the signal and never goes back to that handler.
NotReentered ==
    \A i, j \in DOMAIN stack :
        i < j /\ stack[i].sig = stack[j].sig =>
            \E k \in i..(j - 1) : stack[k].at = "longjmp"

\* perror in main tells the error of the last call of main, as its table has
\* it, though its own writes set errno, and handlers that only return, as the
\* one that ends a pause, come in between.
ErrorReported ==
    [][printed' \notin {printed, Nothing} /\ error \in 0..PERRMSG_MAX
         => printed' = error]_vars

\* longjmp returns "to setjmp" (libmini64.asm:162): the stack pointer is what
\* it was when setjmp returned.
LandsBalanced ==
    [][stack # <<>> /\ Top.at = "longjmp" /\ stack' # <<>> /\ Last(stack').at = "client"
          /\ Len(stack') <= Depth
         => Last(stack').rsp = env.ret]_vars
=============================================================================
