--------------------------- MODULE LibMiniProofs ---------------------------
(* Signals, jumps and errors of the library, for any signals, any errors   *)
(* and handlers nested to any depth.                                       *)
EXTENDS LibMini, TLAPS

Frame == [sig : Sig \cup {0}, saved : SUBSET Sig,
          at : {"client", "perror", "pause", "sleep", "setjmp", "longjmp"},
          backup : Errors \cup {0}, rsp : -MaxDrift..0]

\* The signals that are blocked while the activation i runs.
MaskAt(i) == IF i = Depth THEN blocked ELSE stack[i + 1].saved

\* An activation that is not at work on the jmp_buf.
Idle(f) == f.at \notin {"setjmp", "longjmp"}

(***************************************************************************)
(* Shape relates the activations to the jmp_buf: it belongs to one of      *)
(* them, whoever fills or uses it is that one or above it, and nobody      *)
(* below one who fills it is at work on it.                                *)
(***************************************************************************)
Shape ==
    /\ stack # <<>> => env.depth <= Depth
    /\ \A i \in DOMAIN stack :
         /\ stack[i].sig = 0 <=> i = 1
         /\ stack[i].at = "perror" => i = 1
         /\ stack[i].at = "setjmp" => stack[i].rsp > -MaxDrift /\ env.depth <= i
         /\ stack[i].at = "longjmp" => env.depth <= i
         /\ stack[i].at = "setjmp" => \A j \in 1..(i - 1) : Idle(stack[j])

TypeInv == TypeOK /\ Shape

-----------------------------------------------------------------------------
(* Stacks *)

LEMMA FrameFacts ==
    ASSUME NEW S, NEW s \in Seq(S)
    PROVE  /\ Len(s) \in Nat /\ DOMAIN s = 1..Len(s) /\ s \in [1..Len(s) -> S]
           /\ s # <<>> => Len(s) > 0
OBVIOUS

LEMMA SeqFacts ==
    ASSUME NEW S, NEW n \in Nat, NEW f \in [1..n -> S]
    PROVE  f \in Seq(S) /\ Len(f) = n
OBVIOUS

\* The changes that the actions make to the stack, activation by activation.
LEMMA StackFacts ==
    ASSUME TypeOK
    PROVE  /\ Depth \in Nat /\ DOMAIN stack = 1..Depth
           /\ stack \in [1..Depth -> Frame]
           /\ stack # <<>> => Depth > 0 /\ Top = stack[Depth]
           /\ Depth > 0 => stack # <<>>
<1>1. stack \in Seq(Frame)
  BY DEF TypeOK, Frame
<1>2. Depth > 0 => stack # <<>>
  BY <1>1 DEF Depth
<1>. HIDE DEF Frame
<1>. QED BY <1>1, <1>2, FrameFacts DEF Depth, Top, Last

LEMMA ChangeFacts ==
    ASSUME TypeOK, NEW i \in 1..Depth, NEW e \in Frame, stack' = [stack EXCEPT ![i] = e]
    PROVE  /\ stack' \in Seq(Frame) /\ Depth' = Depth
           /\ \A j \in 1..Depth : stack'[j] = IF j = i THEN e ELSE stack[j]
<1>1. Depth \in Nat /\ stack \in [1..Depth -> Frame]
  BY StackFacts
<1>. HIDE DEF Frame
<1>2. stack' \in [1..Depth -> Frame]
  BY <1>1
<1>3. stack' \in Seq(Frame) /\ Len(stack') = Depth
  BY <1>1, <1>2, SeqFacts
<1>. QED BY <1>1, <1>3 DEF Depth

LEMMA GotoFacts ==
    ASSUME TypeOK, NEW from,
           NEW to \in {"client", "pause", "sleep", "setjmp", "longjmp"}, Goto(from, to)
    PROVE  /\ stack' \in Seq(Frame) /\ Depth' = Depth /\ Depth > 0
           /\ stack # <<>> /\ stack' # <<>> /\ stack[Depth].at = from
           /\ \A j \in 1..Depth : stack'[j] = IF j = Depth THEN [stack[j] EXCEPT !.at = to]
                                              ELSE stack[j]
<1>2. Depth \in Nat /\ Depth > 0 /\ stack \in [1..Depth -> Frame] /\ stack # <<>>
      /\ Top = stack[Depth] /\ Top.at = from
  BY StackFacts DEF Goto
<1>. DEFINE e == [stack[Depth] EXCEPT !.at = to]
<1>3. e \in Frame
  BY <1>2 DEF Frame
<1>4. stack' = [stack EXCEPT ![Depth] = e]
  BY <1>2 DEF Goto
<1>5. Depth \in 1..Depth
  BY <1>2
<1>6. /\ stack' \in Seq(Frame) /\ Depth' = Depth
      /\ \A j \in 1..Depth : stack'[j] = IF j = Depth THEN e ELSE stack[j]
  <2>. HIDE DEF e, Frame
  <2>. QED BY <1>3, <1>4, <1>5, ChangeFacts
<1>7. stack' # <<>>
  BY <1>2, <1>6 DEF Depth
<1>. QED BY <1>2, <1>6, <1>7

LEMMA DeliverFacts ==
    ASSUME TypeOK, NEW s \in Sig, stack # <<>>, stack' = Append(stack, Activation(s, blocked))
    PROVE  /\ stack' \in Seq(Frame) /\ Depth' = Depth + 1
           /\ \A j \in 1..Depth : stack'[j] = stack[j]
           /\ stack'[Depth + 1] = Activation(s, blocked)
<1>1. Activation(s, blocked) \in Frame
  BY LibMiniAssumption DEF TypeOK, Activation, Frame
<1>2. stack \in Seq(Frame)
  BY DEF TypeOK, Frame
<1>. HIDE DEF Frame
<1>. QED BY <1>1, <1>2 DEF Depth

LEMMA FrontFacts ==
    ASSUME TypeOK, Depth > 1, NEW e \in Frame,
           stack' = [Front(stack) EXCEPT ![Depth - 1] = e]
    PROVE  /\ stack' \in Seq(Frame) /\ Depth' = Depth - 1
           /\ \A j \in 1..(Depth - 1) :
                stack'[j] = IF j = Depth - 1 THEN e ELSE stack[j]
<1>1. stack \in Seq(Frame) /\ Depth \in Nat
  BY StackFacts DEF TypeOK, Frame
<1>. HIDE DEF Frame
<1>2. /\ Front(stack) \in [1..(Depth - 1) -> Frame]
      /\ \A j \in 1..(Depth - 1) : Front(stack)[j] = stack[j]
  <2>1. /\ SubSeq(stack, 1, Depth - 1) \in Seq(Frame)
        /\ Len(SubSeq(stack, 1, Depth - 1)) = Depth - 1
        /\ \A j \in 1..(Depth - 1) : SubSeq(stack, 1, Depth - 1)[j] = stack[j]
    BY <1>1 DEF Depth
  <2>. QED BY <2>1, FrameFacts DEF Front, Depth
<1>3. Depth - 1 \in Nat /\ Depth - 1 \in 1..(Depth - 1)
  BY <1>1
<1>4. /\ stack' \in [1..(Depth - 1) -> Frame]
      /\ \A j \in 1..(Depth - 1) : stack'[j] = IF j = Depth - 1 THEN e ELSE stack[j]
  BY <1>2, <1>3
<1>5. stack' \in Seq(Frame) /\ Len(stack') = Depth - 1
  BY <1>3, <1>4, SeqFacts
<1>. QED BY <1>4, <1>5 DEF Depth

LEMMA ReturnFacts ==
    ASSUME TypeOK, HandlerReturns
    PROVE  /\ stack' \in Seq(Frame) /\ Depth > 1 /\ Depth' = Depth - 1
           /\ \A j \in 1..(Depth - 1) :
                stack'[j] = IF j = Depth - 1 /\ stack[j].at \in {"pause", "sleep"}
                            THEN [stack[j] EXCEPT !.at = "client"] ELSE stack[j]
<1>1. /\ Depth \in Nat /\ Depth > 1 /\ stack \in [1..Depth -> Frame]
  BY StackFacts DEF HandlerReturns, InMain
<1>. DEFINE f == stack[Depth - 1]
            to == IF f.at \in {"pause", "sleep"} THEN "client" ELSE f.at
            e == [f EXCEPT !.at = to]
<1>2. f \in Frame /\ Depth - 1 \in 1..(Depth - 1)
  BY <1>1
<1>3. e \in Frame /\ e = IF f.at \in {"pause", "sleep"}
                         THEN [f EXCEPT !.at = "client"] ELSE f
  BY <1>2 DEF Frame
<1>4. stack' = [Front(stack) EXCEPT ![Depth - 1] = e]
  <2>1. stack' = [Front(stack) EXCEPT ![Depth - 1].at = to]
    BY DEF HandlerReturns
  <2>2. Front(stack)[Depth - 1] = f
    <3>. HIDE DEF Frame
    <3>1. stack \in Seq(Frame)
      BY DEF TypeOK, Frame
    <3>. QED BY <3>1, <1>1, <1>2 DEF Front, Depth
  <2>. QED BY <2>1, <2>2
<1>5. /\ stack' \in Seq(Frame) /\ Depth' = Depth - 1
      /\ \A j \in 1..(Depth - 1) : stack'[j] = IF j = Depth - 1 THEN e ELSE stack[j]
  <2>. HIDE DEF e, Frame
  <2>. QED BY <1>1, <1>3, <1>4, FrontFacts
<1>. QED BY <1>1, <1>3, <1>5

LEMMA LandsFacts ==
    ASSUME TypeInv, Lands
    PROVE  /\ env.depth \in 1..Depth
           /\ stack' \in Seq(Frame) /\ Depth' = env.depth
           /\ \A j \in 1..env.depth :
                stack'[j] = IF j = env.depth
                            THEN [stack[j] EXCEPT !.at = "client", !.rsp = env.rsp]
                            ELSE stack[j]
<1>. DEFINE d == env.depth
            e == [stack[d] EXCEPT !.at = "client", !.rsp = env.rsp]
            below == SubSeq(stack, 1, d - 1)
<1>1. /\ Depth \in Nat /\ stack \in [1..Depth -> Frame] /\ stack \in Seq(Frame)
      /\ d \in 1..Depth
  <2>1. Depth \in Nat /\ stack \in [1..Depth -> Frame] /\ stack # <<>> /\ Depth > 0
    BY StackFacts DEF TypeInv, Lands
  <2>2. d \in 1..MaxDepth /\ d <= Depth
    BY <2>1 DEF TypeInv, TypeOK, Shape, Lands
  <2>. QED BY <2>1, <2>2, LibMiniAssumption DEF TypeInv, TypeOK, Frame
<1>2. e \in Frame
  <2>1. env.rsp \in -MaxDrift..0 /\ stack[d] \in Frame
    BY <1>1 DEF TypeInv, TypeOK
  <2>. QED BY <2>1 DEF Frame
<1>3. stack' = Append(below, e)
  BY DEF Lands, LandedRsp
<1>4. /\ below \in Seq(Frame) /\ Len(below) = d - 1
      /\ \A j \in 1..(d - 1) : below[j] = stack[j]
  <2>. HIDE DEF Frame
  <2>. QED BY <1>1 DEF Depth
<1>5. /\ stack' \in Seq(Frame) /\ Len(stack') = d
      /\ \A j \in 1..d : stack'[j] = IF j = d THEN e ELSE below[j]
  <2>. HIDE DEF Frame, e, below
  <2>. QED BY <1>1, <1>2, <1>3, <1>4
<1>6. ASSUME NEW j \in 1..d
      PROVE  stack'[j] = IF j = d THEN e ELSE stack[j]
  <2>. HIDE DEF Frame, e, below
  <2>. QED BY <1>1, <1>4, <1>5
<1>7. Depth' = d
  <2>. HIDE DEF below, e
  <2>. QED BY <1>5 DEF Depth
<1>. HIDE DEF below
<1>. QED BY <1>1, <1>5, <1>6, <1>7

-----------------------------------------------------------------------------
(* TypeInv is inductive *)

LEMMA InitTypeInv == Init => TypeInv
<1> SUFFICES ASSUME Init PROVE TypeInv
  OBVIOUS
<1>1. stack \in Seq(Frame) /\ Depth = 1 /\ stack[1] = Activation(0, {}) /\ DOMAIN stack = {1}
  <2>1. Activation(0, {}) \in Frame
    BY LibMiniAssumption DEF Activation, Frame
  <2>. HIDE DEF Frame
  <2>. QED BY <2>1 DEF Init, Depth
<1>2. TypeOK
  BY <1>1, LibMiniAssumption DEF Init, TypeOK, Frame, Handlers, NoJmpBuf, Nothing
<1>3. Shape
  BY <1>1 DEF Init, Shape, Activation, NoJmpBuf
<1>. QED BY <1>2, <1>3 DEF TypeInv

\* The types of what an action leaves behind, once its stack is typed.
OthersTyped ==
    /\ blocked \in SUBSET Sig /\ pending \in SUBSET Sig
    /\ action \in [Sig -> [handler : Handlers, mask : SUBSET Sig]]
    /\ env \in [ready : BOOLEAN, depth : 1..MaxDepth, mask : SUBSET Sig, was : SUBSET Sig,
                rsp : -MaxDrift..0, ret : -MaxDrift..0]
    /\ errno \in Errors \cup {0}
    /\ error \in Errors \cup {0, Unclear}
    /\ printed \in Errors \cup {0, Nothing, Unknown, Garbage}

LEMMA ReturnTyped ==
    ASSUME NEW e \in Errors \cup {0}, Return(-e)
    PROVE  /\ errno' = e /\ errno' \in Errors \cup {0}
           /\ error' = IF InMain THEN e ELSE Unclear
           /\ printed' = Nothing
<1>1. e \in Nat
  BY LibMiniAssumption
<1>. QED BY <1>1 DEF Return, ErrnoOf

LEMMA ReturnZero ==
    ASSUME Return(0)
    PROVE  errno' = 0 /\ error' = (IF InMain THEN 0 ELSE Unclear) /\ printed' = Nothing
BY DEF Return, ErrnoOf

\* The same, field by field.
LEMMA FieldFacts ==
    ASSUME TypeInv, NEW from,
           NEW to \in {"client", "pause", "sleep", "setjmp", "longjmp"}, Goto(from, to)
    PROVE  /\ stack' \in Seq(Frame) /\ Depth' = Depth /\ Depth \in 1..MaxDepth
           /\ DOMAIN stack = 1..Depth /\ DOMAIN stack' = 1..Depth /\ stack # <<>>
           /\ Top = stack[Depth] /\ stack[Depth].at = from /\ stack[Depth] \in Frame
           /\ \A i \in 1..Depth :
                /\ stack'[i].sig = stack[i].sig /\ stack'[i].rsp = stack[i].rsp
                /\ stack'[i].saved = stack[i].saved /\ stack'[i].backup = stack[i].backup
                /\ stack'[i].at = IF i = Depth THEN to ELSE stack[i].at
<1>1. /\ stack' \in Seq(Frame) /\ Depth' = Depth /\ Depth > 0 /\ stack[Depth].at = from
      /\ stack # <<>>
      /\ \A j \in 1..Depth : stack'[j] = IF j = Depth THEN [stack[j] EXCEPT !.at = to]
                                         ELSE stack[j]
  BY GotoFacts DEF TypeInv
<1>2. /\ Depth \in Nat /\ DOMAIN stack = 1..Depth /\ stack \in [1..Depth -> Frame]
      /\ DOMAIN stack' = 1..Depth /\ Top = stack[Depth]
  <2>. HIDE DEF Frame
  <2>. QED BY <1>1, StackFacts, FrameFacts DEF TypeInv, Depth
<1>3. Depth \in 1..MaxDepth
  BY <1>1, <1>2 DEF TypeInv, TypeOK
<1>4. ASSUME NEW i \in 1..Depth
      PROVE  /\ stack'[i].sig = stack[i].sig /\ stack'[i].rsp = stack[i].rsp
             /\ stack'[i].saved = stack[i].saved /\ stack'[i].backup = stack[i].backup
             /\ stack'[i].at = IF i = Depth THEN to ELSE stack[i].at
  BY <1>1, <1>2 DEF Frame
<1>5. stack[Depth] \in Frame
  BY <1>2, <1>3
<1>. QED BY <1>1, <1>2, <1>3, <1>4, <1>5

\* A function that leaves the jmp_buf where it is.
LEMMA GotoTypeInv ==
    ASSUME TypeInv, NEW from, NEW to \in {"client", "pause", "sleep"}, Goto(from, to),
           OthersTyped', env'.depth = env.depth
    PROVE  TypeInv'
<1>1. /\ stack' \in Seq(Frame) /\ Depth' = Depth /\ Depth \in 1..MaxDepth
      /\ DOMAIN stack = 1..Depth /\ DOMAIN stack' = 1..Depth /\ stack # <<>>
      /\ \A i \in 1..Depth :
           /\ stack'[i].sig = stack[i].sig /\ stack'[i].rsp = stack[i].rsp
           /\ stack'[i].at = IF i = Depth THEN to ELSE stack[i].at
  BY FieldFacts
<1>2. TypeOK'
  BY <1>1 DEF OthersTyped, TypeOK, Frame
<1>3. Shape'
  BY <1>1 DEF TypeInv, Shape, Idle
<1>. QED BY <1>2, <1>3 DEF TypeInv

LEMMA CallTypeInv ==
    ASSUME TypeInv,
           \/ Wrapper \/ Pause \/ Sleep \/ SleepEnds
           \/ \E how \in {"SIG_BLOCK", "SIG_UNBLOCK", "SIG_SETMASK"}, set \in SUBSET Sig :
                 Sigprocmask(how, set)
           \/ \E s \in Sig, h \in Handlers, mask \in SUBSET Sig : Sigaction(s, h, mask)
    PROVE  TypeInv'
<1>0. OthersTyped
  BY DEF TypeInv, TypeOK, OthersTyped
<1>1. CASE Wrapper
  <2>1. PICK e \in Errors \cup {0} : Return(-e)
    BY <1>1 DEF Wrapper
  <2>2. OthersTyped'
    BY <1>0, <1>1, <2>1, ReturnTyped DEF Wrapper, OthersTyped, signals
  <2>. QED BY <1>1, <2>2, GotoTypeInv DEF Wrapper
<1>2. CASE Pause
  <2>1. OthersTyped'
    BY <1>0, <1>2 DEF Pause, ErrnoKept, OthersTyped, signals
  <2>. QED BY <1>2, <2>1, GotoTypeInv DEF Pause
<1>3. CASE Sleep
  <2>1. OthersTyped'
    BY <1>0, <1>3 DEF Sleep, ErrnoKept, OthersTyped, signals
  <2>. QED BY <1>3, <2>1, GotoTypeInv DEF Sleep
<1>4. CASE SleepEnds
  <2>1. OthersTyped'
    BY <1>0, <1>4 DEF SleepEnds, ErrnoKept, OthersTyped, signals
  <2>. QED BY <1>4, <2>1, GotoTypeInv DEF SleepEnds
<1>5. ASSUME NEW how \in {"SIG_BLOCK", "SIG_UNBLOCK", "SIG_SETMASK"}, NEW set \in SUBSET Sig,
             Sigprocmask(how, set)
      PROVE  TypeInv'
  <2>1. blocked' \in SUBSET Sig
    BY <1>0, <1>5 DEF Sigprocmask, OthersTyped
  <2>2. OthersTyped'
    BY <1>0, <1>5, <2>1, ReturnZero DEF Sigprocmask, OthersTyped
  <2>. QED BY <1>5, <2>2, GotoTypeInv DEF Sigprocmask
<1>6. ASSUME NEW s \in Sig, NEW h \in Handlers, NEW mask \in SUBSET Sig, Sigaction(s, h, mask)
      PROVE  TypeInv'
  <2>1. pending' \in SUBSET Sig
    BY <1>0, <1>6 DEF Sigaction, OthersTyped
  <2>2. action' \in [Sig -> [handler : Handlers, mask : SUBSET Sig]]
    BY <1>0, <1>6 DEF Sigaction, OthersTyped
  <2>3. OthersTyped'
    BY <1>0, <1>6, <2>1, <2>2, ReturnZero DEF Sigaction, OthersTyped
  <2>. QED BY <1>6, <2>3, GotoTypeInv DEF Sigaction
<1>. QED BY <1>1, <1>2, <1>3, <1>4, <1>5, <1>6

LEMMA SetjmpTypeInv ==
    ASSUME TypeInv, Setjmp \/ SetjmpReturns \/ Longjmp
    PROVE  TypeInv'
<1>0. OthersTyped
  BY DEF TypeInv, TypeOK, OthersTyped
<1>1. CASE Setjmp
  <2>1. /\ stack' \in Seq(Frame) /\ Depth' = Depth /\ Depth \in 1..MaxDepth
        /\ DOMAIN stack = 1..Depth /\ DOMAIN stack' = 1..Depth /\ Top = stack[Depth]
        /\ \A i \in 1..Depth :
             /\ stack'[i].sig = stack[i].sig /\ stack'[i].rsp = stack[i].rsp
             /\ stack'[i].at = IF i = Depth THEN "setjmp" ELSE stack[i].at
    BY <1>1, FieldFacts DEF Setjmp
  <2>2. env' \in [ready : BOOLEAN, depth : 1..MaxDepth, mask : SUBSET Sig, was : SUBSET Sig,
                rsp : -MaxDrift..0, ret : -MaxDrift..0] /\ env'.depth = env.depth
    <3>1. env' = [env EXCEPT !.mask = blocked, !.was = blocked]
      BY <1>1 DEF Setjmp, SavedMask
    <3>. QED BY <1>0, <3>1 DEF OthersTyped
  <2>3. TypeOK'
    BY <1>0, <1>1, <2>1, <2>2, ReturnZero DEF Setjmp, OthersTyped, TypeOK, Frame, signals
  <2>4. Shape'
    <3>1. env.depth <= Depth /\ Top.rsp > -MaxDrift /\ stack # <<>>
      BY <1>1 DEF Setjmp, Goto, TypeInv, Shape
    <3>2. \A j \in 1..Depth : Idle(stack[j])
      BY <1>1, <2>1 DEF Setjmp, Idle
    <3>. QED BY <2>1, <2>2, <3>1, <3>2 DEF TypeInv, Shape, Idle
  <2>. QED BY <2>3, <2>4 DEF TypeInv
<1>2. CASE SetjmpReturns
  <2>1. /\ stack' \in Seq(Frame) /\ Depth' = Depth /\ Depth \in 1..MaxDepth
        /\ DOMAIN stack = 1..Depth /\ DOMAIN stack' = 1..Depth /\ Top = stack[Depth]
        /\ stack[Depth].at = "setjmp" /\ stack[Depth] \in Frame
        /\ \A i \in 1..Depth :
             /\ stack'[i].sig = stack[i].sig /\ stack'[i].rsp = stack[i].rsp
             /\ stack'[i].at = IF i = Depth THEN "client" ELSE stack[i].at
    BY <1>2, FieldFacts DEF SetjmpReturns
  <2>2. Top.rsp \in -MaxDrift..0 /\ Top.rsp > -MaxDrift
    BY <2>1 DEF TypeInv, Shape, Frame
  <2>3. Top.rsp - 1 \in -MaxDrift..0
    BY <2>2, LibMiniAssumption
  <2>4. env' \in [ready : BOOLEAN, depth : 1..MaxDepth, mask : SUBSET Sig, was : SUBSET Sig,
                rsp : -MaxDrift..0, ret : -MaxDrift..0] /\ env'.depth = Depth
    BY <1>0, <1>2, <2>1, <2>2, <2>3 DEF SetjmpReturns, SavedRsp, OthersTyped
  <2>5. TypeOK'
    BY <1>0, <1>2, <2>1, <2>4 DEF SetjmpReturns, ErrnoKept, OthersTyped, TypeOK, Frame, signals
  <2>6. \A i \in 1..Depth : stack'[i].at \notin {"setjmp", "longjmp"}
    <3>1. \A i \in 1..(Depth - 1) : stack[i].at \notin {"setjmp", "longjmp"}
      BY <2>1 DEF TypeInv, Shape, Idle
    <3>. QED BY <2>1, <3>1
  <2>7. Shape'
    BY <2>1, <2>4, <2>6 DEF TypeInv, Shape
  <2>. QED BY <2>5, <2>7 DEF TypeInv
<1>3. CASE Longjmp
  <2>1. /\ stack' \in Seq(Frame) /\ Depth' = Depth /\ Depth \in 1..MaxDepth /\ stack # <<>>
        /\ DOMAIN stack = 1..Depth /\ DOMAIN stack' = 1..Depth
        /\ \A i \in 1..Depth :
             /\ stack'[i].sig = stack[i].sig /\ stack'[i].rsp = stack[i].rsp
             /\ stack'[i].at = IF i = Depth THEN "longjmp" ELSE stack[i].at
    BY <1>3, FieldFacts DEF Longjmp
  <2>2. TypeOK'
    BY <1>0, <1>3, <2>1, ReturnZero DEF Longjmp, JumpMask, OthersTyped, TypeOK, Frame
  <2>3. Shape'
    BY <1>3, <2>1 DEF Longjmp, TypeInv, Shape, Idle
  <2>. QED BY <2>2, <2>3 DEF TypeInv
<1>. QED BY <1>1, <1>2, <1>3

\* perror changes the activation of main, on top of which nothing is.
LEMMA BottomFacts ==
    ASSUME TypeInv, Depth = 1, NEW at \in {"client", "perror"}, NEW b \in Errors \cup {0},
           stack' = [stack EXCEPT ![1].at = at, ![1].backup = b]
    PROVE  /\ Depth' = 1 /\ DOMAIN stack' = 1..1 /\ stack' \in Seq(Frame) /\ stack' # <<>>
           /\ stack'[1].sig = stack[1].sig /\ stack'[1].at = at /\ stack'[1].backup = b
           /\ stack'[1].saved = stack[1].saved
<1>. DEFINE e == [stack[1] EXCEPT !.at = at, !.backup = b]
<1>1. DOMAIN stack = 1..Depth /\ stack \in [1..Depth -> Frame] /\ 1 \in 1..Depth
  BY StackFacts DEF TypeInv
<1>2. e \in Frame /\ e.sig = stack[1].sig /\ e.at = at /\ e.backup = b
      /\ e.saved = stack[1].saved
  BY <1>1 DEF Frame
<1>3. stack' = [stack EXCEPT ![1] = e]
  BY <1>1
<1>4. stack' \in Seq(Frame) /\ Depth' = Depth /\ stack'[1] = e
  <2>. HIDE DEF e, Frame
  <2>. QED BY <1>1, <1>2, <1>3, ChangeFacts DEF TypeInv
<1>. HIDE DEF e, Frame
<1>. QED BY <1>2, <1>4, FrameFacts DEF Depth

LEMMA PerrorFacts ==
    ASSUME TypeInv, Perror \/ PerrorPrints
    PROVE  /\ Depth = 1 /\ DOMAIN stack = 1..1 /\ stack # <<>>
           /\ stack[1] \in Frame /\ Top = stack[1]
           /\ Depth' = 1 /\ DOMAIN stack' = 1..1 /\ stack' \in Seq(Frame) /\ stack' # <<>>
           /\ stack'[1].sig = stack[1].sig /\ stack'[1].saved = stack[1].saved
           /\ Perror => /\ stack[1].at = "client" /\ stack'[1].at = "perror"
                        /\ stack'[1].backup = errno
           /\ PerrorPrints => stack[1].at = "perror" /\ stack'[1].at = "client"
<1>1. /\ Depth \in Nat /\ DOMAIN stack = 1..Depth /\ stack \in [1..Depth -> Frame]
      /\ stack # <<>> => Depth > 0 /\ Top = stack[Depth]
      /\ Depth > 0 => stack # <<>>
  BY StackFacts DEF TypeInv
<1>2. Depth = 1 /\ stack[1] \in Frame /\ stack # <<>>
  BY <1>1 DEF Perror, PerrorPrints, InMain, TypeInv, Shape
<1>3. CASE Perror
  <2>1. Top.at = "client" /\ stack' = [stack EXCEPT ![1].at = "perror", ![1].backup = errno]
    BY <1>3 DEF Perror
  <2>2. errno \in Errors \cup {0}
    BY DEF TypeInv, TypeOK
  <2>3. ~PerrorPrints
    BY <2>1 DEF PerrorPrints
  <2>4. /\ Depth' = 1 /\ DOMAIN stack' = 1..1 /\ stack' \in Seq(Frame) /\ stack' # <<>>
        /\ stack'[1].sig = stack[1].sig /\ stack'[1].saved = stack[1].saved
        /\ stack'[1].at = "perror" /\ stack'[1].backup = errno
    <3>. HIDE DEF Frame
    <3>. QED BY <1>2, <2>1, <2>2, BottomFacts
  <2>. QED BY <1>1, <1>2, <2>1, <2>3, <2>4
<1>4. CASE PerrorPrints
  <2>1. Top.at = "perror" /\ stack' = [stack EXCEPT ![1].at = "client", ![1].backup = 0]
    BY <1>4 DEF PerrorPrints
  <2>2. ~Perror
    BY <2>1 DEF Perror
  <2>. QED BY <1>1, <1>2, <2>1, <2>2, BottomFacts
<1>. QED BY <1>3, <1>4

LEMMA PerrorTypeInv ==
    ASSUME TypeInv, Perror \/ PerrorPrints
    PROVE  TypeInv'
<1>1. stack[1].sig = 0
  BY PerrorFacts DEF TypeInv, Shape
<1>2. OthersTyped'
  <2>1. CASE Perror
    BY <2>1 DEF Perror, TypeInv, TypeOK, OthersTyped, signals
  <2>2. CASE PerrorPrints
    <3>1. Message \in Errors \cup {0}
      BY PerrorFacts DEF Message, Frame
    <3>. QED BY <2>2, <3>1 DEF PerrorPrints, TypeInv, TypeOK, OthersTyped, signals
  <2>. QED BY <2>1, <2>2
<1>3. TypeOK'
  BY <1>2, PerrorFacts DEF TypeInv, TypeOK, OthersTyped, Frame
<1>4. env' = env /\ env.depth <= Depth
  BY PerrorFacts DEF Perror, PerrorPrints, TypeInv, Shape
<1>5. Shape'
  BY <1>1, <1>4, PerrorFacts DEF Shape
<1>. QED BY <1>3, <1>5 DEF TypeInv

\* What is pending may change at any time.
LEMMA PendingTypeInv ==
    ASSUME TypeInv, NEW s \in Sig, Raise(s) \/ Discard(s)
    PROVE  TypeInv'
<1>1. UNCHANGED <<stack, blocked, action, env, errno, error>> /\ printed' = Nothing
      /\ pending' \in SUBSET Sig
  BY DEF Raise, Discard, ErrnoKept, TypeInv, TypeOK
<1>2. TypeOK'
  BY <1>1 DEF TypeInv, TypeOK, Depth
<1>3. Shape'
  BY <1>1 DEF TypeInv, Shape, Depth
<1>. QED BY <1>2, <1>3 DEF TypeInv

LEMMA DeliverTypeInv ==
    ASSUME TypeInv, NEW s \in Sig, Deliver(s)
    PROVE  TypeInv'
<1>1. /\ stack' \in Seq(Frame) /\ Depth' = Depth + 1
      /\ \A j \in 1..Depth : stack'[j] = stack[j]
      /\ stack'[Depth + 1] = Activation(s, blocked)
  BY DeliverFacts DEF TypeInv, Deliver
<1>2. Depth \in Nat /\ Depth > 0 /\ DOMAIN stack = 1..Depth /\ DOMAIN stack' = 1..(Depth + 1)
  <2>. HIDE DEF Frame
  <2>. QED BY <1>1, StackFacts, FrameFacts DEF TypeInv, Deliver, Depth
<1>3. blocked' \in SUBSET Sig
  BY DEF Deliver, HandlerMask, TypeInv, TypeOK
<1>4. OthersTyped'
  BY <1>3 DEF Deliver, ErrnoKept, TypeInv, TypeOK, OthersTyped
<1>5. TypeOK'
  BY <1>1, <1>2, <1>4, LibMiniAssumption DEF Deliver, TypeOK, OthersTyped, Frame
<1>6. s # 0
  BY LibMiniAssumption
<1>7. env' = env /\ env.depth \in Nat /\ env.depth <= Depth
  BY DEF Deliver, TypeInv, TypeOK, Shape
<1>8. ASSUME NEW i \in 1..(Depth + 1)
      PROVE  /\ stack'[i].sig = 0 <=> i = 1
             /\ stack'[i].at = "perror" => i = 1
             /\ stack'[i].at = "setjmp" => stack'[i].rsp > -MaxDrift /\ env.depth <= i
             /\ stack'[i].at = "longjmp" => env.depth <= i
             /\ stack'[i].at = "setjmp" => \A j \in 1..(i - 1) : Idle(stack'[j])
  <2>1. CASE i \in 1..Depth
    BY <2>1, <1>1, <1>2 DEF TypeInv, Shape
  <2>2. CASE i = Depth + 1
    BY <2>2, <1>1, <1>2, <1>6 DEF Activation
  <2>. QED BY <1>2, <2>1, <2>2
<1>9. Shape'
  BY <1>1, <1>2, <1>7, <1>8 DEF Shape
<1>. QED BY <1>5, <1>9 DEF TypeInv

LEMMA ReturnsTypeInv ==
    ASSUME TypeInv, HandlerReturns
    PROVE  TypeInv'
<1>1. /\ stack' \in Seq(Frame) /\ Depth > 1 /\ Depth' = Depth - 1
      /\ \A j \in 1..(Depth - 1) :
           stack'[j] = IF j = Depth - 1 /\ stack[j].at \in {"pause", "sleep"}
                       THEN [stack[j] EXCEPT !.at = "client"] ELSE stack[j]
  BY ReturnFacts DEF TypeInv
<1>2. /\ Depth \in Nat /\ DOMAIN stack = 1..Depth /\ DOMAIN stack' = 1..(Depth - 1)
      /\ stack \in [1..Depth -> Frame] /\ stack # <<>> /\ Top = stack[Depth]
  <2>. HIDE DEF Frame
  <2>. QED BY <1>1, StackFacts, FrameFacts DEF TypeInv, Depth
<1>3. /\ errno' \in {errno, EINTR} /\ error' \in {error, EINTR, Unclear}
      /\ printed' = Nothing /\ blocked' = Top.saved /\ UNCHANGED <<pending, action>>
      /\ env' = IF env.depth = Depth THEN NoJmpBuf ELSE env
      /\ Top.at = "client"
  <2>1. ErrnoOf(-EINTR) = EINTR
    <3>1. EINTR \in Nat
      BY DEF EINTR
    <3>. QED BY <3>1 DEF ErrnoOf
  <2>. QED BY <2>1 DEF HandlerReturns
<1>4. blocked' \in SUBSET Sig
  BY <1>2, <1>3, <1>1 DEF Frame
<1>5. env' \in [ready : BOOLEAN, depth : 1..MaxDepth, mask : SUBSET Sig, was : SUBSET Sig,
                rsp : -MaxDrift..0, ret : -MaxDrift..0]
  BY <1>3, LibMiniAssumption DEF TypeInv, TypeOK, NoJmpBuf
<1>6. OthersTyped'
  BY <1>3, <1>4, <1>5, LibMiniAssumption DEF TypeInv, TypeOK, OthersTyped
<1>7. TypeOK'
  <2>1. Depth' <= MaxDepth
    BY <1>1, <1>2, LibMiniAssumption DEF TypeInv, TypeOK
  <2>. QED BY <1>1, <1>6, <2>1 DEF TypeOK, OthersTyped, Frame
<1>8. ASSUME NEW j \in 1..(Depth - 1)
      PROVE  /\ stack'[j].sig = stack[j].sig /\ stack'[j].rsp = stack[j].rsp
             /\ stack'[j].at = stack[j].at \/ stack'[j].at = "client"
  BY <1>1, <1>2 DEF Frame
<1>9. env.depth \in 1..MaxDepth /\ env.depth <= Depth
  BY <1>2 DEF TypeInv, TypeOK, Shape
<1>10. Shape'
  BY <1>1, <1>2, <1>3, <1>8, <1>9 DEF TypeInv, Shape, NoJmpBuf, Idle
<1>. QED BY <1>7, <1>10 DEF TypeInv

LEMMA ExitTypeInv ==
    ASSUME TypeInv, Exit
    PROVE  TypeInv'
<1>1. stack' = <<>> /\ Depth' = 0
  BY DEF Exit, Depth
<1>2. TypeOK'
  BY <1>1, LibMiniAssumption DEF Exit, ErrnoKept, signals, TypeInv, TypeOK
<1>3. Shape'
  BY <1>1 DEF Shape
<1>. QED BY <1>2, <1>3 DEF TypeInv

LEMMA LandsTypeInv ==
    ASSUME TypeInv, Lands
    PROVE  TypeInv'
<1>1. /\ env.depth \in 1..Depth
      /\ stack' \in Seq(Frame) /\ Depth' = env.depth
      /\ \A j \in 1..env.depth :
           stack'[j] = IF j = env.depth
                       THEN [stack[j] EXCEPT !.at = "client", !.rsp = env.rsp]
                       ELSE stack[j]
  BY LandsFacts
<1>2. /\ Depth \in Nat /\ DOMAIN stack = 1..Depth /\ DOMAIN stack' = 1..env.depth
      /\ stack \in [1..Depth -> Frame]
  <2>. HIDE DEF Frame
  <2>. QED BY <1>1, StackFacts, FrameFacts DEF TypeInv, Depth
<1>3. /\ env.depth \in Nat /\ env.depth \in 1..Depth /\ env.depth <= MaxDepth
      /\ Depth' = env.depth
  <2>1. env.depth \in 1..Depth /\ Depth' = env.depth /\ Depth \in Nat
    BY <1>1, <1>2
  <2>2. env.depth \in 1..MaxDepth
    BY DEF TypeInv, TypeOK
  <2>. QED BY <2>1, <2>2, LibMiniAssumption
<1>4. TypeOK'
  <2>1. Depth' <= MaxDepth
    BY <1>3
  <2>2. OthersTyped'
    BY DEF Lands, TypeInv, TypeOK, OthersTyped, signals
  <2>. QED BY <1>1, <2>1, <2>2 DEF TypeOK, OthersTyped, Frame
<1>5. ASSUME NEW j \in 1..env.depth
      PROVE  /\ stack'[j].sig = stack[j].sig
             /\ stack'[j].at = IF j = env.depth THEN "client" ELSE stack[j].at
             /\ j # env.depth => stack'[j].rsp = stack[j].rsp
  BY <1>1, <1>2 DEF Frame
<1>6. env' = env
  BY DEF Lands
<1>7. ASSUME NEW i \in 1..env.depth
      PROVE  /\ stack'[i].sig = 0 <=> i = 1
             /\ stack'[i].at = "perror" => i = 1
             /\ stack'[i].at = "setjmp" => stack'[i].rsp > -MaxDrift /\ env.depth <= i
             /\ stack'[i].at = "longjmp" => env.depth <= i
             /\ stack'[i].at = "setjmp" => \A j \in 1..(i - 1) : Idle(stack'[j])
  <2>1. /\ stack[i].sig = 0 <=> i = 1
        /\ stack[i].at = "perror" => i = 1
        /\ stack[i].at = "setjmp" => stack[i].rsp > -MaxDrift /\ env.depth <= i
        /\ stack[i].at = "longjmp" => env.depth <= i
        /\ stack[i].at = "setjmp" => \A j \in 1..(i - 1) : Idle(stack[j])
    <3>1. i \in DOMAIN stack
      BY <1>3, <1>2
    <3>. QED BY <3>1 DEF TypeInv, Shape
  <2>2. \A j \in 1..(i - 1) : stack'[j].at = stack[j].at
    BY <1>3, <1>5
  <2>. QED BY <1>3, <1>5, <2>1, <2>2 DEF Idle
<1>8. Shape'
  <2>1. DOMAIN stack' = 1..env.depth
    BY <1>2
  <2>. QED BY <1>3, <1>6, <1>7, <2>1 DEF Shape
<1>. QED BY <1>4, <1>8 DEF TypeInv

LEMMA NextTypeInv ==
    ASSUME TypeInv, [Next]_vars
    PROVE  TypeInv'
<1>1. ASSUME NEW s \in Sig, NEW h \in Handlers,
             Signal(s, h) \/ \E mask \in Masks : Sigaction(s, h, mask)
      PROVE  \E mask \in SUBSET Sig : Sigaction(s, h, mask)
  BY <1>1, LibMiniAssumption DEF Signal
<1>2. CASE Library
  BY <1>1, <1>2, CallTypeInv, SetjmpTypeInv, PerrorTypeInv, LandsTypeInv DEF Library
<1>3. CASE Kernel
  BY <1>3, PendingTypeInv, DeliverTypeInv, ReturnsTypeInv, ExitTypeInv DEF Kernel
<1>4. CASE UNCHANGED vars
  BY <1>4 DEF vars, TypeInv, TypeOK, Shape, Depth
<1>. QED BY <1>2, <1>3, <1>4 DEF Next, Ended

\* The activations, the masks and the jmp_buf have their types, however deep
\* handlers are nested and whatever they leave.
THEOREM LibraryTypeCorrect == Spec => []TypeOK
<1>1. TypeInv => TypeOK
  BY DEF TypeInv
<1>. QED BY <1>1, InitTypeInv, NextTypeInv, PTL DEF Spec

-----------------------------------------------------------------------------
(* Masks *)

(***************************************************************************)
(* Whoever fills the jmp_buf or is about to land runs with its mask,       *)
(* whatever handlers came since.  The signal of an activation is blocked in those   *)
(* above it up to the next longjmp, and in the mask that a jump back to    *)
(* one of them would restore.                                              *)
(***************************************************************************)
MaskInv ==
    /\ env.mask = env.was
    /\ \A i \in DOMAIN stack : ~Idle(stack[i]) => MaskAt(i) = env.mask

NoJump(i, j) == \A k \in i..j : stack[k].at # "longjmp"

GuardInv ==
    /\ \A j \in DOMAIN stack : \A i \in 2..j : NoJump(i, j) => stack[i].sig \in MaskAt(j)
    /\ stack # <<>> => \A i \in 2..env.depth :
         NoJump(i, env.depth - 1) => stack[i].sig \in env.mask

JumpInv == MaskInv /\ GuardInv /\ NotReentered

LEMMA InitJumpInv == Init => JumpInv
<1> SUFFICES ASSUME Init PROVE JumpInv
  OBVIOUS
<1>1. DOMAIN stack = {1} /\ stack[1].at = "client" /\ env = NoJmpBuf
  BY DEF Init, Activation
<1>. QED BY <1>1 DEF JumpInv, MaskInv, GuardInv, NotReentered, NoJmpBuf, Idle

\* A step that leaves the jmp_buf's mask and the jumps in progress alone, and
\* lifts no signal in a handler.
LEMMA QuietJumpInv ==
    ASSUME TypeInv, JumpInv,
           env'.mask = env.mask, env'.was = env.was, env'.depth = env.depth,
           Depth' = Depth, DOMAIN stack' = DOMAIN stack,
           \A j \in DOMAIN stack :
             /\ stack'[j].sig = stack[j].sig /\ stack'[j].saved = stack[j].saved
             /\ stack'[j].at = "longjmp" <=> stack[j].at = "longjmp"
             /\ stack'[j].at = "setjmp" => stack[j].at = "setjmp",
           \/ blocked' = blocked
           \/ stack # <<>> /\ Idle(stack[Depth])
                /\ (Depth = 1 \/ blocked \subseteq blocked')
    PROVE  JumpInv'
<1>1. Depth \in Nat /\ DOMAIN stack = 1..Depth /\ (stack # <<>> => Depth > 0)
      /\ (Depth > 0 => stack # <<>>)
  BY StackFacts DEF TypeInv
<1>2. stack' # <<>> => stack # <<>>
  BY <1>1
<1>3. ASSUME NEW j \in 1..Depth
      PROVE  /\ ~Idle(stack[j]) => MaskAt(j)' = MaskAt(j)
             /\ j # 1 => MaskAt(j) \subseteq MaskAt(j)'
  BY <1>1 DEF MaskAt
<1>4. MaskInv'
  <2>1. \A j \in 1..Depth : ~Idle(stack'[j]) => ~Idle(stack[j])
    BY <1>1 DEF Idle
  <2>. QED BY <1>1, <1>3, <2>1 DEF JumpInv, MaskInv
<1>5. ASSUME NEW j \in 1..Depth, NEW i \in 2..j, NoJump(i, j)'
      PROVE  stack'[i].sig \in MaskAt(j)'
  <2>1. NoJump(i, j)
    BY <1>1, <1>5 DEF NoJump
  <2>2. stack[i].sig \in MaskAt(j)
    BY <1>1, <2>1 DEF JumpInv, GuardInv
  <2>. QED BY <1>1, <1>3, <2>2
<1>6. ASSUME stack' # <<>>, NEW i \in 2..env.depth, NoJump(i, env.depth - 1)'
      PROVE  stack'[i].sig \in env'.mask
  <2>1. env.depth \in Nat /\ env.depth <= Depth
    BY <1>2, <1>6 DEF TypeInv, Shape, TypeOK
  <2>2. NoJump(i, env.depth - 1)
    BY <1>1, <1>6, <2>1 DEF NoJump
  <2>3. stack[i].sig \in env.mask
    BY <1>2, <1>6, <2>2 DEF JumpInv, GuardInv
  <2>. QED BY <1>1, <2>1, <2>3
<1>7. GuardInv'
  BY <1>1, <1>5, <1>6 DEF GuardInv
<1>8. ASSUME NEW i \in 1..Depth, NEW j \in 1..Depth, i < j, stack'[i].sig = stack'[j].sig
      PROVE  \E k \in i..(j - 1) : stack'[k].at = "longjmp"
  <2>1. PICK k \in i..(j - 1) : stack[k].at = "longjmp"
    BY <1>1, <1>8 DEF JumpInv, NotReentered
  <2>2. k \in 1..Depth
    BY <1>1
  <2>. QED BY <1>1, <2>1, <2>2
<1>9. NotReentered'
  BY <1>1, <1>8 DEF NotReentered
<1>. QED BY <1>4, <1>7, <1>9 DEF JumpInv

\* Everything but jumps, and handlers that come and go.
LEMMA CallJumpInv ==
    ASSUME TypeInv, JumpInv,
           \/ Wrapper \/ Pause \/ Sleep \/ SleepEnds
           \/ Perror \/ PerrorPrints
           \/ \E how \in {"SIG_BLOCK", "SIG_UNBLOCK", "SIG_SETMASK"}, set \in SUBSET Sig :
                 Sigprocmask(how, set)
           \/ \E s \in Sig, h \in Handlers, mask \in SUBSET Sig : Sigaction(s, h, mask)
           \/ \E s \in Sig : Raise(s) \/ Discard(s)
    PROVE  JumpInv'
<1>1. ASSUME NEW from, NEW to \in {"client", "pause", "sleep"}, Goto(from, to),
             from \notin {"setjmp", "longjmp"}, env'.mask = env.mask, env'.was = env.was,
             env'.depth = env.depth,
             blocked' = blocked \/ Depth = 1 \/ blocked \subseteq blocked'
      PROVE  JumpInv'
  <2>1. /\ Depth' = Depth /\ DOMAIN stack = 1..Depth /\ DOMAIN stack' = 1..Depth
        /\ stack # <<>> /\ stack[Depth].at = from
        /\ \A j \in 1..Depth :
             /\ stack'[j].sig = stack[j].sig /\ stack'[j].saved = stack[j].saved
             /\ stack'[j].at = IF j = Depth THEN to ELSE stack[j].at
    BY <1>1, FieldFacts
  <2>2. /\ \A j \in 1..Depth : /\ stack'[j].at = "longjmp" <=> stack[j].at = "longjmp"
                               /\ stack'[j].at = "setjmp" => stack[j].at = "setjmp"
        /\ Idle(stack[Depth])
    BY <1>1, <2>1 DEF Idle
  <2>. QED BY <1>1, <2>1, <2>2, QuietJumpInv
<1>2. CASE Wrapper
  BY <1>1, <1>2 DEF Wrapper, signals
<1>3. CASE Pause \/ Sleep \/ SleepEnds
  BY <1>1, <1>3 DEF Pause, Sleep, SleepEnds, signals
<1>5. CASE Perror \/ PerrorPrints
  <2>1. env' = env /\ blocked' = blocked
    BY <1>5 DEF Perror, PerrorPrints, signals
  <2>2. /\ Depth' = Depth /\ DOMAIN stack = 1..1 /\ DOMAIN stack' = 1..1
        /\ stack'[1].sig = stack[1].sig /\ stack'[1].saved = stack[1].saved
        /\ Idle(stack'[1]) /\ stack[1].at # "longjmp"
    BY <1>5, PerrorFacts DEF Idle
  <2>3. \A j \in DOMAIN stack : j = 1
    BY <2>2
  <2>. QED BY <2>1, <2>2, <2>3, QuietJumpInv DEF Idle
<1>6. ASSUME NEW how \in {"SIG_BLOCK", "SIG_UNBLOCK", "SIG_SETMASK"}, NEW set \in SUBSET Sig,
             Sigprocmask(how, set)
      PROVE  JumpInv'
  <2>1. Depth = 1 \/ blocked \subseteq blocked'
    BY <1>6 DEF Sigprocmask, InMain
  <2>. QED BY <1>1, <1>6, <2>1 DEF Sigprocmask
<1>7. ASSUME NEW s \in Sig, NEW h \in Handlers, NEW mask \in SUBSET Sig, Sigaction(s, h, mask)
      PROVE  JumpInv'
  BY <1>1, <1>7 DEF Sigaction
<1>8. ASSUME NEW s \in Sig, Raise(s) \/ Discard(s)
      PROVE  JumpInv'
  <2>1. stack' = stack /\ env' = env /\ blocked' = blocked /\ Depth' = Depth
    BY <1>8 DEF Raise, Discard, Depth
  <2>. QED BY <2>1, QuietJumpInv
<1>. QED BY <1>2, <1>3, <1>5, <1>6, <1>7, <1>8

\* The jmp_buf takes the mask of the activation that fills it.
LEMMA SetjmpJumpInv ==
    ASSUME TypeInv, JumpInv, Setjmp
    PROVE  JumpInv'
<1>1. /\ Depth' = Depth /\ Depth \in 1..MaxDepth
      /\ DOMAIN stack = 1..Depth /\ DOMAIN stack' = 1..Depth
      /\ \A i \in 1..Depth :
           /\ stack'[i].sig = stack[i].sig /\ stack'[i].saved = stack[i].saved
           /\ stack'[i].at = IF i = Depth THEN "setjmp" ELSE stack[i].at
  BY FieldFacts DEF Setjmp
<1>2. /\ blocked' = blocked /\ env'.mask = blocked /\ env'.was = blocked
      /\ env'.depth = env.depth /\ env.depth \in Nat /\ env.depth <= Depth
  <2>1. env' = [env EXCEPT !.mask = blocked, !.was = blocked] /\ stack # <<>>
    BY DEF Setjmp, SavedMask, Goto
  <2>2. env.depth \in Nat /\ env.depth <= Depth
    BY <2>1 DEF TypeInv, TypeOK, Shape
  <2>3. env'.mask = blocked /\ env'.was = blocked /\ env'.depth = env.depth
    BY <2>1 DEF TypeInv, TypeOK
  <2>. QED BY <2>2, <2>3 DEF Setjmp, signals
<1>3. Depth \in Nat /\ Depth \in 1..Depth
  BY <1>1, LibMiniAssumption
<1>4. \A i \in 1..Depth : /\ stack[i].at # "longjmp" /\ stack'[i].at # "longjmp"
                          /\ i # Depth => Idle(stack'[i])
  BY <1>1 DEF Setjmp, Idle
<1>5. \A i \in 1..Depth : MaskAt(i)' = MaskAt(i)
  BY <1>1, <1>2, <1>3 DEF MaskAt
<1>6. \A j \in 1..Depth : \A i \in 2..j : stack[i].sig \in MaskAt(j)
  <2>1. \A j \in 1..Depth : \A i \in 2..j : NoJump(i, j)
    BY <1>3, <1>4 DEF NoJump
  <2>. QED BY <1>1, <2>1 DEF JumpInv, GuardInv
<1>7. MaskInv'
  <2>1. MaskAt(Depth)' = blocked
    BY <1>1, <1>2 DEF MaskAt
  <2>. QED BY <1>1, <1>2, <1>4, <2>1 DEF MaskInv
<1>8. GuardInv'
  <2>1. MaskAt(Depth) = blocked
    BY DEF MaskAt
  <2>2. \A j \in 1..Depth : \A i \in 2..j : stack'[i].sig \in MaskAt(j)'
    BY <1>1, <1>3, <1>5, <1>6
  <2>3. \A i \in 2..env.depth : stack'[i].sig \in env'.mask
    BY <1>1, <1>2, <1>3, <1>6, <2>1
  <2>. QED BY <1>1, <1>2, <2>2, <2>3 DEF GuardInv
<1>9. NotReentered'
  <2>1. \A i, j \in 1..Depth : i < j => stack[i].sig # stack[j].sig
    BY <1>1, <1>3, <1>4 DEF JumpInv, NotReentered
  <2>. QED BY <1>1, <2>1 DEF NotReentered
<1>. QED BY <1>7, <1>8, <1>9 DEF JumpInv

\* The registers join the mask, which is that of the running activation.
LEMMA SetjmpReturnsJumpInv ==
    ASSUME TypeInv, JumpInv, SetjmpReturns
    PROVE  JumpInv'
<1>1. /\ Depth' = Depth /\ Depth \in 1..MaxDepth
      /\ DOMAIN stack = 1..Depth /\ DOMAIN stack' = 1..Depth
      /\ stack[Depth].at = "setjmp"
      /\ \A i \in 1..Depth :
           /\ stack'[i].sig = stack[i].sig /\ stack'[i].saved = stack[i].saved
           /\ stack'[i].at = IF i = Depth THEN "client" ELSE stack[i].at
  BY FieldFacts DEF SetjmpReturns
<1>2. blocked' = blocked /\ env'.mask = env.mask /\ env'.was = env.was /\ env'.depth = Depth
  BY DEF SetjmpReturns, signals, TypeInv, TypeOK
<1>3. Depth \in Nat /\ Depth \in 1..Depth
  BY <1>1, LibMiniAssumption
<1>4. \A i \in 1..Depth : stack[i].at # "longjmp" /\ Idle(stack'[i])
  <2>1. \A i \in 1..(Depth - 1) : Idle(stack[i])
    BY <1>1, <1>3 DEF TypeInv, Shape
  <2>. QED BY <1>1, <1>3, <2>1 DEF Idle
<1>5. \A i \in 1..Depth : MaskAt(i)' = MaskAt(i)
  BY <1>1, <1>2, <1>3 DEF MaskAt
<1>6. \A j \in 1..Depth : \A i \in 2..j : stack[i].sig \in MaskAt(j)
  <2>1. \A j \in 1..Depth : \A i \in 2..j : NoJump(i, j)
    BY <1>3, <1>4 DEF NoJump
  <2>. QED BY <1>1, <2>1 DEF JumpInv, GuardInv
<1>7. MaskInv'
  BY <1>1, <1>2, <1>4 DEF JumpInv, MaskInv
<1>8. GuardInv'
  <2>1. MaskAt(Depth) = env.mask
    BY <1>1, <1>3 DEF JumpInv, MaskInv, Idle
  <2>2. \A j \in 1..Depth : \A i \in 2..j : stack'[i].sig \in MaskAt(j)'
    BY <1>1, <1>3, <1>5, <1>6
  <2>3. \A i \in 2..Depth : stack'[i].sig \in env'.mask
    BY <1>1, <1>2, <1>3, <1>6, <2>1
  <2>. QED BY <1>1, <1>2, <2>2, <2>3 DEF GuardInv
<1>9. NotReentered'
  <2>1. \A i, j \in 1..Depth : i < j => stack[i].sig # stack[j].sig
    BY <1>1, <1>3, <1>4 DEF JumpInv, NotReentered
  <2>. QED BY <1>1, <2>1 DEF NotReentered
<1>. QED BY <1>7, <1>8, <1>9 DEF JumpInv

\* From here on the running activation has the mask of the jmp_buf.
LEMMA LongjmpJumpInv ==
    ASSUME TypeInv, JumpInv, Longjmp
    PROVE  JumpInv'
<1>1. /\ Depth' = Depth /\ Depth \in Nat /\ Depth \in 1..Depth /\ stack # <<>>
      /\ DOMAIN stack = 1..Depth /\ DOMAIN stack' = 1..Depth
      /\ stack[Depth].at = "client"
      /\ \A i \in 1..Depth :
           /\ stack'[i].sig = stack[i].sig /\ stack'[i].saved = stack[i].saved
           /\ stack'[i].at = IF i = Depth THEN "longjmp" ELSE stack[i].at
  BY FieldFacts, LibMiniAssumption DEF Longjmp
<1>2. env' = env /\ blocked' = env.mask /\ env.depth \in Nat /\ env.depth <= Depth
  BY <1>1 DEF Longjmp, JumpMask, TypeInv, TypeOK, Shape
<1>3. MaskAt(Depth)' = env.mask /\ \A i \in 1..(Depth - 1) : MaskAt(i)' = MaskAt(i)
  BY <1>1, <1>2 DEF MaskAt
<1>4. MaskInv'
  BY <1>1, <1>2, <1>3 DEF JumpInv, MaskInv, Idle
<1>5. ASSUME NEW j \in 1..Depth, NEW i \in 2..j, NoJump(i, j)'
      PROVE  stack'[i].sig \in MaskAt(j)'
  <2>1. j # Depth
    BY <1>1, <1>5 DEF NoJump
  <2>2. NoJump(i, j)
    BY <1>1, <1>5, <2>1 DEF NoJump
  <2>3. stack[i].sig \in MaskAt(j)
    BY <1>1, <2>2 DEF JumpInv, GuardInv
  <2>. QED BY <1>1, <1>3, <2>1, <2>3
<1>6. ASSUME NEW i \in 2..env.depth, NoJump(i, env.depth - 1)'
      PROVE  stack'[i].sig \in env.mask
  <2>1. NoJump(i, env.depth - 1)
    BY <1>1, <1>2, <1>6 DEF NoJump
  <2>2. stack[i].sig \in env.mask
    BY <1>1, <2>1 DEF JumpInv, GuardInv
  <2>. QED BY <1>1, <1>2, <2>2
<1>7. GuardInv'
  BY <1>1, <1>2, <1>5, <1>6 DEF GuardInv
<1>8. ASSUME NEW i \in 1..Depth, NEW j \in 1..Depth, i < j, stack'[i].sig = stack'[j].sig
      PROVE  \E k \in i..(j - 1) : stack'[k].at = "longjmp"
  <2>1. PICK k \in i..(j - 1) : stack[k].at = "longjmp"
    BY <1>1, <1>8 DEF JumpInv, NotReentered
  <2>2. k \in 1..Depth
    BY <1>1
  <2>. QED BY <1>1, <2>1, <2>2
<1>9. NotReentered'
  BY <1>1, <1>8 DEF NotReentered
<1>. QED BY <1>4, <1>7, <1>9 DEF JumpInv

\* A signal that is delivered was not blocked: an activation of it that is
\* still there has passed its guard on to a longjmp.
LEMMA DeliverJumpInv ==
    ASSUME TypeInv, JumpInv, NEW s \in Sig, Deliver(s)
    PROVE  JumpInv'
<1>0. PICK d \in Nat : d = Depth
  BY StackFacts DEF TypeInv
<1>. DEFINE n == d + 1
<1>1. /\ Depth' = n /\ \A j \in 1..d : stack'[j] = stack[j]
      /\ stack'[n] = Activation(s, blocked) /\ stack' \in Seq(Frame)
  BY <1>0, DeliverFacts DEF TypeInv, Deliver
<1>2. /\ d > 0 /\ DOMAIN stack = 1..d /\ DOMAIN stack' = 1..n
  <2>1. DOMAIN stack' = 1..Depth'
    <3>. HIDE DEF Frame
    <3>. QED BY <1>1, FrameFacts DEF Depth
  <2>. QED BY <1>0, <1>1, <2>1, StackFacts DEF TypeInv, Deliver
<1>3. /\ stack'[n].sig = s /\ stack'[n].at = "client" /\ stack'[n].saved = blocked
  BY <1>1 DEF Activation
<1>4. /\ env' = env /\ s \in blocked' /\ blocked \subseteq blocked' /\ s \notin blocked
      /\ stack # <<>> /\ env.depth \in Nat /\ env.depth <= d
  BY <1>0 DEF Deliver, HandlerMask, TypeInv, TypeOK, Shape
<1>. HIDE DEF n
<1>5. n = d + 1
  BY DEF n
<1>6. MaskAt(n)' = blocked' /\ \A j \in 1..d : MaskAt(j)' = MaskAt(j)
  BY <1>0, <1>1, <1>2, <1>3, <1>5 DEF MaskAt
<1>7. MaskInv'
  <2>1. \A i \in 1..n : ~Idle(stack'[i]) => i \in 1..d
    BY <1>2, <1>3, <1>5 DEF Idle
  <2>. QED BY <1>1, <1>2, <1>4, <1>6, <2>1 DEF JumpInv, MaskInv
<1>8. ASSUME NEW j \in 1..d, NEW i \in 2..j, NoJump(i, j)'
      PROVE  stack[i].sig \in MaskAt(j)
  <2>1. NoJump(i, j)
    BY <1>1, <1>2, <1>8 DEF NoJump
  <2>. QED BY <1>2, <2>1 DEF JumpInv, GuardInv
<1>9. ASSUME NEW j \in 1..n, NEW i \in 2..j, NoJump(i, j)'
      PROVE  stack'[i].sig \in MaskAt(j)'
  <2>1. CASE j \in 1..d
    BY <1>1, <1>2, <1>6, <1>8, <1>9, <2>1
  <2>2. CASE j = n /\ i = n
    BY <1>3, <1>4, <1>6, <2>2
  <2>3. CASE j = n /\ i # n
    <3>1. NoJump(i, d)' /\ i \in 2..d /\ d \in 1..d
      BY <1>2, <1>5, <1>9, <2>3 DEF NoJump
    <3>2. stack[i].sig \in MaskAt(d)
      BY <1>8, <3>1
    <3>. QED BY <1>1, <1>2, <1>4, <1>6, <2>3, <3>1, <3>2, <1>0 DEF MaskAt
  <2>. QED BY <1>2, <1>5, <2>1, <2>2, <2>3
<1>10. ASSUME NEW i \in 2..env.depth, NoJump(i, env.depth - 1)'
       PROVE  stack'[i].sig \in env.mask
  <2>1. NoJump(i, env.depth - 1)
    BY <1>1, <1>2, <1>4, <1>10 DEF NoJump
  <2>2. stack[i].sig \in env.mask
    BY <1>4, <2>1 DEF JumpInv, GuardInv
  <2>. QED BY <1>1, <1>2, <1>4, <2>2
<1>11. GuardInv'
  BY <1>2, <1>4, <1>9, <1>10 DEF GuardInv
<1>12. ASSUME NEW i \in 1..n, NEW j \in 1..n, i < j, stack'[i].sig = stack'[j].sig
       PROVE  \E k \in i..(j - 1) : stack'[k].at = "longjmp"
  <2>1. CASE j \in 1..d
    <3>1. PICK k \in i..(j - 1) : stack[k].at = "longjmp"
      BY <1>1, <1>2, <1>5, <1>12, <2>1 DEF JumpInv, NotReentered
    <3>. QED BY <1>1, <1>2, <2>1, <3>1
  <2>2. CASE j = n
    <3>1. i \in 1..d /\ stack[i].sig = s
      BY <1>1, <1>2, <1>3, <1>5, <1>12, <2>2
    <3>2. s # 0 /\ i \in 2..d
      <4>1. s # 0
        BY LibMiniAssumption
      <4>2. i # 1
        BY <1>2, <3>1, <4>1 DEF TypeInv, Shape
      <4>. QED BY <3>1, <4>1, <4>2
    <3>3. ~NoJump(i, d)
      <4>1. s \notin MaskAt(d)
        BY <1>0, <1>4 DEF MaskAt
      <4>. QED BY <1>2, <3>1, <3>2, <4>1 DEF JumpInv, GuardInv
    <3>4. PICK k \in i..d : stack[k].at = "longjmp"
      BY <3>3 DEF NoJump
    <3>. QED BY <1>1, <1>2, <1>5, <2>2, <3>1, <3>4
  <2>. QED BY <1>2, <1>5, <2>1, <2>2
<1>13. NotReentered'
  BY <1>2, <1>12 DEF NotReentered
<1>. QED BY <1>7, <1>11, <1>13 DEF JumpInv

\* The activation below goes on with the mask that it had.
LEMMA ReturnsJumpInv ==
    ASSUME TypeInv, JumpInv, HandlerReturns
    PROVE  JumpInv'
<1>0. PICK d \in Nat : d = Depth
  BY StackFacts DEF TypeInv
<1>. DEFINE n == d - 1
<1>1. /\ d > 1 /\ Depth' = n /\ stack' \in Seq(Frame) /\ DOMAIN stack = 1..d
      /\ stack \in [1..d -> Frame] /\ stack # <<>> /\ Top = stack[d]
      /\ \A j \in 1..n :
           stack'[j] = IF j = n /\ stack[j].at \in {"pause", "sleep"}
                       THEN [stack[j] EXCEPT !.at = "client"] ELSE stack[j]
  BY <1>0, ReturnFacts, StackFacts DEF TypeInv
<1>2. n \in Nat /\ n > 0 /\ d = n + 1 /\ DOMAIN stack' = 1..n
  <2>1. DOMAIN stack' = 1..Depth'
    <3>. HIDE DEF Frame
    <3>. QED BY <1>1, FrameFacts DEF Depth
  <2>. QED BY <1>1, <2>1
<1>. HIDE DEF n
<1>3. ASSUME NEW j \in 1..n
      PROVE  /\ stack'[j].sig = stack[j].sig /\ stack'[j].saved = stack[j].saved
             /\ stack'[j].at = "longjmp" <=> stack[j].at = "longjmp"
             /\ Idle(stack'[j]) <=> Idle(stack[j])
  BY <1>1, <1>2 DEF Frame, Idle
<1>4. /\ blocked' = stack[d].saved /\ Top.at = "client"
      /\ env' = IF env.depth = d THEN NoJmpBuf ELSE env
      /\ env.depth \in Nat /\ env.depth <= d
  BY <1>0, <1>1 DEF HandlerReturns, TypeInv, TypeOK, Shape
<1>5. \A j \in 1..n : MaskAt(j)' = MaskAt(j)
  BY <1>0, <1>1, <1>2, <1>3, <1>4 DEF MaskAt
<1>6. ASSUME NEW j \in 1..n, ~Idle(stack'[j])
      PROVE  MaskAt(j)' = env'.mask
  <2>1. j \in 1..d /\ ~Idle(stack[j])
    BY <1>2, <1>3, <1>6
  <2>2. env.depth # d
    BY <1>1, <1>2, <2>1 DEF TypeInv, Shape, Idle
  <2>. QED BY <1>1, <1>4, <1>5, <2>1, <2>2 DEF JumpInv, MaskInv
<1>7. MaskInv'
  BY <1>2, <1>4, <1>6 DEF JumpInv, MaskInv, NoJmpBuf
<1>8. ASSUME NEW j \in 1..n, NEW i \in 2..j, NoJump(i, j)'
      PROVE  stack'[i].sig \in MaskAt(j)'
  <2>1. NoJump(i, j)
    BY <1>2, <1>3, <1>8 DEF NoJump
  <2>2. stack[i].sig \in MaskAt(j)
    BY <1>1, <1>2, <2>1 DEF JumpInv, GuardInv
  <2>. QED BY <1>2, <1>3, <1>5, <2>2
<1>9. ASSUME env.depth # d
      PROVE  \A i \in 2..env'.depth : NoJump(i, env.depth - 1)' => stack'[i].sig \in env'.mask
  <2>1. PICK e \in Nat : e = env.depth
    BY <1>4
  <2>2. env' = env /\ e <= n
    BY <1>2, <1>4, <1>9, <2>1
  <2>3. ASSUME NEW i \in 2..e, NoJump(i, e - 1)'
        PROVE  stack'[i].sig \in env.mask
    <3>1. NoJump(i, e - 1)
      BY <1>2, <1>3, <2>2, <2>3 DEF NoJump
    <3>2. stack[i].sig \in env.mask
      BY <1>1, <2>1, <3>1 DEF JumpInv, GuardInv
    <3>. QED BY <1>2, <1>3, <2>2, <3>2
  <2>. QED BY <2>1, <2>2, <2>3
<1>10. GuardInv'
  <2>1. CASE env.depth = d
    <3>1. env'.depth = 1
      BY <1>4, <2>1 DEF NoJmpBuf
    <3>. QED BY <1>2, <1>8, <3>1 DEF GuardInv
  <2>2. CASE env.depth # d
    <3>1. env' = env
      BY <1>4, <2>2
    <3>. QED BY <1>2, <1>8, <1>9, <2>2, <3>1 DEF GuardInv
  <2>. QED BY <2>1, <2>2
<1>11. ASSUME NEW i \in 1..n, NEW j \in 1..n, i < j, stack'[i].sig = stack'[j].sig
       PROVE  \E k \in i..(j - 1) : stack'[k].at = "longjmp"
  <2>1. PICK k \in i..(j - 1) : stack[k].at = "longjmp"
    BY <1>1, <1>2, <1>3, <1>11 DEF JumpInv, NotReentered
  <2>2. k \in 1..n
    BY <1>2
  <2>. QED BY <1>3, <2>1, <2>2
<1>12. NotReentered'
  BY <1>2, <1>11 DEF NotReentered
<1>. QED BY <1>7, <1>10, <1>12 DEF JumpInv

\* The activation that has filled the jmp_buf goes on with the mask it had.
LEMMA LandsJumpInv ==
    ASSUME TypeInv, JumpInv, Lands
    PROVE  JumpInv' /\ blocked = env.mask
<1>0. PICK d \in Nat : d = env.depth
  BY DEF TypeInv, TypeOK
<1>1. /\ d \in 1..Depth /\ Depth' = d /\ stack' \in Seq(Frame)
      /\ \A j \in 1..d :
           stack'[j] = IF j = d THEN [stack[j] EXCEPT !.at = "client", !.rsp = env.rsp]
                                ELSE stack[j]
  BY <1>0, LandsFacts
<1>2. /\ Depth \in Nat /\ DOMAIN stack = 1..Depth /\ stack \in [1..Depth -> Frame]
      /\ stack # <<>> /\ Top = stack[Depth] /\ DOMAIN stack' = 1..d /\ d <= Depth /\ d > 0
  <2>1. DOMAIN stack' = 1..Depth'
    <3>. HIDE DEF Frame
    <3>. QED BY <1>1, FrameFacts DEF Depth
  <2>2. /\ Depth \in Nat /\ DOMAIN stack = 1..Depth /\ stack \in [1..Depth -> Frame]
        /\ stack # <<>> /\ Top = stack[Depth]
    BY StackFacts DEF TypeInv, Lands
  <2>3. DOMAIN stack' = 1..d
    BY <1>1, <2>1
  <2>4. d <= Depth /\ d > 0
    <3>1. d \in 1..Depth /\ Depth \in Nat
      BY <1>1, <2>2
    <3>. QED BY <3>1
  <2>. QED BY <2>2, <2>3, <2>4
<1>3. ASSUME NEW j \in 1..d
      PROVE  /\ stack'[j].sig = stack[j].sig /\ stack'[j].saved = stack[j].saved
             /\ stack'[j].at = IF j = d THEN "client" ELSE stack[j].at
  BY <1>1, <1>2 DEF Frame
<1>4. env' = env /\ blocked' = blocked /\ Top.at = "longjmp"
  BY DEF Lands, signals
<1>5. blocked = env.mask
  <2>1. Depth \in 1..Depth
    BY <1>2
  <2>2. MaskAt(Depth) = env.mask
    BY <1>2, <1>4, <2>1 DEF JumpInv, MaskInv, Idle
  <2>. QED BY <2>2 DEF MaskAt
<1>6. /\ MaskAt(d)' = env.mask
      /\ \A j \in 1..(d - 1) : MaskAt(j)' = MaskAt(j)
  <2>1. Depth' = d /\ Depth \in Nat /\ d <= Depth
    BY <1>1, <1>2
  <2>2. ASSUME NEW j \in 1..(d - 1)
        PROVE  MaskAt(j)' = MaskAt(j)
    <3>1. j + 1 \in 1..d /\ j # d /\ j # Depth
      BY <2>1
    <3>. QED BY <1>3, <2>1, <3>1 DEF MaskAt
  <2>. QED BY <1>4, <1>5, <2>1, <2>2 DEF MaskAt
<1>7. \A j \in 1..d : Idle(stack'[j])
  <2>1. \A j \in 1..(d - 1) : Idle(stack[j])
    BY <1>0, <1>2 DEF TypeInv, Shape, Idle
  <2>. QED BY <1>3, <2>1 DEF Idle
<1>8. MaskInv'
  BY <1>2, <1>4, <1>7 DEF JumpInv, MaskInv
<1>9. ASSUME NEW j \in 1..d, NEW i \in 2..j
      PROVE  stack'[i].sig \in MaskAt(j)'
  <2>1. \A k \in 1..(d - 1) : stack[k].at # "longjmp"
    BY <1>3, <1>7 DEF Idle
  <2>2. CASE j = d
    <3>1. NoJump(i, d - 1) /\ i \in 2..d
      BY <2>1, <2>2 DEF NoJump
    <3>2. stack[i].sig \in env.mask
      BY <1>0, <1>2, <3>1 DEF JumpInv, GuardInv
    <3>. QED BY <1>3, <1>6, <2>2, <3>1, <3>2
  <2>3. CASE j # d
    <3>1. NoJump(i, j) /\ j \in 1..(d - 1)
      BY <2>1, <2>3 DEF NoJump
    <3>2. stack[i].sig \in MaskAt(j)
      BY <1>2, <3>1 DEF JumpInv, GuardInv
    <3>. QED BY <1>3, <1>6, <3>1, <3>2
  <2>. QED BY <2>2, <2>3
<1>10. GuardInv'
  <2>1. \A i \in 2..d : stack'[i].sig \in MaskAt(d)'
    BY <1>9, <1>2
  <2>2. \A i \in 2..d : stack'[i].sig \in env'.mask
    BY <1>4, <1>6, <2>1
  <2>. QED BY <1>0, <1>2, <1>4, <1>9, <2>2 DEF GuardInv
<1>11. ASSUME NEW i \in 1..d, NEW j \in 1..d, i < j, stack'[i].sig = stack'[j].sig
       PROVE  FALSE
  <2>1. PICK k \in i..(j - 1) : stack[k].at = "longjmp"
    BY <1>2, <1>3, <1>11 DEF JumpInv, NotReentered
  <2>2. k \in 1..d /\ k # d
    BY <1>2
  <2>. QED BY <1>3, <1>7, <2>1, <2>2 DEF Idle
<1>12. NotReentered'
  BY <1>2, <1>11 DEF NotReentered
<1>. QED BY <1>5, <1>8, <1>10, <1>12 DEF JumpInv

LEMMA NextJumpInv ==
    ASSUME TypeInv, JumpInv, [Next]_vars
    PROVE  JumpInv'
<1>1. ASSUME NEW s \in Sig, NEW h \in Handlers,
             Signal(s, h) \/ \E mask \in Masks : Sigaction(s, h, mask)
      PROVE  \E mask \in SUBSET Sig : Sigaction(s, h, mask)
  BY <1>1, LibMiniAssumption DEF Signal
<1>2. CASE Library
  BY <1>1, <1>2, CallJumpInv, SetjmpJumpInv, SetjmpReturnsJumpInv,
     LongjmpJumpInv, LandsJumpInv DEF Library
<1>3. CASE Exit
  <2>1. stack' = <<>> /\ env' = env
    BY <1>3 DEF Exit
  <2>. QED BY <2>1 DEF JumpInv, MaskInv, GuardInv, NotReentered
<1>4. CASE Kernel /\ ~Exit
  BY <1>4, CallJumpInv, DeliverJumpInv, ReturnsJumpInv DEF Kernel
<1>5. CASE UNCHANGED vars
  BY <1>5 DEF vars, JumpInv, MaskInv, GuardInv, NoJump, NotReentered, MaskAt, Depth
<1>. QED BY <1>2, <1>3, <1>4, <1>5 DEF Next, Ended

LEMMA SteadyJumpInv == Spec => [](TypeInv /\ JumpInv)
BY InitTypeInv, NextTypeInv, InitJumpInv, NextJumpInv, PTL DEF Spec

\* A handler is not entered again before it has ended, but on top of a jump
\* that abandons it.
THEOREM HandlersAreNotReentered == Spec => []NotReentered
<1>1. JumpInv => NotReentered
  BY DEF JumpInv
<1>. QED BY <1>1, SteadyJumpInv, PTL

\* After a jump those signals are blocked that were blocked at setjmp,
\* whatever handlers ran or were left meanwhile.
THEOREM MaskIsRestored == Spec => JumpRestoresMask
<1>1. TypeInv /\ JumpInv /\ [Next]_vars =>
        [stack # <<>> /\ Top.at = "longjmp" /\ stack' # <<>> /\ Last(stack').at = "client"
            /\ Len(stack') <= Depth
           => blocked' = env.was]_vars
  <2> SUFFICES ASSUME TypeInv, JumpInv, Next,
                      stack # <<>>, Top.at = "longjmp", stack' # <<>>,
                      Last(stack').at = "client", Len(stack') <= Depth
               PROVE  blocked' = env.was
    BY DEF vars
  <2>1. ~Library \/ Lands
    BY DEF Library, Wrapper, Perror, PerrorPrints, Pause, Sleep, SleepEnds, Setjmp,
           SetjmpReturns, Longjmp, Signal, Sigaction, Sigprocmask, Goto
  <2>2. ~Kernel
    <3>1. ~HandlerReturns /\ ~Exit
      BY DEF HandlerReturns, Exit
    <3>2. ASSUME NEW s \in Sig PROVE ~Deliver(s)
      <4>1. CASE Deliver(s)
        <5>1. Depth' = Depth + 1 /\ Depth \in Nat
          BY <4>1, DeliverFacts, StackFacts DEF Deliver, TypeInv
        <5>. QED BY <5>1 DEF Depth
      <4>. QED BY <4>1
    <3>3. ASSUME NEW s \in Sig PROVE ~Raise(s) /\ ~Discard(s)
      BY DEF Raise, Discard, Top
    <3>. QED BY <3>1, <3>2, <3>3 DEF Kernel
  <2>3. Lands
    BY <2>1, <2>2 DEF Next, Ended
  <2>. QED BY <2>3, LandsJumpInv DEF JumpInv, MaskInv, Lands, signals
<1>. QED BY <1>1, SteadyJumpInv, PTL DEF Spec, JumpRestoresMask

-----------------------------------------------------------------------------
(* Errors *)

(***************************************************************************)
(* Between two calls of main errno is the error of the first, unless a     *)
(* handler has called the library; perror keeps it from its own writes.    *)
(***************************************************************************)
ErrorInv ==
    stack # <<>> /\ error # Unclear =>
        IF stack[1].at = "perror" THEN stack[1].backup = error /\ errno \in {0, error}
        ELSE errno = error

LEMMA InitErrorInv == Init => ErrorInv
<1> SUFFICES ASSUME Init PROVE ErrorInv
  OBVIOUS
<1>1. stack[1].at = "client" /\ errno = 0 /\ error = 0
  BY DEF Init, Activation
<1>. QED BY <1>1 DEF ErrorInv

\* A function that sets errno, and one that does not.
LEMMA GotoErrorInv ==
    ASSUME TypeInv, ErrorInv, NEW from,
           NEW to \in {"client", "pause", "sleep", "setjmp", "longjmp"}, Goto(from, to),
           from # "perror",
           \/ \E e \in Errors \cup {0} : Return(-e)
           \/ Return(0)
           \/ ErrnoKept
    PROVE  ErrorInv'
<1>1. /\ Depth \in 1..MaxDepth /\ stack # <<>> /\ stack[Depth].at = from
      /\ \A i \in 1..Depth :
           /\ stack'[i].backup = stack[i].backup
           /\ stack'[i].at = IF i = Depth THEN to ELSE stack[i].at
  BY FieldFacts
<1>2. 1 \in 1..Depth
  BY <1>1
<1>3. ASSUME errno' = error' \/ error' = Unclear, error' # Unclear => Depth = 1
      PROVE  ErrorInv'
  <2>1. error' # Unclear => stack'[1].at # "perror"
    BY <1>1, <1>2, <1>3
  <2>. QED BY <1>3, <2>1 DEF ErrorInv
<1>4. CASE \E e \in Errors \cup {0} : Return(-e)
  BY <1>3, <1>4, ReturnTyped DEF InMain
<1>5. CASE Return(0)
  BY <1>3, <1>5, ReturnZero DEF InMain
<1>6. CASE ErrnoKept
  <2>1. stack'[1].backup = stack[1].backup
        /\ (stack'[1].at = "perror" <=> stack[1].at = "perror")
    BY <1>1, <1>2
  <2>. QED BY <1>1, <1>6, <2>1 DEF ErrnoKept, ErrorInv
<1>. QED BY <1>4, <1>5, <1>6

LEMMA LibraryErrorInv ==
    ASSUME TypeInv, ErrorInv, Library
    PROVE  ErrorInv'
<1>1. CASE Wrapper \/ Pause \/ Sleep \/ SleepEnds \/ Setjmp \/ SetjmpReturns \/ Longjmp
  BY <1>1, GotoErrorInv DEF Wrapper, Pause, Sleep, SleepEnds, Setjmp, SetjmpReturns, Longjmp
<1>2. ASSUME NEW how, NEW set, Sigprocmask(how, set)
      PROVE  ErrorInv'
  BY <1>2, GotoErrorInv DEF Sigprocmask
<1>3. ASSUME NEW s, NEW h, NEW mask, Sigaction(s, h, mask)
      PROVE  ErrorInv'
  BY <1>3, GotoErrorInv DEF Sigaction
<1>4. CASE Perror
  <2>1. /\ stack[1].at = "client" /\ stack # <<>>
        /\ stack'[1].at = "perror" /\ stack'[1].backup = errno
    BY <1>4, PerrorFacts
  <2>2. error' = error /\ errno' \in {0, errno}
    BY <1>4 DEF Perror
  <2>. QED BY <2>1, <2>2 DEF ErrorInv
<1>5. CASE PerrorPrints
  <2>1. stack'[1].at = "client" /\ errno' = error'
    BY <1>5, PerrorFacts DEF PerrorPrints
  <2>. QED BY <2>1 DEF ErrorInv
<1>6. CASE Lands
  BY <1>6 DEF Lands, ErrorInv
<1>. QED BY <1>1, <1>2, <1>3, <1>4, <1>5, <1>6 DEF Library, Signal

LEMMA KernelErrorInv ==
    ASSUME TypeInv, ErrorInv, Kernel
    PROVE  ErrorInv'
<1>1. ASSUME NEW s \in Sig, Raise(s) \/ Discard(s)
      PROVE  ErrorInv'
  BY <1>1 DEF Raise, Discard, ErrnoKept, ErrorInv
<1>2. ASSUME NEW s \in Sig, Deliver(s)
      PROVE  ErrorInv'
  <2>1. /\ \A j \in 1..Depth : stack'[j] = stack[j]
        /\ stack # <<>> /\ Depth \in Nat /\ Depth > 0
    BY <1>2, DeliverFacts, StackFacts DEF TypeInv, Deliver
  <2>2. stack'[1] = stack[1]
    BY <2>1
  <2>. QED BY <1>2, <2>1, <2>2 DEF Deliver, ErrnoKept, ErrorInv
<1>3. CASE HandlerReturns
  <2>1. /\ Depth > 1 /\ Depth \in Nat /\ stack \in [1..Depth -> Frame] /\ stack # <<>>
        /\ \A j \in 1..(Depth - 1) :
             stack'[j] = IF j = Depth - 1 /\ stack[j].at \in {"pause", "sleep"}
                         THEN [stack[j] EXCEPT !.at = "client"] ELSE stack[j]
    BY <1>3, ReturnFacts, StackFacts DEF TypeInv, HandlerReturns
  <2>2. /\ stack'[1].backup = stack[1].backup
        /\ stack'[1].at = "perror" <=> stack[1].at = "perror"
        /\ (Depth - 1 = 1 /\ stack[1].at = "pause") => stack'[1].at = "client"
    <3>1. stack[1] \in Frame
      BY <2>1
    <3>2. stack'[1] = IF 1 = Depth - 1 /\ stack[1].at \in {"pause", "sleep"}
                      THEN [stack[1] EXCEPT !.at = "client"] ELSE stack[1]
      BY <2>1
    <3>. QED BY <3>1, <3>2 DEF Frame
  <2>3. CASE stack[Depth - 1].at = "pause"
    <3>1. /\ errno' = ErrnoOf(-EINTR)
          /\ error' = IF Depth - 1 = 1 THEN EINTR ELSE Unclear
      BY <1>3, <2>3 DEF HandlerReturns
    <3>2. ErrnoOf(-EINTR) = EINTR
      <4>1. EINTR \in Nat
        BY DEF EINTR
      <4>. QED BY <4>1 DEF ErrnoOf
    <3>. QED BY <2>2, <2>3, <3>1, <3>2 DEF ErrorInv
  <2>4. CASE stack[Depth - 1].at # "pause"
    <3>1. errno' = errno /\ error' = error
      BY <1>3, <2>4 DEF HandlerReturns
    <3>. QED BY <2>1, <2>2, <3>1 DEF ErrorInv
  <2>. QED BY <2>3, <2>4
<1>4. CASE Exit
  BY <1>4 DEF Exit, ErrorInv
<1>. QED BY <1>1, <1>2, <1>3, <1>4 DEF Kernel

\* perror tells main the error of its last call, whatever its own writes and
\* the handlers between do to errno.
THEOREM ErrorsAreReported == Spec => ErrorReported
<1>1. TypeInv /\ ErrorInv /\ [Next]_vars => ErrorInv'
  BY LibraryErrorInv, KernelErrorInv DEF Next, Ended, vars, ErrorInv
<1>2. TypeInv /\ ErrorInv /\ [Next]_vars =>
        [printed' \notin {printed, Nothing} /\ error \in 0..PERRMSG_MAX
           => printed' = error]_vars
  <2> SUFFICES ASSUME TypeInv, ErrorInv, Next,
                      printed' \notin {printed, Nothing}, error \in 0..PERRMSG_MAX
               PROVE  printed' = error
    BY DEF vars
  <2>1. ~Library \/ PerrorPrints
    BY DEF Library, Wrapper, Perror, Pause, Sleep, SleepEnds, Setjmp, SetjmpReturns,
           Longjmp, Lands, Signal, Sigaction, Sigprocmask, Return, ErrnoKept
  <2>2. ~Kernel
    BY DEF Kernel, Raise, Deliver, Discard, HandlerReturns, Exit, ErrnoKept
  <2>3. PerrorPrints
    BY <2>1, <2>2 DEF Next, Ended, vars
  <2>4. stack[1].at = "perror" /\ Top = stack[1] /\ stack # <<>>
    BY <2>3, PerrorFacts
  <2>5. Message = error /\ errno \in {0, error}
    BY <2>4 DEF ErrorInv, Message, Unclear
  <2>6. ~(errno > PERRMSG_MAX) /\ ~(error > PERRMSG_MAX)
    BY <2>5 DEF PERRMSG_MAX
  <2>. QED BY <2>3, <2>5, <2>6 DEF PerrorPrints
<1>. QED BY <1>1, <1>2, InitErrorInv, SteadyJumpInv, PTL DEF Spec, ErrorReported
=============================================================================
