----------------------------- MODULE MCSession -----------------------------
(* A program of four instructions without a loop, the scripts of the       *)
(* repository, and every session of two commands after "start".            *)
EXTENDS Session

MCInstr == {0, 2, 4, 6}
MCOpcode == [a \in MCInstr |-> 16 + a]
MCFlow == [a \in MCInstr |-> CASE a = 0 -> {2}
                               [] a = 2 -> {4, 6}
                               [] a = 4 -> {6}
                               [] a = 6 -> {}]
MCExits == {6}
MCUserAddr == {0, 2, 4, 99}
MCRipTargets == {0, 2, 4, 5, 6}
MCLoadBases == {0}
MCFaults == {"exec", "signal", "kill", "intr"}

MCReg == {"rax", "rdx"}
MCWord == {0, 1}
MCFresh == [r \in MCReg |-> 0]
MCComputes == [a \in MCInstr |-> IF a = 0 THEN {"rdx"} ELSE {}]

Plain(ins) == [Blank EXCEPT !.ins = ins]
Words(ins, n) == [Blank EXCEPT !.ins = ins, !.n = n]
Number(ins, form, num) == [Words(ins, 1) EXCEPT !.num = num, !.form = form]
Of(ins, name) == [Words(ins, 1) EXCEPT !.name = name]
Assign(name, form, num) ==
    [Words("set", 2) EXCEPT !.name = name, !.form = form, !.num = num]

\* src/HW4/scripts, on the addresses of this program.
guess == <<Plain("start"), Number("break", "hex", 2), Plain("cont"), Of("get", "rax"),
           Of("get", "rdx"), Assign("rdx", "bare", 1), Assign("rax", "bare", 1), Plain("cont")>>
hello1 == <<Plain("help"), Of("load", "good"), Plain("start"), Number("disasm", "hex", 2)>>
hello2 == <<Of("load", "good"), Plain("vmmap"), Plain("start"), Plain("vmmap"),
            Plain("getregs"), Of("get", "rip"), Plain("run")>>
hello3 == <<Of("load", "good"), Plain("start"), Number("break", "hex", 4), Plain("cont"),
            Of("get", "rip"), Assign("rip", "hex", 0), Plain("cont"), Of("get", "rip"),
            Assign("rip", "hex", 0), Plain("cont"), Plain("cont")>>
hello4 == <<Of("load", "good"), Plain("start"), Number("break", "hex", 4), Plain("list"),
            Plain("cont"), Assign("rip", "hex", 0), Plain("cont"), Number("delete", "bare", 0),
            Assign("rip", "hex", 0), Plain("cont")>>
Scripts == <<guess, hello1, hello2, hello3, hello4>>

Letters ==
    <<Plain("run"), Plain("cont"), Words("cont", 1), Plain("si"), Plain("getregs"),
      Plain("exit"), Words("exit", 1), Of("load", "bad"), Of("get", "rax"),
      Number("break", "hex", 2), Number("break", "hex", 99), Of("break", "x"),
      Number("delete", "hex", 7), Of("delete", "x"),
      Number("break", "hex", 0), Assign("rip", "hex", 5), Assign("rip", "bare", 0),
      Assign("rax", "hex", 1), Assign("rdx", "bare", 1), Assign("other", "hex", 1)>>

Session(program, script, lines, newline) ==
    [program |-> program, script |-> script, lines |-> lines, newline |-> newline]

NLetters == Len(Letters)
Letter(k) == Letters[1 + (k % NLetters)]

\* The scripts of the repository, run with and without a program, one that
\* cannot be opened, and a wrong option.
FromRepository(k) ==
    CASE k \in 0..4 -> Session("good", "opens", Scripts[k + 1], FALSE)
      [] k \in 5..9 -> Session("none", "opens", Scripts[k - 4], FALSE)
      [] k = 10     -> Session("none", "missing", hello1, TRUE)
      [] k = 11     -> Session("good", "usage", hello1, TRUE)

\* Every two commands after start, from a script or from a terminal, whose
\* last line is complete or not.
Pair(k) ==
    LET source == k \div (NLetters * NLetters) IN
    Session("good", IF source = 0 THEN "opens" ELSE "none",
            <<Plain("start"), Letter(k \div NLetters), Letter(k)>>, source # 2)

\* Every command at a terminal, without a program.
Single(k) == Session("bad", "none", <<Letter(k)>>, TRUE)

MCInputs ==
    [k \in 1..(12 + NLetters + 3 * NLetters * NLetters) |->
        IF k <= 12 THEN FromRepository(k - 1)
        ELSE IF k <= 12 + NLetters THEN Single(k - 13)
        ELSE Pair(k - 13 - NLetters)]
=============================================================================
