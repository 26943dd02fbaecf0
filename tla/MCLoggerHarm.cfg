SPECIFICATION Spec
CONSTANTS
    Proc <- MCProc
    First = 1
    File <- MCFile
    MaxFd = 5
    MaxCalls = 2
    BufSize = 3
    StderrTty = FALSE
    Targets <- AnyTarget
    Program <- FailingProgram
INVARIANTS
    Harmless
