SPECIFICATION SessionSpec
CONSTANTS
    Instr <- MCInstr
    Entry = 0
    Opcode <- MCOpcode
    Flow <- MCFlow
    Exits <- MCExits
    UserAddr <- MCUserAddr
    RipTargets <- MCRipTargets
    Dynamic = FALSE
    LoadBases <- MCLoadBases
    Faults <- MCFaults
    Reg <- MCReg
    Word <- MCWord
    Fresh <- MCFresh
    Computes <- MCComputes
    Inputs <- MCInputs
INVARIANTS
    SessionTypeOK
    EachLineOnce
PROPERTIES
    EndOfInputHarmless
    RegistersKept
    ScriptEnds
