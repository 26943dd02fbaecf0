SPECIFICATION Spec
CONSTANTS
    Instr <- MCInstr
    Entry = 0
    Opcode <- MCOpcode
    Flow <- MCFlow
    Exits <- MCExits
    UserAddr <- MCUserAddr
    RipTargets <- MCRipTargets
    Dynamic = FALSE
    LoadBases <- MCLoadBases
    Faults <- NoFaults
PROPERTIES
    ReportsAreTraps
