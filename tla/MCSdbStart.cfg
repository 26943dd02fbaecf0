SPECIFICATION Spec
CONSTANTS
    Instr <- MCInstr
    Entry = 0
    Opcode <- MCOpcode
    Flow <- MCFlow
    Exits <- MCExits
    UserAddr <- MCUserAddr
    RipTargets <- MCRipTargets
    Dynamic = TRUE
    LoadBases <- MCLoadBases
    Faults <- MCFaults
PROPERTIES
    StartStopsTracee
