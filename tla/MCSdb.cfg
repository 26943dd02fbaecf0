SPECIFICATION FairSpec
CONSTANTS
    Instr <- MCInstr
    Entry = 0
    Opcode <- MCOpcode
    Flow <- MCFlow
    Exits <- MCExits
    UserAddr <- MCUserAddr
    RipTargets <- MCRipTargets
    Dynamic = TRUE
    LoadBases <- MCLoadBases
    Faults <- MCFaults
INVARIANTS
    TypeOK
    TextIntegrity
    DisarmedIsReported
    DetachedClean
PROPERTIES
    BreakpointsStop
    ReportsAreTraps
    Returns
    ImplementsIdeal
