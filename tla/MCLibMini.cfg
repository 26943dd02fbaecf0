SPECIFICATION Spec
CONSTANTS
    Sig <- MCSig
    Errors <- MCErrors
    Masks <- MCMasks
    MaxDepth = 3
    MaxDrift = 1
INVARIANTS
    TypeOK
    NotReentered
PROPERTIES
    JumpRestoresMask
    ErrorReported
