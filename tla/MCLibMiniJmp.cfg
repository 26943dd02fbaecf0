SPECIFICATION Spec
CONSTANTS
    Sig <- MCSig
    Errors <- MCErrors
    Masks <- MCMasks
    MaxDepth = 3
    MaxDrift = 1
PROPERTIES
    LandsBalanced
