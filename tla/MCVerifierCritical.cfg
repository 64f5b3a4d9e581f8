SPECIFICATION Spec
CONSTANTS
    CvmClaims <- MCCvmClaims
    PlatClaims <- MCPlatClaims
    MaxItems = 5
    Comps <- MCComps
    Refs <- MCRefs
    Events <- MCEvents
    MaxEvents = 1
    ImaEntries <- MCImaEntries
    MaxIma = 2
CHECK_DEADLOCK FALSE
INVARIANTS CriticalStepsHold
