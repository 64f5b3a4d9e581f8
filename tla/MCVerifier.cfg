SPECIFICATION FairSpec
CONSTANTS
    CvmClaims <- MCCvmClaims
    PlatClaims <- MCPlatClaims
    MaxItems = 5
    Comps <- MCComps
    Refs <- MCRefs
    Events <- MCEvents
    MaxEvents = 3
    ImaEntries <- MCImaEntries
    MaxIma = 3
CHECK_DEADLOCK FALSE
INVARIANTS FullTokenSound VerdictFromClaims ComponentsVouched ImaSound ReplayInOrder FirmwareVouched
PROPERTIES VerdictReached
