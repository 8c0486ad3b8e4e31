SPECIFICATION FairSpec
CONSTANTS
    Sizes <- AllSizes
    MaxFrame = 2
    MaxBuffer = 5
    MaxFrames = 5
INVARIANTS
    TypeOK
    NeverRejected
    BufferBounded
    CommittedOnce
    
    CaptureKept
PROPERTIES
    ContractSpec
    EveryStreamConcludes
CHECK_DEADLOCK FALSE
