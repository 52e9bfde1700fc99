SPECIFICATION FairSpec
CONSTANTS
    Specs <- ValidAndInvalid
    UserAddresses <- MCAddresses
    L1ChainAt <- MCL1ChainAt
    MaxGeneration = 1
    MaxUid = 2
    MaxAttempts = 2
    MaxFaults = 1
    Meddling = TRUE
CHECK_DEADLOCK FALSE
PROPERTIES
    SoundSpecBecomesReady
    DeletionCompletes
    InvalidSpecIsReported
    SpecBelongsToUsers
