SPECIFICATION FairSpec
CONSTANTS
    Specs <- Roles
    NodeNamespace = "default"
    NetworkName = "sepolia"
    NetworkNamespace = "default"
    NetworkSpecs <- OneNetwork
    SoundNetworks <- OneNetwork
    Tokens = {t1}
    MaxGeneration = 2
    MaxUid = 1
    MaxNetworkGeneration = 1
    MaxAttempts = 1
    MaxFaults = 0
CONSTRAINTS NothingIsDeleted NetworkHoldsUp
PROPERTIES
    NodeFollowsItsSpec
