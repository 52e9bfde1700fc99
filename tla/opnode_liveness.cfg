SPECIFICATION FairSpec
CONSTANTS
    Specs <- Plain
    NodeNamespace = "default"
    NetworkName = "sepolia"
    NetworkNamespace = "default"
    NetworkSpecs <- OneNetwork
    SoundNetworks <- OneNetwork
    Tokens = {t1}
    MaxGeneration = 1
    MaxUid = 1
    MaxNetworkGeneration = 1
    MaxAttempts = 1
    MaxFaults = 1
CONSTRAINTS NetworkHoldsUp
PROPERTIES
    ValidNodeRuns
    DeletionCompletes
    ImplementsNodeLifecycle
