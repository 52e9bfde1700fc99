SPECIFICATION SystemSpec
CONSTANTS
    Specs <- Networks
    UserAddresses <- MCAddresses
    L1ChainAt <- MCL1ChainAt
    MaxGeneration = 2
    MaxUid = 1
    MaxAttempts = 1
    MaxFaults = 0
    Meddling = FALSE
    NodeSpecs <- Nodes
    NodeNamespace = "default"
    NetworkName = "sepolia"
    NetworkNamespace = "default"
    MaxNodeGeneration = 2
    MaxNodeUid = 1
CHECK_DEADLOCK FALSE
INVARIANTS
    MountedConfigExists
