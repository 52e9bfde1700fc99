SPECIFICATION Spec
CONSTANTS
    Specs <- Keyed
    NodeNamespace = "default"
    NetworkName = "sepolia"
    NetworkNamespace = "default"
    NetworkSpecs <- TwoNames
    SoundNetworks <- TwoNames
    Tokens = {t1, t2}
    MaxGeneration = 1
    MaxUid = 1
    MaxNetworkGeneration = 2
    MaxAttempts = 1
    MaxFaults = 1
CONSTRAINTS NetworkHoldsUp NothingIsDeleted
SYMMETRY SomeTokens
INVARIANTS
    MountsExist
    ServiceSelectsPods
PROPERTIES
    SecretsAreStable
