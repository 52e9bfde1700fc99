SPECIFICATION Spec
CONSTANTS
    Specs <- Plain
    NodeNamespace = "default"
    NetworkName = "sepolia"
    NetworkNamespace = "default"
    NetworkSpecs <- OneNetwork
    SoundNetworks <- OneNetwork
    Tokens = {t1, t2}
    MaxGeneration = 1
    MaxUid = 2
    MaxNetworkGeneration = 1
    MaxAttempts = 2
    MaxFaults = 0
CONSTRAINTS NetworkHoldsUp
SYMMETRY SomeTokens
INVARIANTS
    TypeOK
    ReconcileHoldsLiveNode
PROPERTIES
    SecretsAreStable
    ImplementsNodeLifecycle
