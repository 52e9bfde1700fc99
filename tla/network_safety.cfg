SPECIFICATION Spec
CONSTANTS
    Specs <- AllSpecs
    UserAddresses <- MCAddresses
    L1ChainAt <- MCL1ChainAt
    MaxGeneration = 2
    MaxUid = 2
    MaxAttempts = 2
    MaxFaults = 2
    Meddling = FALSE
CONSTRAINT FaultsOrChanges
CHECK_DEADLOCK FALSE
INVARIANTS
    TypeOK
    ReadyIsEarned
    ReconcileHoldsLiveObject
    ObservedWithinGeneration
PROPERTIES
    UsesAddressCache
    SpecBelongsToUsers
    ImplementsLifecycle
