SPECIFICATION Spec
CONSTANTS
    Specs <- MCSpecs
    UserAddresses <- MCAddresses
    DefaultTimeout = 2
    MaxTime = 5
INVARIANTS
    TypeOK
    AnswersAreRecent
PROPERTIES
    ImplementsAddressCache
