SPECIFICATION HelpersSpec
CONSTANTS
    Types = {"ConfigurationValid", "L1Connected", "ContractsDiscovered"}
    MaxTime = 2
    SetNames = {"none", "stable", "latest", "unknown"}
    Versions = {"none", "v1.13.3"}
    NodeImages <- SomeNodeImages
    GethImages <- SomeGethImages
    BatcherImages <- SomeBatcherImages
INVARIANTS
    OneEntryPerType
    AcceptedImagesAgree
    MostSpecificWins
PROPERTIES
    SetsOneType
