SPECIFICATION FairSpec
CONSTANTS
    Volumes = {v1, v2}
    NoVolume = NoVolume
    MaxRecords = 2
    MaxXid = 5
INVARIANTS
    TypeOK
    DurableIsPublished
    AppliedInOrder
    RecoveryProvable
    CensusCoversJournal
    ReaderLoadable
    PreimageCurrent
PROPERTY ImplementsAcceptedLog StartupConcludes
