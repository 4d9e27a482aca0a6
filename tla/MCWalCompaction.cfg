SPECIFICATION Spec
CONSTANTS
    MaxFiles = 7
    MaxRecords = 2
    MaxFaults = 1
    MaxCrashes = 2
INVARIANTS TypeOK NeverRefused ResultStands
PROPERTY ImplementsDurableLog
