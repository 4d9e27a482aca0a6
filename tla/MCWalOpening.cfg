SPECIFICATION Spec
CONSTANTS
    MaxFiles = 7
    MaxRecords = 1
    MaxFaults = 2
    MaxCrashes = 1
PROPERTY OpensEventually
