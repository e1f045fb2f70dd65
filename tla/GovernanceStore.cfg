SPECIFICATION Spec
CONSTANTS
    Processes = {"c1", "c2"}
    Authors = {"ann", "bob"}
    Absent = Absent
    Torn = Torn
    ExternalLock = TRUE
    MaxSecond = 1
    MaxEvents = 4
INVARIANTS
    FileAlwaysLoads
    PackagePrecedesRecord
    RecordsDescribeTheirPackage
    AcknowledgedIsKept
PROPERTIES
    ImplementsLog
