SPECIFICATION Spec
CONSTANTS
    Bundles <- MCBundles
    Devices <- MCDevices
    NoDevice = "none"
    Regions <- MCRegions
    Values <- MCValues
    Fingerprints = {"f1", "f2", "f3"}
    File <- MCFile
    Policy <- MCPolicy
    MetadataClaim <- MCMetadataClaim
    Processes = {p1, p2}
    ExternalLock = TRUE
    MaxEvents = 5
SYMMETRY MCSymmetry
INVARIANTS
    LogExplainsRegistry
    DeviceIndexExact
    FirstClaimStands
    CandidatesAreSnapshots
PROPERTIES
    ConflictsAreNeverCleared
    ImplementsView
