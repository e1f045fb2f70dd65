SPECIFICATION Spec
CONSTANTS
    Labels = {"a", "b"}
    NoLabel = "none"
    Processes = {c1, c2}
    ExportLists <- MCExportLists
    BundlePaths = {bundle1}
    FoundBundles <- MCFoundBundles
    FoundPackages <- MCFoundPackages
    DeclarationLists <- MCDeclarationLists
    DeviceLabels = {"a"}
    Regions = {2}
    ExternalLock = TRUE
    MaxEvents = 2
SYMMETRY Symmetry
INVARIANTS
    ImportedEvidenceIsSound
    FingerprintsAreOfTheEvidence
    OwnContributionsAreSafe
