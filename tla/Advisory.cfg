SPECIFICATION Spec
CONSTANTS
    Ids = {1, 2}
    Labels = {l1, l2}
    KnownMcus = {m1, m2}
    Another = another
    Mcus = {m1, m2, another}
    None = none
    HardwareCatalogs <- MCHardwareCatalogs
    FirmwareCatalogs <- MCFirmwareCatalogs
SYMMETRY MCSymmetry
CHECK_DEADLOCK FALSE
INVARIANTS
    VerdictsAreTrueOfTheRadio
    ContradictionsAreNotResolved
