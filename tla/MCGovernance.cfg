SPECIFICATION Spec
CONSTANTS
    Bundles = {"b1", "b2"}
    Devices <- MCDevices
    NoDevice = "none"
    Regions <- MCRegions
    Values <- MCValues
    Fingerprints = {"b1", "b2"}
    File <- MCFile
    Policy <- MCPolicy
    Subjects = {"d1"}
    People = {"ann"}
    Reviewers = {"ann"}
    Proposals = {"p1"}
    MaxReviews = 2
    MaxPublications = 2
INVARIANTS
    PromotedSubjectsWereReviewed
    PromotionTookAPerson
    ApprovedSubjectsWereApproved
    PublicationsAreBacked
    StatusMatchesPublications
PROPERTIES
    ApprovalKeepsDraftThresholds
    HistoryOnlyGrows
