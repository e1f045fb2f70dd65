SPECIFICATION Spec
CONSTANTS
    Heard <- MCHeard
    InitialFiles <- MCInitialFiles
    Paths <- MCPaths
    MaxAttempts = 2
    MaxRuns = 2
INVARIANTS
    CapturesReadBack
    SanitizedFilesAreClean
    
    AttemptsAreAPrefix
    VerdictsHaveEvidence
