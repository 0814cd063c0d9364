CONSTANTS
    box = box
    neighbour = neighbour
    scan = scan
    probe = probe
    stray = stray
    Subjects <- MCSubjects
    Target = box
    Exact <- MCExact
    Subdomains <- MCSubdomains
    Excludes <- MCExcludes
    Edits <- MCEdits
    Keys <- MCKeys
    SubjectOf <- MCSubjectOf
    Roots <- MCRoots
    Opens <- MCOpens
    Gapless <- MCGapless
    MaxIterations = 4
    MaxFailures = 2
    StallCycles = 2
    MaxCrashes = 1
    MaxFaults = 1
SPECIFICATION Spec
INVARIANTS
    TypeOK
    AttemptBudget
    ExecutionBudget
    NoEvidenceLostLater
    CompletionIsJustified
    CountersAreEarned
PROPERTIES
    EndIsQuiet
    CoverageIsFinal
    ContractKept
CHECK_DEADLOCK FALSE
