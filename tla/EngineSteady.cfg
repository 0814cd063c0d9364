CONSTANTS
    box = box
    neighbour = neighbour
    scan = scan
    probe = probe
    stray = stray
    Subjects <- MCSubjects
    Target = box
    Exact <- MCExact
    Subdomains <- MCSubdomains
    Excludes <- MCExcludes
    Edits <- MCEdits
    Keys <- MCKeys
    SubjectOf <- MCSubjectOf
    Roots <- MCRoots
    Opens <- MCOpens
    Gapless <- MCGapless
    MaxIterations = 6
    MaxFailures = 3
    StallCycles = 3
    MaxCrashes = 0
    MaxFaults = 0
SPECIFICATION FairSpec
INVARIANTS
    FailureLimit
    StallIsEarned
PROPERTIES
    RunEnds
CHECK_DEADLOCK FALSE
