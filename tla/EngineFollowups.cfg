CONSTANTS
    box = box
    neighbour = neighbour
    scan = scan
    probe = probe
    stray = stray
    Subjects <- MCSubjects
    Target = box
    Exact <- MCExact
    Subdomains <- MCSubdomains
    Excludes <- MCExcludes
    Edits <- MCEdits
    Keys <- MCKeys
    SubjectOf <- MCSubjectOf
    Roots <- MCRoots
    Opens <- MCOpens
    Gapless <- MCGapless
    MaxIterations = 3
    MaxFailures = 2
    StallCycles = 2
    MaxCrashes = 1
    MaxFaults = 0
SPECIFICATION Spec
INVARIANTS
    FollowupsInScope
CHECK_DEADLOCK FALSE
