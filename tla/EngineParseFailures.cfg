CONSTANTS
    box = box
    neighbour = neighbour
    scan = scan
    probe = probe
    stray = stray
    Subjects <- MCSubjects
    Target = box
    Exact <- MCExact
    Subdomains <- MCSubdomains
    Excludes <- MCExcludes
    Edits <- MCEdits
    Keys <- MCKeys
    SubjectOf <- MCSubjectOf
    Roots <- MCRoots
    Opens <- MCOpens
    Gapless <- MCGapless
    MaxIterations = 4
    MaxFailures = 2
    StallCycles = 2
    MaxCrashes = 0
    MaxFaults = 0
SPECIFICATION Spec
INVARIANTS
    FailuresEndMission
CHECK_DEADLOCK FALSE
