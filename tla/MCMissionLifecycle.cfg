CONSTANTS
    box = box
    parent = parent
    sibling = sibling
    Subjects <- MCSubjects
    Target = box
    Exact <- MCExact
    Subdomains <- MCSubdomains
    Excludes <- MCExcludes
    Edits <- MCEdits
    MaxIterations = 3
SPECIFICATION LifecycleSpec
INVARIANTS
    LifecycleTypeOK
    AuthorizedTarget
    FlagsAgree
PROPERTIES
    FreezeIsFinal
    EndIsFinal
CHECK_DEADLOCK FALSE
