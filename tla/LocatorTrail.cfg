CONSTANTS
    first = first
    second = second
    third = third
    fourth = fourth
    stranger = stranger
    Locators <- MCLocators
    InScope <- MCInScope
    Seed = first
    HistoricalCap = 3
    FaultyStorage = TRUE
SPECIFICATION Spec
INVARIANTS
    TypeOK
    OneCurrent
    CurrentIsAuthorized
PROPERTIES
    HistoryGrows
    RowsKeepIdentity
CHECK_DEADLOCK FALSE
