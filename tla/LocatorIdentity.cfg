CONSTANTS
    first = first
    second = second
    third = third
    fourth = fourth
    stranger = stranger
    Locators <- MCLocators
    InScope <- MCInScope
    Seed = first
    HistoricalCap = 3
    FaultyStorage = FALSE
SPECIFICATION Spec
INVARIANTS
    OneIdPerKey
CHECK_DEADLOCK FALSE
