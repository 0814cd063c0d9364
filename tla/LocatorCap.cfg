CONSTANTS
    first = first
    second = second
    third = third
    fourth = fourth
    stranger = stranger
    Locators <- AllAllowed
    InScope <- AllAllowed
    Seed = first
    HistoricalCap = 1
    FaultyStorage = FALSE
SPECIFICATION Spec
INVARIANTS
    RetiredNotTargeted
CHECK_DEADLOCK FALSE
