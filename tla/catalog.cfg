SPECIFICATION CatalogSpec
CONSTANTS
    None = None
    Finds <- MCFinds
    Modes <- MCModes
    DefaultMode = "deals"
    Subs <- MCSubs
    LastPage = 2
    Answers <- MCAnswers
    Tasks <- MCTwo
    Filters <- MCFilters
    Limit = 1
    LastPage0 = 1
    Jobs <- MCTwo
    Starts <- MCStarts
CHECK_DEADLOCK FALSE
INVARIANTS CatalogInv RunIsTruthful ViewIsCurrent
