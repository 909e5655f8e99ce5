\* Two items, two operations at a time, two clicks that start one, two foreign changes.
\* The user may click nothing more.
CHECK_DEADLOCK FALSE
SPECIFICATION FairBoardSpec
CONSTANTS
    Items = {1, 2}
    Jobs = {1, 2}
    Nobody = 0
    FirstRows <- MCRows
    Filters = {"all", "failed"}
    PageSize = 1
    Concurrency = 1
    Budgets <- MCBudgets
INVARIANTS BoardInv SummariesAreFresh FailuresAreShown
PROPERTY MarkersAreTrue
