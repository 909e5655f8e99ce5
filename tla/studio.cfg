\* Two products, two settings; the user may click nothing more.
CHECK_DEADLOCK FALSE
SPECIFICATION StudioSpec
CONSTANTS
    Products = {"lamp", "case"}
    None = none
    Texts <- MCTexts
    Edits <- MCEdits
    Configs = {"short", "long"}
    Jobs = {1, 2}
    Budgets <- MCBudgets
INVARIANTS StudioInv DocumentKeepsLines
PROPERTY PostedAsShown
