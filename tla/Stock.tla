-------------------------------- MODULE Stock --------------------------------
(* The products table, as the discovery and the inventory pages change it. *)
EXTENDS Naturals

CONSTANTS
    None,
    Finds       \* products that can be found and imported, numbered as the lists order them

VARIABLES
    stock,      \* the status of a product, or "none"
    allowance   \* bound: of every kind of click, failure or request, how many more

Statuses == {"draft", "active", "inactive", "archived"}

StockTypeOK == stock \in [Finds -> Statuses \cup {"none"}]

Use(on) == allowance[on] > 0 /\ allowance' = [allowance EXCEPT ![on] = @ - 1]

\* upsert_product: a new product is a draft, a known one keeps its status
Upserted(fs) ==
    [f \in Finds |-> IF f \in fs /\ stock[f] = "none" THEN "draft" ELSE stock[f]]

Deleted(f) == [stock EXCEPT ![f] = "none"]
=============================================================================
