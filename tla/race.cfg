SPECIFICATION FairSpec
CONSTANTS
    p1 = p1  p2 = p2  none = none  b1 = b1  b2 = b2  t1 = t1  c1 = c1  e1 = e1  e2 = e2
    Items = {1}
    Payloads = {p1, p2}
    Unaddressed = {p2}
    Batches = {b1}
    Tasks = {t1}
    Calls = {}
    Requested = {"draft", "queued", "published", "failed"}
    Editors = {e1}
    Null = none
    Window = 1
    MaxRetries = 1
    BatchLimit = 2
    MaxTime = 0
    MaxAttempts = 2
    MaxEdits = 1
    MaxCrashes = 0
INVARIANTS TypeOK ClaimInv PostsMatchAttempts RowsBackedByAttempts StartedIsOwned
PROPERTY PublishEnds
