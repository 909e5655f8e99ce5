SPECIFICATION Spec
CONSTANTS
    p1 = p1  p2 = p2  none = none  b1 = b1  b2 = b2  t1 = t1  c1 = c1  e1 = e1  e2 = e2
    Items = {1}
    Payloads = {p1, p2}
    Unaddressed = {}
    Batches = {b1}
    Tasks = {}
    Calls = {c1}
    Requested = {"draft", "queued", "scheduled", "published", "failed"}
    Editors = {e1}
    Null = none
    Window = 1
    MaxRetries = 1
    BatchLimit = 2
    MaxTime = 1
    MaxAttempts = 2
    MaxEdits = 1
    MaxCrashes = 0
PROPERTY ClaimsCurrentPayload
