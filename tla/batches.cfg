SPECIFICATION Spec
CONSTANTS
    p1 = p1  p2 = p2  none = none  b1 = b1  b2 = b2  t1 = t1  c1 = c1  e1 = e1  e2 = e2
    Items = {1,2}
    Payloads = {p1}
    Unaddressed = {}
    Batches = {b1,b2}
    Tasks = {}
    Calls = {}
    Requested = {"scheduled"}
    Editors = {}
    Null = none
    Window = 1
    MaxRetries = 1
    BatchLimit = 2
    MaxTime = 0
    MaxAttempts = 3
    MaxEdits = 0
    MaxCrashes = 2
INVARIANT NoLockWhileSending
SYMMETRY BatchSymmetry
