\* Two connections of one workspace, of which c2 need not take its frames; changes of two
\* workspaces; one lost session, publish or process.
SPECIFICATION FairEventSpec
CONSTANTS
    w1 = w1  w2 = w2  c1 = c1  c2 = c2
    Publishers = {p1, p2}
    Clients = {c1, c2}
    Workspaces = {w1, w2}
    Home <- MCHome
    Prompt = {c1}
    Buffer = 1
    Null = none
    MaxEvents = 3
    MaxFaults = 1
INVARIANT EventInv
PROPERTY StreamsGoOn
