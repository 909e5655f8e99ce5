\* A tab with two connections: the one it owns and one it left.
SPECIFICATION FairLiveSpec
CONSTANTS
    w1 = w1  t1 = t1  c1 = c1  c2 = c2
    Publishers = {p1}
    Clients = {c1, c2}
    Workspaces = {w1}
    Home <- MCHome
    Prompt = {c1, c2}
    Tabs = {t1}
    WorkspaceOf <- MCWorkspaceOf
    Buffer = 1
    Null = none
    MaxEvents = 2
    MaxFaults = 1
INVARIANT LiveInv
PROPERTY ViewsCatchUp
