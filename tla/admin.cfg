SPECIFICATION AdminSpec
CONSTANTS
    None = None  ch = ch  pg = pg  t1 = t1  t2 = t2
    Channels <- MCChannels
    Pages <- MCPages
    Tokens <- MCTokens
    Calls <- MCTwo
    Saves <- MCTwo
    Starts <- MCStarts
CHECK_DEADLOCK FALSE
INVARIANTS AdminInv CachesAreCurrent VerdictIsOfToken
PROPERTY SaveChangesOnlyEdits
