\* Two tabs, two requests of which one fetches the profile, two users who log in once each.
\* Everybody may be logged out for good once the logins are used up.
CHECK_DEADLOCK FALSE
SPECIFICATION FairSessionSpec
CONSTANTS
    t1 = t1  t2 = t2  q1 = q1  q2 = q2  u1 = u1  u2 = u2
    Callers = {t1, t2, q1, q2}
    Tabs = {t1, t2}
    Entry = {t1}
    Requests = {q1, q2}
    Profile = {q1}
    Logins = {1, 2}
    Users = {u1, u2}
    UserOf <- MCUserOf
    Null = none
    MaxTokens = 2
    MaxCauses = 1
INVARIANTS SessionInv RotationInv ReuseHasCause SignOutIsFinal
PROPERTIES LineageSpec RequestsSettle
