CONSTANTS
    Accounts = {a1, a2}
    Tabs = {s1}
    Posts = {p1}
    Requests = {q1, q2}
    TtlMin = 1
    NoRequest = NoRequest

SPECIFICATION FairSpec
INVARIANT TypeOK
INVARIANT NoRepeatInScroll
PROPERTY AccountsAreIndependent
PROPERTY ExpiredSessionsAreCollected
