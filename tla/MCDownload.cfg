SPECIFICATION FairSpec
CONSTANTS
    Callers = {a}
    Lengths <- SmallLengths
    ThreadCounts = {1, 2, 7}
    Threshold = 3
    Slack = 1
    Limit = 4
    Inodes = {n1}
    NoFile = NoFile
    a = a
    n1 = n1
INVARIANT TypeOK
INVARIANT BlocksDisjoint
INVARIANT BlocksCover
INVARIANT BlocksInside
PROPERTY DownloadedIsComplete
PROPERTY CallReturns
