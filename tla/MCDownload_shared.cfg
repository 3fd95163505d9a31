SPECIFICATION Spec
CONSTANTS
    Callers = {a, b}
    Lengths <- Shared
    ThreadCounts = {1, 2}
    Threshold = 3
    Slack = 1
    Limit = 4
    Inodes = {n1, n2, n3}
    NoFile = NoFile
    a = a
    b = b
    n1 = n1
    n2 = n2
    n3 = n3
PROPERTY DownloadedIsComplete
