SPECIFICATION Spec
CONSTANTS
    Key = Key
    Wrong = Wrong
    NoKey = NoKey
    Absent = Absent
    Torn = Torn
    MaxStarts = 4
INVARIANT CredentialKept
INVARIANT LoginHash
INVARIANT ExecutableKept
\* No start is left.
CHECK_DEADLOCK FALSE
