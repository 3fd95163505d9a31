SPECIFICATION Spec
CONSTANTS
    Symbols <- AllSymbols
    Words <- AllWords
    Sent <- AllSent
    Typed <- AllTyped
INVARIANT RoundTrip
INVARIANT PiecesExact
\* A string is parsed once.
CHECK_DEADLOCK FALSE
