SPECIFICATION Spec
CONSTANTS
    MaxLen = 3
    MaxPending = 2
    Inserts <- MCInserts
INVARIANT InSync
INVARIANT NoPanic
INVARIANT PositionsAgree
