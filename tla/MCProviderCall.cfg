SPECIFICATION Spec
CONSTANTS
    MaxRetries = 3
    ClientTimeout = 4
    Deadlines <- MCDeadlines
    MaxPieces = 2
INVARIANTS
    TypeOK
    ReturnsInTime
PROPERTY RefinesCall
