CONSTANTS
    MallocFile <- MCMallocFile
    LogLines <- MCLogLines
    MaxLines = 4
    Threshold = 3
    LineBytes = 4
    RWMod = 16
    PCMod = 4

SPECIFICATION Spec
CHECK_DEADLOCK TRUE

INVARIANT MissesNone
INVARIANT ReportsReal
INVARIANT RankingFollowsLog
INVARIANT OutputExact
