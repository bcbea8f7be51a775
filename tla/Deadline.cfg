\* Two processes, two zones, every timer; the client's patience is short of
\* the sum of both zones.
SPECIFICATION Spec
CONSTANTS
    Process = {p1, p2}
    Nobody = Nobody
    Zones = 2
    ListLimit = 1
    LockWait = 1
    TTL = 3
    Gap = 1
    ApplyTimeout = 4
    ClientTimeout = 7
    Horizon = 8
INVARIANTS TypeOK AnswerBound HoldersAreAlone TimersSpareShortJobs
\* Time ends at Horizon.
CHECK_DEADLOCK FALSE
