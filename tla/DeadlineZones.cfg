\* One process, two zones: 60 s, 600 s and 605 s in proportion.
SPECIFICATION Spec
CONSTANTS
    Process = {p1}
    Nobody = Nobody
    Zones = 2
    ListLimit = 1
    LockWait = 1
    TTL = 5
    Gap = 2
    ApplyTimeout = 10
    ClientTimeout = 12
    Horizon = 22
INVARIANT ClientGetsTheAnswer
\* Time ends at Horizon.
CHECK_DEADLOCK FALSE
