\* Start, failure, signals and shutdown with up to two requests per listener.
SPECIFICATION FairSpec
CONSTANTS
    Domain = {d1, d2}
    MaxArgs = 3
    Lines <- MCLines
    MaxRequests = 2
INVARIANTS
    TypeOK StartsAsAsked NeverHalfAlive ReportsNeverBlock NoRequestIsCut
    CleanExit
PROPERTY EndsWhenItMust
\* The process ends.
CHECK_DEADLOCK FALSE
