\* The loop of ExternalDNS on one zone, with every kind of record and failure.
CONSTANTS
    Canonical <- MCCanonical
    Unqualified <- MCUnqualified
    Underscored <- MCUnderscored
    Null = Null
    ttlMax = 2
    v1 = v1
    v2 = v2
    spf = spf
    Word = {spf}
    Wishes <- MCWishes
    RawChanges <- MCRawChanges
    Zones <- MCZones
    Failures <- MCFailures
SPECIFICATION Spec
INVARIANTS TypeOK NothingLeftToDo SentIsStorable TextIsKept
INVARIANT AnswerTellsWhetherToRetry
PROPERTY RefusesOnlyTheImpossible
