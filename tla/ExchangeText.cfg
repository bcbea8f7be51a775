\* A TXT record with a backslash, without quotation marks.
CONSTANTS
    Canonical <- MCCanonical
    Unqualified <- MCUnqualified
    Underscored <- MCUnderscored
    Null = Null
    ttlMax = 2
    v1 = v1
    v2 = v2
    spf = spf
    Word = {spf}
    Wishes <- WithOneBackslash
    RawChanges <- MCRawChanges
    Zones <- MCZones
    Failures <- MCFailures
SPECIFICATION Spec
INVARIANT TextIsKept
