CONSTANTS
    Null = Null
    Canonical <- MCCanonical
    NormalizeValues <- MCNormalizeValues
    SupportedTypes <- MCSupportedTypes
    Zones <- MCZones
    ChangeSets <- MCChangeSets
SPECIFICATION Spec
INVARIANTS TypeOK RetryIsNoop
PROPERTIES ForeignUntouched EditIsMerge AbortsOnlyMisspelt
