CONSTANTS
    Label <- MCLabel
    Name <- MCName
    ZoneName <- MCZoneName
    Scopes <- MCScopes
    Rank <- MCRank
    Events = {"zone", "edit"}
SPECIFICATION Spec
INVARIANTS TypeOK ReadNamesOnce ReadIsExact OkMeansEverywhere
PROPERTIES ScopeIsRespected ReadAndWriteAgree
