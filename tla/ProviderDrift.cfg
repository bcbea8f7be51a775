CONSTANTS
    Label <- MCLabel
    Name <- MCName
    ZoneName <- MCZoneName
    Scopes <- MCScopes
    Rank <- MCRank
    Events = {"zone"}
SPECIFICATION Spec
PROPERTY DeletesWhatWasRead
