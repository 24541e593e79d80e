SPECIFICATION Spec
CONSTANTS
    Exchanges = {x1, x2}
    Text <- MCText
    Length <- MCLengths
    Matches <- MCMatches
    UUID = {"uuid0", "uuid1"}
    Timestamp = {"zero"}
    Number = {0, 1}
    ParseUUID <- MCParseUUID
    NoUUID = "uuid0"
    Escapes <- MCEscapes
    Unescaped <- MCUnescaped
    Reserved <- MCReserved
    Default = {}
    ClientRequests <- MCClientRequests
    NewIds = {"new"}
    CustomStatus = 418
INVARIANT EffectiveId
INVARIANT OrganizationHidden
INVARIANT ProbeTellsTheTime
INVARIANT TelemetryAddsUp
PROPERTY ImplementsGenerated
PROPERTY Answered
CHECK_DEADLOCK FALSE
