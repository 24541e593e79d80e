SPECIFICATION ConsumerSpec
CONSTANTS
    Exchanges = {x1}
    Text <- MCText
    Length <- MCLengths
    Matches <- MCMatches
    UUID <- MCUUID
    Timestamp <- MCTimestamp
    Number <- MCNumber
    ParseUUID <- MCParseUUID
    FormatUUID <- MCFormatUUID
    ParseTime <- MCParseTime
    FormatTime <- MCFormatTime
    NoUUID = "uuid0"
    NoTime = "zero"
    Escapes <- MCEscapes
    Unescaped <- MCUnescaped
    Reserved <- MCReserved
    Default <- MCDefault
    Inputs <- MCInputs
    OptionLists <- MCOptionLists
    Outcomes <- MCOutcomes
    SecurityOutcomes = {"accept", "skip", "deny"}
    CustomStatus = 418
    MaxEdits = 1
    EditTexts = {"odd", "u1"}
INVARIANT SessionFirst
INVARIANT TelemetryMatchesWire
INVARIANT RoutesAgree
INVARIANT LastOptionDecides
INVARIANT DecodesToSent
INVARIANT AcceptsConforming
INVARIANT RepeatsMerge
CHECK_DEADLOCK FALSE
