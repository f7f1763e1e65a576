CONSTANTS
    Channels <- MCChannels
    Inputs <- MCInputs
    Cases <- MCCases
SPECIFICATION FairSpec
INVARIANTS
    TypeOK
    PairsExact
    SecondParseAgrees
    RowsExact
    HeardExactly
    BadStatesOnce
PROPERTIES
    AllHandled
CHECK_DEADLOCK FALSE
