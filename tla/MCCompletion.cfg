\* Three calls that return: a turn with a summary and one without, over restarts
SPECIFICATION Spec
CONSTANTS
    chat = chat
    summary = summary
    ChatModel = chat
    SummaryModel = summary
    MaxTokens = 2
    Pricings <- MCPricings
    None = None
    MaxTexts = 2
    MaxCalls = 3
INVARIANTS
    TypeOK
    TotalIsSum
    CurrentIsSum
    StopReasonJustified
    StatisticsNested
PROPERTIES
    ImplementsPort
CHECK_DEADLOCK FALSE
