\* One call: the usage may arrive after the finish_reason
SPECIFICATION Spec
CONSTANTS
    chat = chat
    summary = summary
    ChatModel = chat
    SummaryModel = summary
    MaxTokens = 1
    Pricings <- MCPricings
    None = None
    MaxTexts = 1
    MaxCalls = 1
INVARIANT
    LimitIsReported
CHECK_DEADLOCK FALSE
