\* The summarisation call may answer with an empty text
SPECIFICATION Spec
CONSTANTS
    Strategies = {"summary"}
    WindowSize = 2
    ChatModel = model
    SummaryModel = model
    EmptyAnswers = TRUE
    MaxRecords = 4
    None = None
    Missing = Missing
    Torn = Torn
INVARIANT
    SummaryLeadsContext
CHECK_DEADLOCK FALSE
