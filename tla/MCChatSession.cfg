\* All strategies, separate models for answers and summaries, eight records
SPECIFICATION Spec
CONSTANTS
    Strategies = {"dummy", "sliding_window", "summary"}
    WindowSize = 3
    ChatModel = chat_model
    SummaryModel = summary_model
    EmptyAnswers = FALSE
    MaxRecords = 8
    None = None
    Missing = Missing
    Torn = Torn
INVARIANTS
    TypeOK
    NothingForgotten
    ContextBounded
    AnswersCounted
    DoneReportsTurn
PROPERTIES
    ImplementsHistory
CHECK_DEADLOCK FALSE
