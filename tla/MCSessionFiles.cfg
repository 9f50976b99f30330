\* Two prompts and four configurations; saves, removals and the process may stop
SPECIFICATION Spec
CONSTANTS
    p1 = p1
    p2 = p2
    h1 = h1
    h2 = h2
    h3 = h3
    prompt_md = prompt_md
    Prompts = {p1, p2}
    Names = {h1, h2, h3, prompt_md}
    Hash <- MCHash
    Defaults <- MCDefaults
    Empty = Empty
    Cut = Cut
    Info = Info
    Messages = Messages
    Rest = Rest
    Faults = {"stop", "crash", "delete"}
    None = None
INVARIANTS
    TypeOK
    PromptsAreOwn
    ReferencesResolve
    RestartKeepsPrompts
CHECK_DEADLOCK FALSE
