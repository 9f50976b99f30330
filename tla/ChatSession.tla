---------------------------- MODULE ChatSession ----------------------------
(***************************************************************************)
(* One Session object over the files of its directory: the turn            *)
(* (Session.acompletion and SendMessageUseCase.execute), the three message *)
(* context strategies, the usage statistics, and the save and load of      *)
(* SessionFileAdapter.  Its prompt files, which a save writes first, are   *)
(* in SessionFiles, the tokens of the LLM calls in Completion.             *)
(*                                                                         *)
(* A turn is suspended in its LLM calls and in the sends of its frames; a  *)
(* save is one step of the event loop that goes through four file          *)
(* operations here, and may stop after any of them.  ChatServer decides    *)
(* who runs a turn and when, and abstracts the files to readable or not.   *)
(*                                                                         *)
(* A record is its id and its role.  A summary text is the set of records  *)
(* it was made from, empty for the empty text.                             *)
(***************************************************************************)
EXTENDS Naturals, Sequences, FiniteSets, SequencesExt

CONSTANTS
    Strategies,    \* the context strategies a session may be created with
    WindowSize,    \* of the sliding_window and summary strategies
    ChatModel,     \* the model of completion_config
    SummaryModel,  \* the model of the strategy's completion_config
    EmptyAnswers,  \* may the summarisation call answer with an empty text?
    MaxRecords,    \* bound: records ever made
    None,          \* Python's None
    Missing,       \* a file that was never written
    Torn           \* a file that was truncated and not written to the end

ASSUME StrategiesAssumption ==
    Strategies \subseteq {"dummy", "sliding_window", "summary"}

ASSUME WindowAssumption == WindowSize \in Nat \ {0} /\ MaxRecords \in Nat

ASSUME EmptyAssumption == EmptyAnswers \in BOOLEAN

VARIABLES
    pc,        \* absent (not in memory), idle, or where the turn is suspended
    strategy,  \* strategy_type
    records,   \* _records of the strategy
    summary,   \* _summary: the records its text covers, and anchor_id
    context,   \* what the last turn sent to the LLM
    total,     \* _lifecycle_total: LLM calls counted per model
    current,   \* _current_invocation: LLM calls counted per model
    overdue,   \* reference: records of failed turns that wait for a summary
    issued,    \* number of record ids made so far
    files      \* the session's directory

mem  == <<strategy, records, summary, context, total, current>>
vars == <<pc, mem, overdue, issued, files>>

Models == {ChatModel, SummaryModel}
Ids    == 1..MaxRecords
Record == [id : Ids, role : {"user", "assistant"}]
Usage  == [Models -> Nat]

NoUsage   == [m \in Models |-> 0]
NoSummary == [covers |-> {}, anchor |-> None]
NoContext == [summary |-> FALSE, records |-> <<>>]

\* Suspended in: nothing (two ways); the LLM call; the summarisation call; a DoneFrame
Pcs == {"absent", "idle", "llm", "summary", "done"}

SummaryType == [covers : SUBSET Ids, anchor : Ids \cup {None}]
ContextType == [summary : BOOLEAN, records : Seq(Record)]
InfoType    == [strategy : Strategies, summary : SummaryType, total : Usage]

FilesType == [dir      : BOOLEAN,
              info     : InfoType \cup {Missing, Torn},
              messages : Seq(Record) \cup {Missing, Torn}]

ASSUME DistinctAssumption ==
    /\ None \notin Nat \cup Seq(Record)
    /\ Missing \notin InfoType \cup Seq(Record)
    /\ Torn \notin InfoType \cup Seq(Record)

TypeOK ==
    /\ pc \in Pcs
    /\ strategy \in Strategies \cup {None}
    /\ records \in Seq(Record)
    /\ summary \in SummaryType
    /\ context \in ContextType
    /\ total \in Usage
    /\ current \in Usage
    /\ overdue \in Nat
    /\ issued \in 0..MaxRecords
    /\ files \in FilesType

-----------------------------------------------------------------------------
(* The message context strategies                                          *)

RecordIds(recs) == {recs[i].id : i \in DOMAIN recs}

\* Position of a record; 0 when it is not there
IndexOf(recs, id) ==
    IF \E i \in DOMAIN recs : recs[i].id = id THEN CHOOSE i \in DOMAIN recs : recs[i].id = id ELSE 0

AnchorIndex == IndexOf(records, summary.anchor)

AfterAnchor(recs) == SubSeq(recs, AnchorIndex + 1, Len(recs))

LastRecords(recs) ==
    SubSeq(recs, IF Len(recs) > WindowSize THEN Len(recs) - WindowSize + 1 ELSE 1, Len(recs))

\* get_context: a summary with an empty text adds no message
GetContext(recs) ==
    CASE strategy = "dummy"          -> [summary |-> FALSE, records |-> recs]
      [] strategy = "sliding_window" -> [summary |-> FALSE, records |-> LastRecords(recs)]
      [] strategy = "summary"        -> [summary |-> summary.covers # {},
                                         records |-> AfterAnchor(recs)]

\* Mutant of Summarises: one record late
SummarisesLate(recs) == strategy = "summary" /\ Len(AfterAnchor(recs)) > WindowSize

\* update_context calls the LLM
Summarises(recs) == strategy = "summary" /\ Len(AfterAnchor(recs)) >= WindowSize

-----------------------------------------------------------------------------
(* Saving and loading                                                      *)

\* Mutant of Written: the messages are written before the info
WrittenMessagesFirst(steps) ==
    [dir      |-> TRUE,
     info     |-> IF steps <= 2 THEN files.info ELSE IF steps = 3 THEN Torn
                  ELSE [strategy |-> strategy, summary |-> summary, total |-> total],
     messages |-> IF steps = 0 THEN files.messages ELSE IF steps = 1 THEN Torn ELSE records]

Content(steps, done, old, new) ==
    IF steps < done - 1 THEN old ELSE IF steps = done - 1 THEN Torn ELSE new

\* The directory after the first steps of _write_session_files: truncate and write
\* session_info, then session_messages
Written(steps) ==
    [dir      |-> TRUE,
     info     |-> Content(steps, 2, files.info,
                          [strategy |-> strategy, summary |-> summary, total |-> total]),
     messages |-> Content(steps, 4, files.messages, records)]

Loadable ==
    /\ files.info \notin {Missing, Torn}
    /\ files.messages \notin {Missing, Torn}

Forget ==
    /\ strategy' = None /\ records' = <<>> /\ summary' = NoSummary
    /\ context' = NoContext /\ total' = NoUsage /\ current' = NoUsage /\ overdue' = 0

-----------------------------------------------------------------------------
(* Actions                                                                 *)

Init ==
    /\ pc = "absent"
    /\ strategy = None /\ records = <<>> /\ summary = NoSummary
    /\ context = NoContext /\ total = NoUsage /\ current = NoUsage
    /\ overdue = 0 /\ issued = 0
    /\ files = [dir |-> FALSE, info |-> Missing, messages |-> Missing]

\* Session.create and create_session
Create(s) ==
    /\ pc = "absent"
    /\ ~files.dir
    /\ pc' = "idle"
    /\ strategy' = s
    /\ files' = [dir      |-> TRUE,
                 info     |-> [strategy |-> s, summary |-> NoSummary, total |-> NoUsage],
                 messages |-> <<>>]
    /\ UNCHANGED <<records, summary, context, total, current, overdue, issued>>

\* create_session stops after mkdir and some of the file operations
CreateFails(s) ==
    /\ pc = "absent"
    /\ ~files.dir
    /\ \E steps \in 0..3 :
        files' = [dir      |-> TRUE,
                  info     |-> Content(steps, 2, Missing, [strategy |-> s, summary |-> NoSummary,
                                                           total |-> NoUsage]),
                  messages |-> Content(steps, 4, Missing, <<>>)]
    /\ UNCHANGED <<pc, mem, overdue, issued>>

\* Mutant of NewRecord: the id of the record before it
NewRecordLate(role) == [id |-> issued, role |-> role]

NewRecord(role) == [id |-> issued + 1, role |-> role]

\* Mutant of Ask: begin_invocation is forgotten
AskKeepsUsage ==
    /\ pc = "idle"
    /\ issued < MaxRecords
    /\ records' = Append(records, NewRecord("user"))
    /\ issued' = issued + 1
    /\ context' = GetContext(records')
    /\ pc' = "llm"
    /\ UNCHANGED <<strategy, summary, total, current, overdue, files>>

\* acompletion up to the LLM call: begin_invocation, add_user_query, get_context
Ask ==
    /\ pc = "idle"
    /\ issued < MaxRecords
    /\ current' = NoUsage
    /\ records' = Append(records, NewRecord("user"))
    /\ issued' = issued + 1
    /\ context' = GetContext(records')
    /\ pc' = "llm"
    /\ UNCHANGED <<strategy, summary, total, overdue, files>>

\* set_message_context_strategy between turns, with a new strategy over the LLM of the
\* old one: the records move, the summary stays behind.  Nothing in the server calls it
SetStrategy(s) ==
    /\ pc = "idle"
    /\ strategy' = s
    /\ summary' = NoSummary
    /\ overdue' = Len(records)
    /\ UNCHANGED <<pc, records, context, total, current, issued, files>>

AddStats(model) ==
    /\ total' = [total EXCEPT ![model] = @ + 1]
    /\ current' = [current EXCEPT ![model] = @ + 1]

\* The LLM's answer is complete: add_model_response and the start of update_context
Answer ==
    /\ pc = "llm"
    /\ issued < MaxRecords
    /\ AddStats(ChatModel)
    /\ records' = Append(records, NewRecord("assistant"))
    /\ issued' = issued + 1
    /\ \/ Summarises(records') /\ pc' = "summary" /\ UNCHANGED overdue
       \/ ~Summarises(records') /\ pc' = "done" /\ overdue' = 0
    /\ UNCHANGED <<strategy, summary, context, files>>

\* Mutant of Summarise: the previous summary is not part of the input
SummariseAfresh ==
    /\ pc = "summary"
    /\ AddStats(SummaryModel)
    /\ summary' = [covers |-> RecordIds(AfterAnchor(records)), anchor |-> Last(records).id]
    /\ pc' = "done"
    /\ overdue' = 0
    /\ UNCHANGED <<strategy, records, context, issued, files>>

\* Mutant of Summarise: the records are replaced by their summary
SummariseTrims ==
    /\ pc = "summary"
    /\ AddStats(SummaryModel)
    /\ summary' = [covers |-> summary.covers \cup RecordIds(AfterAnchor(records)),
                   anchor |-> Last(records).id]
    /\ records' = <<Last(records)>>
    /\ pc' = "done"
    /\ overdue' = 0
    /\ UNCHANGED <<strategy, context, issued, files>>

\* The summarisation call answers: the text replaces the summary, the anchor moves
Summarise ==
    /\ pc = "summary"
    /\ AddStats(SummaryModel)
    /\ \E text \in {TRUE} \cup (IF EmptyAnswers THEN {FALSE} ELSE {}) :
        summary' = [covers |-> IF text THEN summary.covers \cup RecordIds(AfterAnchor(records))
                               ELSE {},
                    anchor |-> Last(records).id]
    /\ pc' = "done"
    /\ overdue' = 0
    /\ UNCHANGED <<strategy, records, context, issued, files>>

\* An LLM call raises, the turn is cancelled, or a frame cannot be sent.  The question
\* stays in the records, and the answer if there is one, without a summary
TurnFails ==
    /\ \/ pc = "llm" /\ overdue' = overdue + 1
       \/ pc = "summary" /\ overdue' = overdue + 2
       \/ pc = "done" /\ UNCHANGED overdue
    /\ pc' = "idle"
    /\ UNCHANGED <<mem, issued, files>>

Save ==
    /\ pc = "done"
    /\ files' = Written(4)
    /\ pc' = "idle"
    /\ UNCHANGED <<mem, overdue, issued>>

\* update_session raises an OSError in one of its file operations
SaveFails ==
    /\ pc = "done"
    /\ \E steps \in 0..3 : files' = Written(steps)
    /\ pc' = "idle"
    /\ UNCHANGED <<mem, overdue, issued>>

\* The process stops.  In the middle of a save: SaveFails followed by Stop
Stop ==
    /\ pc # "absent"
    /\ pc' = "absent"
    /\ Forget
    /\ UNCHANGED <<issued, files>>

\* The anchor is a record of recs, or there is none
Anchored(recs, anchor) == anchor \in RecordIds(recs) \cup {None}

\* GetSessionUseCase.execute.  The anchor of a save that stopped between its two files
\* may be a record that was not written: then all records wait for a summary
Load ==
    /\ pc = "absent"
    /\ Loadable
    /\ pc' = "idle"
    /\ strategy' = files.info.strategy
    /\ summary' = files.info.summary
    /\ total' = files.info.total
    /\ records' = files.messages
    /\ current' = NoUsage
    /\ overdue' = IF Anchored(records', summary'.anchor) THEN 0 ELSE Len(records')
    /\ UNCHANGED <<context, issued, files>>

Next ==
    \/ \E s \in Strategies : Create(s) \/ CreateFails(s) \/ SetStrategy(s)
    \/ Ask \/ Answer \/ Summarise \/ TurnFails \/ Save \/ SaveFails \/ Stop \/ Load

Spec == Init /\ [][Next]_vars
-----------------------------------------------------------------------------
(* Properties                                                              *)

\* With the dummy and summary strategies nothing that was said is kept from the
\* LLM: every record is in the messages of the call, or the summary that leads
\* them was made from it.  This covers the summaries of summaries and the anchor
\* of an interrupted save, whose record the messages file does not hold.
NothingForgotten ==
    pc = "llm" /\ strategy # "sliding_window" =>
        RecordIds(records) \subseteq
            RecordIds(context.records) \cup IF context.summary THEN summary.covers ELSE {}

\* What a turn sends is bounded, although the history is not, unless the strategy is
\* dummy: by the window if it slides; with the summary strategy by the window and the
\* records overdue.  These are one for each turn that failed before its answer and two
\* for each whose summarisation failed, since a turn last came to its DoneFrame, after
\* which fewer than a window wait again; and all there are if the session came to the
\* strategy with them, or was loaded with an anchor that was not written.
ContextBounded ==
    /\ pc = "llm" /\ strategy = "sliding_window" => Len(context.records) <= WindowSize
    /\ pc = "llm" /\ strategy = "summary" => Len(context.records) <= WindowSize + overdue
    /\ pc = "done" /\ strategy = "summary" => Len(AfterAnchor(records)) < WindowSize

Answers(recs) == Cardinality({i \in DOMAIN recs : recs[i].role = "assistant"})

\* Every answer the session holds was counted in its lifecycle statistics, also
\* after failed turns, interrupted saves and reloads: the files that a load takes
\* together never hold an answer whose usage is not in the statistics.
AnswersCounted ==
    /\ Answers(records) <= total[ChatModel]
    /\ Loadable => Answers(files.messages) <= files.info.total[ChatModel]

\* The statistics of the DoneFrames are those of this turn alone: one answer and,
\* if this turn moved the anchor to its answer, one summary.
DoneReportsTurn ==
    pc = "done" =>
        LET summaries == IF summary.anchor = Last(records).id THEN 1 ELSE 0
        IN  IF ChatModel = SummaryModel
            THEN current[ChatModel] = 1 + summaries
            ELSE current[ChatModel] = 1 /\ current[SummaryModel] = summaries

\* Where a turn is, and what it has done so far
Phases ==
    /\ pc = "absent" => records = <<>>
    /\ pc # "absent" => strategy \in Strategies /\ files.dir
    /\ pc = "llm" => records # <<>> /\ Last(records).role = "user" /\ current = NoUsage
    /\ pc \in {"summary", "done"} => records # <<>> /\ Last(records).role = "assistant"
    /\ pc = "summary" =>
        /\ summary.anchor # Last(records).id
        /\ current = [NoUsage EXCEPT ![ChatModel] = 1]

InOrder(recs, n) ==
    \A i \in DOMAIN recs : recs[i].id <= n /\ \A j \in 1..(i - 1) : recs[j].id < recs[i].id

\* Ids are made in order, and an anchor is the id of a record that was made
IdsInOrder ==
    /\ InOrder(records, issued)
    /\ files.messages \in Seq(Record) => InOrder(files.messages, issued)
    /\ summary.anchor # None => summary.anchor <= issued
    /\ files.info \in InfoType /\ files.info.summary.anchor # None =>
        files.info.summary.anchor <= issued

\* The messages file is behind the session, not beside it
MemoryExtendsDisk ==
    /\ ~files.dir => files.info = Missing /\ files.messages = Missing
    /\ pc # "absent" /\ files.messages \in Seq(Record) =>
        /\ Len(files.messages) <= Len(records)
        /\ \A i \in DOMAIN files.messages : files.messages[i] = records[i]

Covers(sum, recs) ==
    \A i \in DOMAIN recs : recs[i].id = sum.anchor => \A j \in 1..i : recs[j].id \in sum.covers

\* A summary covers all records up to its anchor, also in a directory whose two files
\* are of different saves
SummariesCover ==
    /\ Covers(summary, records)
    /\ files.info \in InfoType /\ files.messages \in Seq(Record) =>
        Covers(files.info.summary, files.messages)

\* Number of records after the anchor, all if it is not there
Waiting(recs, anchor) == Len(recs) - IndexOf(recs, anchor)

\* The records that wait for a summary are a window and those overdue, where a turn is;
\* on disk they are less than a window, or the anchor was not written
WaitingBounded ==
    /\ strategy = "summary" =>
        /\ pc = "idle" => Waiting(records, summary.anchor) < WindowSize + overdue
        /\ pc = "llm" => Waiting(records, summary.anchor) <= WindowSize + overdue
        /\ pc = "summary" => Waiting(records, summary.anchor) <= WindowSize + overdue + 1
    /\ Loadable /\ files.info.strategy = "summary" =>
        \/ ~Anchored(files.messages, files.info.summary.anchor)
        \/ Waiting(files.messages, files.info.summary.anchor) < WindowSize

\* The inductive invariant; SummariesCover and NothingForgotten join it when no
\* summarisation call answers with an empty text
IInv ==
    /\ TypeOK /\ Phases /\ IdsInOrder /\ MemoryExtendsDisk
    /\ ContextBounded /\ WaitingBounded /\ AnswersCounted /\ DoneReportsTurn

\* The conversation in memory and on disk behaves as SessionHistory allows: a
\* strategy never drops, reorders or rewrites records, a save that stops half-way
\* leaves the messages of the previous save or an unreadable directory, and a
\* reload continues from them.
History == INSTANCE SessionHistory WITH
    history  <- IF pc = "absent" THEN None ELSE records,
    saved    <- IF files.messages \in {Missing, Torn} THEN None ELSE files.messages,
    readable <- Loadable

ImplementsHistory == History!HistorySpec

\* "When anchor_id is set, get_context returns the summary followed by the records
\* after the anchor" (openspec/specs/message-context-strategy/spec.md:131).
SummaryLeadsContext ==
    pc = "llm" /\ strategy = "summary" /\ summary.anchor # None => context.summary
=============================================================================
