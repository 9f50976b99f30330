---------------------------- MODULE Completion ----------------------------
(***************************************************************************)
(* The LLM calls of one session: what LlmAdapter makes of the chunks of a  *)
(* provider, what LlmStatsDecorator and SessionUsageStats make of its      *)
(* CompletionDoneEvent, and what of that is on disk after a turn.          *)
(*                                                                         *)
(* A turn calls the LLM for the answer, streamed, and then perhaps for a   *)
(* summary, which is not streamed.  ChatSession abstracts each of these    *)
(* calls to one step and its usage to 1.                                   *)
(*                                                                         *)
(* said and ledger are not state of the program.  said is what the         *)
(* provider reported in the running call; ledger lists the calls that      *)
(* returned, with what was said in them, as the reference for the          *)
(* statistics.                                                             *)
(***************************************************************************)
EXTENDS Naturals, Sequences

CONSTANTS
    ChatModel,     \* the model of completion_config
    SummaryModel,  \* the model of the strategy's completion_config
    MaxTokens,     \* max_tokens of completion_config
    Pricings,      \* what the pricing file may say: a Rate or None per model
    None,          \* Python's None
    MaxTexts,      \* bound: texts per call
    MaxCalls       \* bound: calls that return

Models == {ChatModel, SummaryModel}
Rate   == [input : Nat, output : Nat]
Usage  == [prompt : Nat, completion : Nat]
Entry  == [usage : Usage, cost : Nat \cup {None}]
Stats  == [Models -> Entry \cup {None}]

\* Finish reasons of a provider; StopReason has no function_call
Finishes    == {"stop", "length", "tool_calls", "content_filter", "function_call"}
StopReasons == Finishes \ {"function_call"}

ASSUME NoneAssumption == None \notin Nat \cup Rate \cup Usage \cup Entry \cup Finishes

ASSUME BoundsAssumption ==
    MaxTokens \in Nat \ {0} /\ MaxTexts \in Nat /\ MaxCalls \in Nat

ASSUME PricingsAssumption == Pricings \subseteq [Models -> Rate \cup {None}]

VARIABLES
    turn,     \* idle, or which call of the turn was made last
    status,   \* of that call: where its generator is, or how it ended
    usage,    \* prompt_tokens and completion_tokens of LlmAdapter.acompletion
    stop,     \* its stop_reason
    events,   \* the events the session received from it
    total,    \* _lifecycle_total: an entry or None per model
    current,  \* _current_invocation
    saved,    \* the statistics in session_info, and how much of the ledger they cover
    pricing,  \* the pricing file as read when the process started
    said,     \* reference: usage and finish_reason the provider reported last
    ledger,   \* reference: the calls that returned
    mark      \* reference: length of the ledger at begin_invocation

stats == <<total, current, saved, ledger, mark>>
vars  == <<turn, status, usage, stop, events, total, current, saved, pricing, said, ledger, mark>>

NoUsage == [prompt |-> 0, completion |-> 0]
NoStats == [m \in Models |-> None]

\* Suspended in the request, between chunks, in the consumer of a text; ended
Statuses == {"none", "request", "chunks", "text", "returned", "raised"}

\* What a provider may report: the usage grows during a call, up to max_tokens
Reports == {u \in [prompt : {1}, completion : 0..MaxTokens] : u.completion >= said.usage.completion}

TypeOK ==
    /\ turn \in {"idle", "answer", "summary"}
    /\ status \in Statuses
    /\ usage \in Usage
    /\ stop \in (IF status = "returned" THEN StopReasons ELSE Finishes \cup {None})
    /\ events \in Seq({"text", "done"})
    /\ total \in Stats
    /\ current \in Stats
    /\ saved \in [stats : Stats, calls : Nat]
    /\ pricing \in [Models -> Rate \cup {None}]
    /\ said \in [usage : Usage, finish : Finishes \cup {None}]
    /\ ledger \in Seq([model : Models, usage : Usage, cost : Nat \cup {None}])
    /\ mark \in Nat

Model == IF turn = "summary" THEN SummaryModel ELSE ChatModel

\* No session has an output_config, with which it could not be saved
Streams == turn = "answer"

Running == status \in {"request", "chunks", "text"}
-----------------------------------------------------------------------------
(* Statistics                                                              *)

\* ModelBilling.estimate, if the factory had a price for the model
Estimate(rate, u) ==
    IF rate = None THEN None ELSE u.prompt * rate.input + u.completion * rate.output

Zero(cost) == IF cost = None THEN 0 ELSE cost

\* Mutant of PlusCost: unknown if one of the two is
PlusCostStrict(a, b) == IF a = None \/ b = None THEN None ELSE a + b

PlusCost(a, b) == IF a = None /\ b = None THEN None ELSE Zero(a) + Zero(b)

\* UsageStatsAccumulator.add_stats
Added(data, model, u, cost) ==
    [data EXCEPT ![model] =
        IF @ = None THEN [usage |-> u, cost |-> cost]
        ELSE [usage |-> [prompt     |-> @.usage.prompt + u.prompt,
                         completion |-> @.usage.completion + u.completion],
              cost  |-> PlusCost(@.cost, cost)]]

-----------------------------------------------------------------------------
(* Actions                                                                 *)

Init ==
    /\ turn = "idle" /\ status = "none" /\ usage = NoUsage /\ stop = None /\ events = <<>>
    /\ total = NoStats /\ current = NoStats
    /\ saved = [stats |-> NoStats, calls |-> 0]
    /\ pricing \in Pricings
    /\ said = [usage |-> NoUsage, finish |-> None]
    /\ ledger = <<>> /\ mark = 0

\* acompletion up to the request.  stop_reason starts as STOP
StartCall ==
    /\ Len(ledger) < MaxCalls
    /\ status' = "request" /\ usage' = NoUsage /\ stop' = "stop" /\ events' = <<>>
    /\ said' = [usage |-> NoUsage, finish |-> None]

\* begin_invocation, and the call for the answer
BeginTurn ==
    /\ turn = "idle"
    /\ turn' = "answer"
    /\ current' = NoStats
    /\ mark' = Len(ledger)
    /\ StartCall
    /\ UNCHANGED <<total, saved, pricing, ledger>>

\* update_context calls the LLM
Summarise ==
    /\ turn = "answer" /\ status = "returned"
    /\ turn' = "summary"
    /\ StartCall
    /\ UNCHANGED <<total, current, saved, pricing, ledger, mark>>

Heard(u, finish) ==
    said' = [usage  |-> IF u = None THEN said.usage ELSE u,
             finish |-> IF finish = None THEN said.finish ELSE finish]

\* Mutant of StopAfter: the provider's own reason is replaced as well
StopAfterAny(finish, u) ==
    IF finish = None THEN stop ELSE IF u.completion = MaxTokens THEN "length" ELSE finish

\* stop_reason after a chunk with this finish_reason, when u has been reported so far
StopAfter(finish, u) ==
    IF finish = None THEN stop
    ELSE IF finish = "stop" /\ u.completion = MaxTokens THEN "length" ELSE finish

StreamOpens ==
    /\ status = "request" /\ Streams
    /\ status' = "chunks"
    /\ UNCHANGED <<turn, usage, stop, events, pricing, said, stats>>

\* Mutant of Chunk: the finish_reason closes the call
ChunkFinishes ==
    /\ status = "chunks"
    /\ \E u \in Reports \cup {None}, finish \in Finishes \cup {None}, text \in BOOLEAN :
        /\ finish \in StopReasons \cup {None}
        /\ text => Len(events) < MaxTexts
        /\ Heard(u, finish)
        /\ usage' = said'.usage
        /\ stop' = StopAfter(finish, usage')
        /\ status' = IF text THEN "text" ELSE "chunks"
        /\ events' = events \o (IF finish = None THEN <<>> ELSE <<"done">>)
                            \o (IF text THEN <<"text">> ELSE <<>>)
    /\ UNCHANGED <<turn, pricing, stats>>

\* Mutant of Chunk: a chunk that has no choices is skipped with its usage
ChunkSkipsUsage ==
    /\ status = "chunks"
    /\ \E u \in Reports \cup {None}, choice \in BOOLEAN, finish \in Finishes \cup {None} :
        /\ finish \in StopReasons \cup {None}
        /\ ~choice => finish = None
        /\ Heard(u, finish)
        /\ usage' = IF choice /\ u # None THEN u ELSE usage
        /\ stop' = StopAfter(finish, usage')
    /\ UNCHANGED <<turn, status, events, pricing, stats>>

\* A chunk with or without usage, finish_reason and text.  StopReason(...) raises
\* for a finish_reason it does not list
Chunk ==
    /\ status = "chunks"
    /\ \E u \in Reports \cup {None}, finish \in Finishes \cup {None}, text \in BOOLEAN :
        /\ text => Len(events) < MaxTexts
        /\ Heard(u, finish)
        /\ usage' = IF u = None THEN usage ELSE u
        /\ stop' = StopAfter(finish, usage')
        /\ IF finish \notin StopReasons \cup {None} THEN status' = "raised" /\ UNCHANGED events
           ELSE IF text THEN status' = "text" /\ events' = Append(events, "text")
           ELSE UNCHANGED <<status, events>>
    /\ UNCHANGED <<turn, pricing, stats>>

\* The consumer of a streamed text has sent its ChunkFrame
NextChunk ==
    /\ status = "text" /\ Streams
    /\ status' = "chunks"
    /\ UNCHANGED <<turn, usage, stop, events, pricing, said, stats>>

\* A response that is not streamed: its text, if only an empty one
Response ==
    /\ status = "request" /\ ~Streams
    /\ \E u \in Reports, finish \in Finishes \cup {None} :
        Heard(u, finish) /\ usage' = u /\ stop' = finish
    /\ status' = "text"
    /\ events' = Append(events, "text")
    /\ UNCHANGED <<turn, pricing, stats>>

\* After the last chunk, or the text of a response
AtEnd == status = (IF Streams THEN "chunks" ELSE "text")

\* Mutant of Complete: the done event takes any stop_reason
CompleteUnchecked ==
    /\ AtEnd
    /\ status' = "returned"
    /\ stop' = IF stop = None THEN "stop" ELSE stop
    /\ events' = Append(events, "done")
    /\ UNCHANGED <<turn, usage, pricing, said, stats>>

\* CompletionDoneEvent: counted in both accumulators, taken by the caller, which
\* then exhausts the generator
Complete ==
    /\ AtEnd
    /\ stop \in StopReasons \cup {None}
    /\ status' = "returned"
    /\ stop' = IF stop = None THEN "stop" ELSE stop
    /\ events' = Append(events, "done")
    /\ LET cost == Estimate(pricing[Model], usage)
       IN  /\ total' = Added(total, Model, usage, cost)
           /\ current' = Added(current, Model, usage, cost)
    /\ ledger' = Append(ledger, [model |-> Model, usage |-> said.usage,
                                 cost  |-> Estimate(pricing[Model], said.usage)])
    /\ UNCHANGED <<turn, usage, saved, pricing, said, mark>>

\* StopReason(...) of the done event raises for a response's finish_reason
CompleteFails ==
    /\ AtEnd
    /\ stop \notin StopReasons \cup {None}
    /\ status' = "raised"
    /\ UNCHANGED <<turn, usage, stop, events, pricing, said, stats>>

\* The provider or its client raises, the turn is cancelled, a ChunkFrame cannot be
\* sent.  A response that is not streamed goes to the end without suspending
CallFails ==
    /\ Running
    /\ status = "text" => Streams
    /\ status' = "raised"
    /\ UNCHANGED <<turn, usage, stop, events, pricing, said, stats>>

TurnFails ==
    /\ turn # "idle" /\ status = "raised"
    /\ turn' = "idle"
    /\ UNCHANGED <<status, usage, stop, events, pricing, said, stats>>

\* The turn is complete: its save writes lifecycle_total_data, or fails before that
EndTurn ==
    /\ turn # "idle" /\ status = "returned"
    /\ turn' = "idle"
    /\ saved' \in {saved, [stats |-> total, calls |-> Len(ledger)]}
    /\ UNCHANGED <<status, usage, stop, events, total, current, pricing, said, ledger, mark>>

\* Mutant of Restart: the loaded statistics are the current ones too
RestartShares ==
    /\ turn' = "idle" /\ status' = "none" /\ usage' = NoUsage /\ stop' = None /\ events' = <<>>
    /\ total' = saved.stats /\ current' = saved.stats
    /\ pricing' \in Pricings
    /\ said' = [usage |-> NoUsage, finish |-> None]
    /\ ledger' = SubSeq(ledger, 1, saved.calls) /\ mark' = saved.calls
    /\ UNCHANGED saved

\* The server starts again, perhaps with other prices, and loads the session
Restart ==
    /\ turn' = "idle" /\ status' = "none" /\ usage' = NoUsage /\ stop' = None /\ events' = <<>>
    /\ total' = saved.stats /\ current' = NoStats
    /\ pricing' \in Pricings
    /\ said' = [usage |-> NoUsage, finish |-> None]
    /\ ledger' = SubSeq(ledger, 1, saved.calls) /\ mark' = saved.calls
    /\ UNCHANGED saved

Next ==
    \/ BeginTurn \/ Summarise \/ StreamOpens \/ Chunk \/ NextChunk \/ Response
    \/ Complete \/ CompleteFails \/ CallFails \/ TurnFails \/ EndTurn \/ Restart

Spec == Init /\ [][Next]_vars
-----------------------------------------------------------------------------
(* Properties                                                              *)

\* Every call, of the answer and of the summary, streamed or not, keeps the event
\* order that llm_port.py calls normative.
Port == INSTANCE LlmPort WITH
    call <- IF Running THEN "running" ELSE status

ImplementsPort == Port!PortSpec

\* Sums over no call, and over one more: how many there were, what they used, how many
\* had a price, and what those cost
NoSums == [calls |-> 0, prompt |-> 0, completion |-> 0, priced |-> 0, cost |-> 0]

WithCall(s, c) ==
    [calls      |-> s.calls + 1,
     prompt     |-> s.prompt + c.usage.prompt,
     completion |-> s.completion + c.usage.completion,
     priced     |-> s.priced + (IF c.cost = None THEN 0 ELSE 1),
     cost       |-> s.cost + (IF c.cost = None THEN 0 ELSE c.cost)]

\* The sums over the calls of model m
Sums(calls, m) ==
    LET upTo[n \in 0..Len(calls)] ==
            IF n = 0 THEN NoSums
            ELSE IF calls[n].model = m THEN WithCall(upTo[n - 1], calls[n])
            ELSE upTo[n - 1]
    IN  upTo[Len(calls)]

\* What the statistics of a model should be, from the calls themselves
EntryOf(calls, m) ==
    LET s == Sums(calls, m)
    IN  IF s.calls = 0 THEN None
        ELSE [usage |-> [prompt |-> s.prompt, completion |-> s.completion],
              cost  |-> IF s.priced = 0 THEN None ELSE s.cost]

\* The statistics of a session are the sums over the calls that returned, with the
\* usage each reported last and the price of its time: no chunk order loses or
\* doubles a usage, and neither do failed turns, failed saves, restarts and prices
\* that come and go.
TotalIsSum == \A m \in Models : total[m] = EntryOf(ledger, m)

\* Those of the DoneFrames are the sums over the calls of this turn alone.
CurrentIsSum ==
    \A m \in Models : current[m] = EntryOf(SubSeq(ledger, mark + 1, Len(ledger)), m)

\* A call is reported as cut off only if it was, or the provider said so, and any
\* other reason is the provider's own: the correction of line 75 never hides one.
StopReasonJustified ==
    status = "returned" =>
        \/ stop = said.finish
        \/ stop = "stop" /\ said.finish = None
        \/ stop = "length" /\ said.finish = "stop" /\ said.usage.completion = MaxTokens

Within(a, b) ==
    a = None \/ /\ b # None
                /\ a.usage.prompt <= b.usage.prompt
                /\ a.usage.completion <= b.usage.completion
                /\ Zero(a.cost) <= Zero(b.cost)

\* What a turn reports, and what the disk holds, is never more than what the
\* session has used in its life.
StatisticsNested ==
    \A m \in Models : Within(current[m], total[m]) /\ Within(saved.stats[m], total[m])

\* What the adapter's locals mean until the call has ended
LocalsTrack ==
    /\ Running => turn # "idle"
    /\ status = "request" => said.finish = None
    /\ Running \/ status = "returned" =>
        /\ usage = said.usage /\ usage.completion <= MaxTokens
        /\ \/ stop = said.finish
           \/ stop = "stop" /\ said.finish = None
           \/ stop = "length" /\ said.finish = "stop" /\ said.usage.completion = MaxTokens

\* The inductive invariants: of the types and the locals, and of the sums, for which the
\* saved statistics have to be the sums over the calls they cover
IInv == TypeOK /\ StatisticsNested /\ LocalsTrack /\ saved.calls <= Len(ledger)

\* What the disk holds is the sum over the calls it covers.
SavedIsSum ==
    \A m \in Models : saved.stats[m] = EntryOf(SubSeq(ledger, 1, saved.calls), m)

\* What CompletionProofs shows to be inductive on top of IInv
SumInv == IInv /\ TotalIsSum /\ CurrentIsSum /\ SavedIsSum /\ mark <= Len(ledger)

\* "We exceeded the requested max_tokens" (web/ws_handler.py:32), of a streamed
\* answer that used all of them although the provider said stop.
LimitIsReported ==
    /\ status = "returned" /\ Streams
    /\ said.finish = "stop" /\ said.usage.completion = MaxTokens
    => stop = "length"
=============================================================================
