# AiAdvent chat server: TLA+ models and proofs

AiAdvent is a chat application: a FastAPI/uvicorn server that keeps
conversations with an LLM in directories on disk and streams answers over
WebSockets, and a terminal client. This directory models what the server does
to its sessions: who may touch a session when, what a turn leaves behind when
it fails anywhere, and what a restart finds on disk; what it makes of the chunks of a
provider and of their usage; and what the client shows and sends while its
connections come and go.

Paths below are relative to the repository; `web/` is
`server/adapter/inbound/web/`, `model/` is `server/application/domain/model/`.

## 1. Inventory

| Component | State | Operations | Interacts with |
|---|---|---|---|
| Registry and HTTP routes (`web/session_routes.py`, `app_factory.py`) | `app.state.sessions`: id -> `SessionConnections` (session, ws, stream_task) | POST, DELETE, GET session / info / messages / list | storage (synchronous), the sockets of WebSocket handlers (DELETE closes them) |
| WebSocket handlers (`web/ws_handler.py`) | one `handle_ws` coroutine per connection; `sc.ws`, `sc.stream_task` | connect (4404, 4409, 4500), send, cancel, ping, disconnect and cleanup | registry, stream tasks |
| Stream tasks (`_stream_response`, `service/send_message.py`) | one asyncio task per turn | chunk, done and error frames, the save | Session, socket, storage |
| Session and context strategies (`model/session.py`, `model/context_strategy/`) | `_records`, `_summary` (text, anchor) | `acompletion`: add the question, build the context, add the answer, summarise | LLM port, statistics |
| Usage statistics and billing (`model/usage_stats.py`, `llm_stats_decorator.py`, `model_billing.py`) | lifecycle and per-invocation totals | `begin_invocation`, `add_stats`, `estimate` | LLM events |
| Session storage (`adapter/outbound/persistence/session_file_adapter.py`, `common/config_loader.py`) | per session: prompt files, `session_info`, `session_messages`; the configs of the server as defaults | create, update, load, remove, list | file system |
| LLM adapter (`adapter/outbound/llm/`) | none per call; cache of clients | provider chunks -> text and done events | any-llm |
| Client (`client.py`) | `_ws`, `_streaming`, `active_session_id`, bubbles; a worker; a message queue | select, create, delete, send; frames to messages | server |
| Configuration, start (`common/config_loader.py`, `server.py`) | none after start | read files | |

What makes the server hard:

* one event loop, but every handler suspends at `receive_text`, `send_text`,
  `ws.close`, the LLM calls and `await sc.stream_task`; between two
  suspensions any other handler may have run;
* the Session object is shared by the registry, a handler and a stream, and the
  registry may meanwhile hold another object for the same directory;
* LLM calls, sends and file operations fail; tasks are cancelled; the process
  is restarted (`restart: unless-stopped` in docker-compose.yml).

What makes each component correct:

* registry, handlers and streams: one connection per loaded session; one stream
  per session, which never outlives its connection; only the registered object
  saves; memory is never behind the disk; saved records are never lost; a closed
  connection frees its session; DELETE returns and deletes;
* session: every record reaches the LLM verbatim or in the summary; contexts
  stay bounded under the strategies made for it; answers and their usage stay together;
* storage: a save or a crash leaves the new, the previous or an unreadable state,
  never a mixture that loads as a different conversation, and a session keeps the
  prompts it was created with whatever the server's files say later;
* client: frames end up in the conversation they belong to, the input is
  enabled when and only when a message can be sent;
* LLM adapter: zero or more texts, then exactly one done event, with the
  usage and the reason the provider reported;
* statistics: the sums over the calls that returned, for the session and for the turn.

The hazards behind these properties are listed, each at its line, in
PROJECT.json.

## 2. Modules

| Module | Contents |
|---|---|
| `ChatServer` | registry, routes, handlers, streams, restarts; properties, the inductive invariant, fairness |
| `ChatServerProofs` | theorems about `ChatServer`: connections, streams and the registry |
| `ChatServerHistoryProofs` | theorems about `ChatServer`: what sessions remember and save |
| `MCChatServer` | symmetry; configurations `MCChatServer`, `MCChatServerLive`, `MCChatServerDelete` |
| `SessionHistory` | abstract: what a session promises about its conversation |
| `ChatSession` | the turn, the strategies, the statistics, the files; implements `SessionHistory` |
| `ChatSessionProofs` | theorems about `ChatSession`, its refinement among them |
| `MCChatSession` | configurations `MCChatSession`, `MCChatSessionEmpty` |
| `LlmPort` | abstract: what a call of `acompletion` promises |
| `Completion` | the adapter chunk by chunk, the statistics decorator, the accumulators and their save; implements `LlmPort` |
| `CompletionProofs` | theorems about `Completion`, its refinement among them |
| `MCCompletion` | prices; configurations `MCCompletion`, `MCCompletionLimit` |
| `SessionFiles` | the completion configs of a session and the file operations on its directory |
| `SessionFilesProofs` | theorems about `SessionFiles` |
| `MCSessionFiles` | the defaults of four server configurations; configuration `MCSessionFiles` |
| `ChatClient` | the App, its message queue, the `_connect_ws` workers, the server as one connection sees it |
| `ChatClientProofs` | theorems about `ChatClient`: types, where messages go, whose answers are shown |
| `ChatClientTurnProofs` | theorems about `ChatClient`: the input, and the bubble an answer is written to |
| `MCChatClient` | symmetry, a bound; configurations `MCChatClient`, `MCChatClientTurns`, `MCChatClientLate`, `MCChatClientSilent` |

### ChatServer

An action is what a handler does between two suspension points.

| Variable | Code |
|---|---|
| `sessions` | `app.state.sessions` |
| `sc` | the `SessionConnections` objects: session id, `ws`, `stream_task`, and the records of their Session |
| `disk` | the directory of a session: its records, `NoDir`, or `Unreadable` |
| `conn` | `handle_ws` of a connection: where it is suspended, its entry, whether its socket is open |
| `stream` | the `_stream_response` task of a turn: where it is suspended, entry and socket it was given, DoneFrames left, `cancel()` pending |
| `delete` | `delete_session` of a request, suspended in `ws.close` |

Routes: `CreateSession`, `CreateSessionFails`, `GetSession` (also /info and
/messages), `DeleteBegin`, `DeleteFinish`. Handlers: `ConnectRefused`,
`ConnectRegistered`, `ConnectLoaded`, `ReceiveSend`, `ReceiveReplied`,
`ReplySent`, `ReceiveCancel`, `LeaveLoop`, `CleanupDone`, and the external
`ClientDisconnects`. Streams: `StreamStart` ... `DoneSentLast` (which saves),
`LlmFails`, `ErrorSent`, `SendFails`, `StreamCancelled`. `Restart` drops
everything but `disk`.

Read from the code or assumed of its libraries:

* `ws.accept` does not suspend in the pinned uvicorn, so the 4409 check and the
  assignment of `sc.ws` are one step;
* frames on one socket leave in order: `ws.close` returns after the sends that
  were started before it (`SendInFlight`). A send that starts on a closed socket
  raises; one in flight when the socket closes returns or raises;
* frames received before the socket closed are still delivered to the handler;
* a cancelled task raises at its next step, wherever it is suspended; a task
  cancelled before its first step never runs;
* a load, a create and a save are one step each; with `Faults` they may fail
  half-way. `ChatSession` shows at the level of file operations which
  directories that leaves;
* a record is its role and its turn, which is as unique as its uuid. Whether
  a turn summarises, and whether it reports one model or two, is a free choice.

The identifier sets are pools of things that happen once (`Streams`,
`Deletes`, `Connections`) or are built once per server lifetime (`Entries`):
their sizes are the bounds of a run. `CHECK_DEADLOCK FALSE`, because a used up
pool stops the model and an idle server has nothing to do.

### ChatSession and SessionHistory

One session and its directory. `pc` says where a turn is suspended (LLM call,
summarisation call, DoneFrame). `records`, `summary`, `total`, `current` are
`_records`, `_summary`, `_lifecycle_total`, `_current_invocation`; `context` is
the local variable of `acompletion`; `issued` numbers the records in place of
uuids. A summary text is the set of records it was made from, a statistic is
the number of LLM calls counted for a model. Chunks only pass through and have
no action. `Written(steps)` is the directory after the first `steps` of four file
operations: truncate and write `session_info`, then `session_messages` (the prompt
files that come before them are in `SessionFiles`). `SaveFails` takes any number of
them; a crash in the middle of a save is `SaveFails` followed by `Stop`.
`SetStrategy` is `Session.set_message_context_strategy`, which the tests call and the
server does not: the records move to the new strategy, the summary stays behind.

`overdue` is not program state: it counts the records of failed turns that wait for a
summary, one for each turn that failed before its answer and two for each whose
summarisation failed, until a turn comes to its DoneFrame. After `SetStrategy`, or a
load whose anchor the messages file does not hold, it is all the records. With it
`ContextBounded` says how large the context of a call is after any number of failures:
at most the window if it slides, at most the window and the records overdue with the
summary strategy, which is below the window again after every complete turn. The bound is
tight, and that of `dummy` is the history.

`SessionHistory` says what survives of all this: the history grows by questions
and answers, a save makes it durable or fails, a load continues from the
messages file. `ChatSession` implements it under the mapping `History` (the
messages file is `saved`; the directory is `readable` when both files parse).
The outcomes of a failed save that `ChatServer` allows (`Written`) are those
found here: the new records, the old files, unreadable ones, and, when a failed
save repairs `session_info` only, the messages of an earlier save.

### Completion and LlmPort

The LLM calls of one session, in the turns that make them: one for the answer, which
streams, and perhaps one for a summary, which does not. `status` says where the
generator of the call is suspended (the request, between chunks, in the consumer of a
text) or how it ended; `usage` and `stop` are the locals of `LlmAdapter.acompletion`;
`total`, `current` and `saved` are the two accumulators and the `usage` of
`session_info`. A chunk has a text or none, a usage or none, a finish reason or none;
a provider may report usage in a chunk of its own after the finish reason
(`StreamOpens`, `Chunk`, `NextChunk`, `Complete`); a response comes whole
(`Response`). A call that raises and one that is cancelled are `CallFails`; a
finish reason `StopReason` does not list is `CompleteFails`. `Restart` reads the
statistics back and another pricing file.

`said` and `ledger` are not program state: what the provider reported in this call,
and the calls that returned. The statistics are compared with them. Floats are natural
numbers, so rounding is not modelled, and a cost is the sum of its parts. The provider
mismatch check of the adapter cannot fail: the factory builds the adapter from the
config it is called with.

`LlmPort` is the order of events that `llm_port.py` calls normative.

### SessionFiles

The completion configs of one session id, over all the sessions that have that id.
Handlers do not suspend in the storage, so one operation runs at a time (`op`), and
each call of the operating system is a step: `Open` truncates a file, `Write` fills it,
and a save goes through the prompt of the chat config, that of the strategy, then
`session_info` and `session_messages`. With `Faults` an operation stops anywhere
(`OSError`), the process is restarted with other defaults, and `rmtree` removes files
in any order and may stop.

| Variable | Code |
|---|---|
| `defaults` | the default configs of `CreateSessionUseCase`, with the path of their prompt file |
| `session` | `completion_config` of the session and of its strategy |
| `dir`, `files` | the directory |
| `op` | the save or removal that runs, with the configs it writes |
| `made`, `damage` | reference: the prompts at creation; whether a file was left open or a removal ran since |

What a prompt says is a model value, `Empty`, or `Cut` for what is left of a text
whose write stopped. Prompt files are named by the path they were read from or by a
hash of the text; the hash is assumed to be injective on the prompts of one session.
What `session_messages` holds is one content, as its history is `ChatSession`'s
business. Sessions share no file, so one id is enough. A config with an
`output_config` cannot be dumped: the creation raises after `mkdir`. A missing
prompt file raises `SystemExit`, which a handler turns into an internal error: the
session cannot be read.

### ChatClient

The App handles one message of its queue at a time; a handler that awaits an HTTP
request or the mounting of a widget blocks the queue but not the workers, which
write `_ws` and post messages meanwhile.

| Variable | Code |
|---|---|
| `app` | `active_session_id`, `_ws`, `_streaming`, `_current_assistant_text`; `pc` is the await the current handler is in |
| `ui` | the Input (enabled, has text) and the history: whose it is (`shown`) and its assistant bubbles |
| `item` | the session list |
| `queue` | messages of the workers and key presses and clicks, in order |
| `worker` | each run of `_connect_ws`: connecting, open, closed by the peer, cancelled, ended |
| `server`, `answered` | what `_ws_loop` and `_stream_response` do on that connection; the history a GET returns |

`Selecting` and `Selected` are `_select_session` before and after its GET,
`SubmitAccepted` and `FrameSent` are `_send_message` before and after its mounts.
A bubble's text is the set of turns whose chunks it shows. Read from the code or
assumed of its libraries:

* a press is checked against the widget when it is made and handled later; the
  time it takes to bubble up to the App is left out;
* `exclusive=True` cancels the earlier workers before the new one starts; a
  cancelled worker goes through the closing handshake of `async with` and then
  through its `finally` block, while the next worker connects. A send on
  its connection raises, as on a closed one;
* the server accepts every socket, that of a deleted session or of one with a
  connection too, and closes it afterwards (4404, 4409, 4500); a connection may also fail
  before it is made;
* an exception in a handler ends the App (`crashed`);
* frames under way from the server are the frames it has not emitted yet.

## 3. Runs

| Run | Question | Bounds and why they are enough |
|---|---|---|
| `chat_server` | All safety properties of the server | one session (sessions share nothing but the registry, keyed by id), 3 entries (the registered object and two stale ones), 2 connections, 2 turns, 2 DELETEs (delete, create again, delete), faults of create and save, any number of restarts. About 390 000 states modulo symmetry. |
| `chat_server_live` | Closed handlers leave, DELETE returns | one turn, one DELETE, two connections, failing removals; no symmetry |
| `delete_reload` | Is a deleted session gone? (no) | the smallest instance, no faults |
| `chat_session` | Turns, strategies, statistics, saves; refinement of `SessionHistory` | window 3 (a turn adds 2 records, so windows end inside turns), 8 records: two summaries, the second of a summary, with failed turns, torn saves and reloads between them; different models for answers and summaries, so a turn reports two. About 158 000 states. |
| `empty_summary` | Does a summary always lead the context? (no) | window 2, 4 records, one model for both calls as in `configs/` |
| `completion` | Events, stop reasons and statistics of the LLM calls; refinement of `LlmPort` | two models; three calls that return, so a turn with a summary and one without, over restarts; two texts per call, so a usage before, between and after them; `max_tokens` 2, so a usage below, at and growing to the limit; a model whose price disappears and returns. About 144 000 states. |
| `late_usage` | Is an answer cut off at `max_tokens` reported as such? (no) | one call |
| `session_files` | Does a session keep its prompts, through any save, removal and restart? | four configurations: prompts of one file name in two directories; one prompt inline in both configs; none and an empty one; an `output_config`. Saves, removals and restarts without bound. About 19 000 states. |
| `chat_client` | Does a message go to the session on the screen? | two sessions, two connections, one message, one press waiting in the queue; every request and connection may fail, closing handshakes take any time. A wrong delivery takes two connections and one message. About 2 500 000 states modulo symmetry. |
| `chat_client_turns` | Does the input fit the connection the App knows, are answers shown in place and in their own session? | two sessions, with or without an answer in their history when the client starts; two connections and two messages, or, as long as none was sent, three connections (leave, come back: `ThirdBeforeMessages`); closing handshakes take any time; connections fail or close; one DoneFrame per turn. Without a history a chunk of another session would find no bubble to be written to. About 2 800 000 states. |
| `late_close` | Does the App know the open connection of the session on the screen? (no) | two sessions, two connections, two messages; nothing fails |
| `silent_turn` | Does the client wait for a turn exactly as long as frames of it are to come? (no) | one connection, one message, turns that fail in any way or report two models |

Fairness (`chat_server_live`): weak fairness of the steps the event loop owes:
a handler whose socket is closed gets its exception, an awaited task that has
finished wakes its awaiter, a cancelled task takes its last step, a send on a
closed socket returns or raises, and `ws.close` returns. Nothing is assumed of
the LLM provider, of clients, or of open sockets: an answer may never come.

What the passing runs do not cover: with failing removals (`"delete"` in
`Faults`) a session can be loaded between the two halves of a DELETE, fail to be
removed, and keep running next to a stale object, so the safety run leaves that
fault out; the liveness run includes it.

No GET fails in `chat_client_turns`: a selection whose GET fails
makes a session active whose history is not on the screen (`client.py:264` and `:273`),
the input tells of one and the screen shows the other, and late chunks of the new one
would be written to the bubbles of the old one. While the GET of a selection is under
way, active and shown session differ as well; the properties of the input and of the
history speak of the other states (`OnScreen`). `InputTellsConnection` speaks of the
connection the App knows; that it knows an open one is `OpenIsKnown`, which is false
(`late_close`). `ChunksInTheirBubble` says nothing of sessions that were left and
selected again: the App's messages name the session and not the connection, so a late
chunk of the earlier connection overwrites the last answer of the freshly loaded history.
`OnlyOwnAnswers` does cover those sessions: whatever is late, no bubble ever shows the
answer of another session.

That a save fails without a word to the user is allowed by `ChatServer` and
`ChatSession`; which of their properties survive it is what they say, not that it is
reported.

### Disagreements found

* `delete_reload`: `DELETE` unregisters, waits for `ws.close`, removes the
  directory. A GET or a WebSocket during the wait loads the session and
  registers it again; it then lives on in memory without a directory (GET 200,
  POST 409, saves fail).
* `empty_summary`: a summarisation call that answers with an empty text
  replaces the summary and moves the anchor; `get_context` then omits the
  summary message, and every record up to the anchor is lost to the LLM. The
  specification describes the summary message as always present.
* `late_usage`: the adapter corrects STOP to LENGTH by the usage reported so far,
  in the chunk that carries the finish reason. Providers that send the usage last
  have reported none by then, so a cut-off answer is reported as complete.
* `late_close`: a worker cancelled by a new selection ends after the closing handshake of
  its socket, and its `finally` block sets `_ws` to None whosever it is (`client.py:317`).
  When the next worker has connected by then, the session on the screen has an open
  connection and an enabled input, and every message is answered "Not connected to
  session.", until a session is selected again. The property speaks of a user who has
  sent a message on another session before (`MovedOn`), so that connection has been open
  and has a handshake to do.
  The same property covers the second place where `_ws` is read: `_send_message` checks
  it, suspends while the bubbles are mounted and reads it again. When that `finally` block
  runs in between, `None.send` raises in the handler and ends the App.
* `silent_turn`: `_stream_response` reports any-llm's errors only. A turn that
  fails otherwise sends no frame, and the client's input stays disabled. The property,
  `TurnEndsWithDone`, is also false without such a failure: a turn that summarised with
  another model sends a DoneFrame for each, and the client takes the first for the end: a
  message sent at once may be refused, and the second DoneFrame ends the `_streaming` of
  the next turn. (TLC shows the shorter trace; with `Faults = {}` it shows this one, and
  with one DoneFrame per turn and no silent failure the property holds.)

### Observed while modelling

No run stands for these; the models contain them.

* Every save truncates and rewrites the prompt files. If it stops there, the
  session still loads, with an empty or a shortened prompt, and never recovers it
  (`PromptsAreOwn` allows exactly this, and only after such a stop).
* A server configured with an `output_config` answers POST with an internal error
  after it has made the directory, which is then listed, cannot be read, and blocks
  its id until it is deleted.
* A `summarization_prompt` that `%` cannot format makes every summarisation fail,
  after the answer was streamed and before the save: turns continue in memory and
  are never saved (`TurnFails` in `"summary"`).
* A selection whose GET fails leaves the history and the worker of the session before it
  in place, while `active_session_id` already names the new one (`SelectFails`
  in `ChatClient`): only another selection brings the two together again.
* A failed turn leaves its question in the records, so two questions may follow each
  other in a context.

## 4. Theorems

A theorem holds for every value of the constants, under the named assumptions of the
module it is about: how `None`, file contents and identifiers differ from each other,
and which values the parameters may have.

`ChatServerProofs`, under the three named assumptions of `ChatServer` (`None` is
none of the identifiers; the two special disk values are distinct and not histories;
`Faults` are known names):

* `Invariance`: `Spec => []IInv`, and from it
* `TypeCorrect`, `ExclusiveConnectionHolds`, `StreamOwnedHolds`,
  `OnlyRegisteredSavesHolds`.

`IInv` is `TypeOK`, `ExclusiveConnection`, `StreamOwned` and three
strengthenings. `References`: what handlers, streams and DELETEs point at
exists, which the steps need before they can update it. `OpenIsRegistered`: a
handler with an open socket serves the registered entry; without it a new
stream could start on an unregistered object and `OnlyRegisteredSaves` would not
be inductive. `SaverIsAwaited`: a stream that can still save works on the
registered entry, or the DELETE that unregistered it waits on the very socket it
sends on; `OnlyRegisteredSaves` alone forgets which DELETE that is, and
`DeleteFinish` would break it. The proof has one lemma per kind of step:
`TypeStep` for types, `StreamStepInv` for all steps of a stream, which
cannot make anything point elsewhere, and one lemma for each action that moves
a pointer (`ConnectRegisteredInv`, `ReceiveSendInv`, `DetachInv`,
`DeleteBeginInv`, `DeleteFinishInv`, `RestartInv`, ...).

`ChatServerHistoryProofs` builds on that invariant. `TurnsNotInterleavedHolds`, under all
faults, needs `QuestionPending`: while a turn waits for the LLM, its own question is the
last record of its entry, so the answer lands behind it. That nobody appends in between
is what `StreamOwned` and `ExclusiveConnection` are for (`StreamsInOrder`). Directories
only ever hold prefixes of histories (`PrefixInOrder`, `WrittenKinds`). For
`MemoryCoversDiskHolds`, the invariant itself is inductive on top of `IInv`: a save is of
the registered entry, or of one whose session a DELETE is about to remove
(`StreamsCovered`), and a failed save leaves a prefix of what is in memory.
`SavedRecordsKeptHolds` follows: the next save writes an extension. Both assume
`"delete" \notin Faults`, as the run does; with a directory that cannot be removed, a
stale object may save next to the registered one, and they are false.

`ChatSessionProofs` proves `TypeCorrect`, `ContextBoundedHolds`,
`AnswersCountedHolds`, `DoneReportsTurnHolds`, `NothingForgottenHolds` and
`ImplementsHistoryHolds`. Its `IInv` adds four facts to the properties. `Phases` says
what a suspended turn has done: a question at the end of the records while the LLM is
called, an answer while it is summarised and reported, and exactly one call counted.
`IdsInOrder`: ids grow along the records, and an anchor is an id that was issued;
hence a new record is never the anchor, and an anchor has one position. Without it
`DoneReportsTurn` could not tell a summary of this turn from an older one.
`MemoryExtendsDisk`: the messages file is a prefix of the records in memory; with it,
a save that stops between its two files leaves statistics that are at least those of
the answers beside them (`WrittenFacts`, `WriteStep`). `WaitingBounded`: how many records wait for a
summary in memory, where a turn is, and on disk; a context is what waits, and
`ContextBounded` alone says nothing of the turns before. It needs the position of an
anchor to stay where it is when records are appended or fewer of them are read back
(`WaitingAppend`, `WaitingPrefix`). `NothingForgottenHolds` assumes
`EmptyAnswers = FALSE`, the case the run `empty_summary` shows to be necessary, and
strengthens the invariant by `SummariesCover`: a summary covers every record up to its
anchor, if the records hold the anchor at all. It carries over to a directory with a
new `session_info` and old messages, whose anchor may not be there
(`CoversPrefix`). The refinement maps each action to one of `SessionHistory` or to no
step (`NextHistory`). The lemmas about sequences at the start of the module (positions,
suffixes, prefixes and counts under `Append`) are not specific to the session.

`CompletionProofs` proves `TypeCorrect`, `StatisticsNestedHolds`,
`StopReasonJustifiedHolds`, `ImplementsPortHolds`, `TotalIsSumHolds` and
`CurrentIsSumHolds`. `LocalsTrack` says that the locals of the adapter are what the
provider reported last, which is what makes a `LENGTH` justified; that an entry only
grows (`Within`) is a lemma about `Added`. The accumulators are compared with `Sums`, a
recursive function of the calls that returned. `SumInv` adds to the two properties that
the saved statistics are the sums over the calls they cover (`SavedIsSum`), which is
what a restart needs. That `Sums` of one call more is one step more (`SumsAppended`)
takes induction over the length of a sequence. The library's induction theorems cannot
be used here, so `LeastNumber` does it: a nonempty set of numbers has a least one, hence
a counterexample would have a smallest one, whose predecessor is none.

`SessionFilesProofs` proves `TypeCorrect`, `PromptsAreOwnHolds`,
`ReferencesResolveHolds` and `RestartKeepsPromptsHolds`, from an
invariant that says what each file may hold: a prompt file its own prompt or what an
open left of it (`PromptFiles`), `session_info` configs of this session
(`InfoFile`); and that what a running save has passed is there (`Ordered`). Two prompts
of one session do not share a file because copies carry no path and the hash is
injective.

`ChatClientProofs` and `ChatClientTurnProofs` prove four invariants, the others on top of
the first:

* `IInv` (`Invariance`, `TypeCorrect`): types; what a handler that resumes reads is there
  (`Shape`); and `LiveWorkerShown`: a worker that is not cancelled serves the session on
  the screen, if any is, because a selection that shows another cancels it. A send on the
  connection of a cancelled worker raises; hence `SentToShownHolds`, for all faults and
  any closing handshake.
* `OwnInv` (`OnlyOwnAnswersHolds`): a message keeps the session it was sent on (`home`)
  in the server, in the queue, in the histories a GET returns, and in
  `_current_assistant_text`. Assumes `"get" \notin Faults`.
* `InputInv` (`InputTellsConnectionHolds`): what the input does not say yet is said by a
  message in the queue or a frame to come (`InputFollows`): until the input is enabled
  for the open connection the App knows, a `connected`, `done` or `error` is in the queue
  or still owed; once no worker is left that is not cancelled, a `disconnected` is behind
  all of these. `OneAtATime` says which workers there may be: any number that are cancelled
  and still closing, at most one other; and when `_ws` is an open connection, its
  `connected` is behind every `disconnected` of its session, so a late one does not have
  the last word. Closing handshakes take any time. Assumes `"get" \notin Faults`, and
  `"silent" \notin Faults`, as a turn that ends without a frame leaves the input disabled
  (run `silent_turn`).
* `BubbleInv` (`ChunksInTheirBubbleHolds`): the message under way on the connection of
  the session on the screen is that of the last bubble and is in one place at a time, and
  no chunk is behind the frame that ends its turn (`OneUnderWay`, `ChunksFirst`). Assumes
  `MaxDone = 1`, as the client takes the first DoneFrame for the end (see
  `silent_turn`), and `"get" \notin Faults`.

The proofs follow one message through the queue: `QueueStep` says that a step takes the
first message, or adds at most two at the end, and lemmas such as `HasTaken`,
`FollowedPosted` and `ChunkTurns` what that does to each part of the invariant. Each
of these invariants was checked by TLC first, on the instance of `chat_client_turns`.

Every safety property of the passing runs, and every refinement, is stated by a theorem.
With TLC stay: the two liveness properties of `chat_server_live`, as the proof system
does not handle fairness and ENABLED, and the five runs that find a disagreement.

## 5. Plan

1. Done: `ChatServer`, `ChatSession`, `Completion`, `SessionFiles`, `ChatClient`, the
   abstract `SessionHistory` and `LlmPort`, and the proofs of section 4.
2. Liveness by hand-made measures: that what a closed handler waits for takes finitely
   many steps is a safety property and could be proved; that the steps are taken is
   fairness.
3. `ChatClient` against the `ChatServer` handler of its connections, if the product
   stays within TLC's reach: `server` of `ChatClient` is what it would replace.

## 6. Not modelled

* Configuration loading and server start: parsing and validation, sequential and
  before the first request. What a session copies from the configs, and restarts with
  other configs, are in `SessionFiles`.
* Wire formats: declarations of frames and bodies; the frames are the steps that send
  and receive them in `ChatServer` and `ChatClient`.
* Listing, which reads directory names; the cache of LLM clients, which are
  stateless; logging; deployment.
* The documents under `openspec/`, which are read as claims about the code.
* Sampling parameters, which only pass through; the layout of the client; rounding of
  costs; names of sessions.
