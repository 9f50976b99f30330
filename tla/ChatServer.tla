------------------------------ MODULE ChatServer ------------------------------
(***************************************************************************)
(* The server process: the in-memory registry of sessions, the HTTP routes *)
(* that create, load and delete sessions, the WebSocket handlers, and the  *)
(* stream tasks they start, over the session directories on disk.          *)
(*                                                                         *)
(* All handlers run on one asyncio event loop, so an action is what a      *)
(* handler does between two suspension points.  The suspension points are  *)
(* ws.receive_text, ws.send_text, ws.close, the LLM calls and "await       *)
(* sc.stream_task".  File I/O is synchronous; ws.accept does not suspend   *)
(* in the pinned ASGI server.                                              *)
(*                                                                         *)
(* Message text, usage statistics and the context strategies are           *)
(* abstracted: a record of the history is its role and the turn (the       *)
(* stream) it belongs to, which is as unique as the record's uuid.         *)
(***************************************************************************)
EXTENDS Naturals, Sequences, SequencesExt

CONSTANTS
    SessionIds,    \* session ids clients may name
    Entries,       \* SessionConnections objects one server lifetime may build
    Connections,   \* WebSocket connections
    Streams,       \* asyncio tasks running _stream_response, one per turn
    Deletes,       \* DELETE requests
    Faults,        \* storage operations that may fail with an OSError
    None,          \* Python's None
    NoDir,         \* the session has no directory
    Unreadable     \* the directory exists, its files cannot be loaded

ASSUME NoneAssumption ==
    None \notin SessionIds \cup Entries \cup Connections \cup Streams \cup Deletes

Records == [role : {"user", "assistant"}, turn : Streams]

ASSUME DiskAssumption ==
    /\ NoDir # Unreadable
    /\ NoDir \notin Seq(Records)
    /\ Unreadable \notin Seq(Records)

ASSUME FaultsAssumption == Faults \subseteq {"create", "save", "delete"}

VARIABLES
    sessions,  \* app.state.sessions: id -> the registered entry or None
    sc,        \* the SessionConnections objects and their Session's records
    disk,      \* id -> the records its files hold, NoDir or Unreadable
    conn,      \* the handle_ws coroutine of each connection
    stream,    \* the _stream_response task of each turn
    delete     \* the delete_session coroutine of each DELETE request

vars == <<sessions, sc, disk, conn, stream, delete>>

Blank == [id |-> None, ws |-> None, stream_task |-> None, history |-> <<>>]

\* Suspended in: nothing yet; receive_text; send_text; await sc.stream_task; done
Attached  == {"loop", "replying", "cleanup"}
ConnPcs   == Attached \cup {"new", "closed"}
\* Suspended in: task scheduled; LLM call; send_text of a chunk; summarisation
\* call; send_text of a DoneFrame or ErrorFrame; then the two ways to be done
Running   == {"created", "llm", "chunk", "summary", "done", "error"}
Sending   == {"chunk", "done", "error"}
StreamPcs == Running \cup {"new", "saved", "ended"}
DeletePcs == {"new", "closing", "finished"}

EntryType  == [id : SessionIds \cup {None}, ws : Connections \cup {None},
               stream_task : Streams \cup {None}, history : Seq(Records)]
ConnType   == [pc : ConnPcs, sc : Entries \cup {None}, open : BOOLEAN]
StreamType == [pc : StreamPcs, sc : Entries \cup {None}, ws : Connections \cup {None},
               frames : 0..2, cancelled : BOOLEAN]
DeleteType == [pc : DeletePcs, id : SessionIds \cup {None}, ws : Connections \cup {None}]

TypeOK ==
    /\ sessions \in [SessionIds -> Entries \cup {None}]
    /\ sc \in [Entries -> EntryType]
    /\ disk \in [SessionIds -> Seq(Records) \cup {NoDir, Unreadable}]
    /\ conn \in [Connections -> ConnType]
    /\ stream \in [Streams -> StreamType]
    /\ delete \in [Deletes -> DeleteType]

Init ==
    /\ sessions = [id \in SessionIds |-> None]
    /\ sc = [e \in Entries |-> Blank]
    /\ disk = [id \in SessionIds |-> NoDir]
    /\ conn = [c \in Connections |-> [pc |-> "new", sc |-> None, open |-> FALSE]]
    /\ stream = [t \in Streams |-> [pc |-> "new", sc |-> None, ws |-> None,
                                    frames |-> 0, cancelled |-> FALSE]]
    /\ delete = [d \in Deletes |-> [pc |-> "new", id |-> None, ws |-> None]]

-----------------------------------------------------------------------------
(* The repository, as the routes use it                                    *)

\* Mutant of Readable: only a missing directory is reported
ReadableIfExists(id) == disk[id] # NoDir

Readable(id) == disk[id] \notin {NoDir, Unreadable}

\* What rmtree can leave of a directory: nothing or, when it fails, all or a part
Leftovers(d) ==
    {NoDir} \cup IF "delete" \in Faults /\ d # NoDir THEN {d, Unreadable} ELSE {}

Answered(records) == records = <<>> \/ Last(records).role = "assistant"

\* What an update of an existing directory can leave: the new records or, when
\* a write fails, the old files, unreadable ones or, if they were unreadable, the
\* messages of an earlier save of the same object, readable again (ChatSession)
Written(d, records) ==
    {records} \cup
        IF "save" \notin Faults THEN {}
        ELSE {d, Unreadable} \cup
             {r \in Prefixes(records) : d = Unreadable /\ Answered(r)}

\* A SessionConnections that has not been built yet holds the session's records
NewEntry(e, id, records) ==
    /\ sc[e].id = None
    /\ sc' = [sc EXCEPT ![e] = [Blank EXCEPT !.id = id, !.history = records]]

-----------------------------------------------------------------------------
(* HTTP routes                                                             *)

\* POST /session: 409 when registered or on disk, otherwise mkdir, write, register
CreateSession(id) ==
    /\ sessions[id] = None
    /\ disk[id] = NoDir
    /\ \E e \in Entries :
        /\ NewEntry(e, id, <<>>)
        /\ sessions' = [sessions EXCEPT ![id] = e]
    /\ disk' = [disk EXCEPT ![id] = <<>>]
    /\ UNCHANGED <<conn, stream, delete>>

\* POST /session, 500: the directory is made but its files are not all written
CreateSessionFails(id) ==
    /\ "create" \in Faults
    /\ sessions[id] = None
    /\ disk[id] = NoDir
    /\ disk' = [disk EXCEPT ![id] = Unreadable]
    /\ UNCHANGED <<sessions, sc, conn, stream, delete>>

\* GET /session/{id}, /info and /messages: load and register what is not registered
GetSession(id) ==
    /\ sessions[id] = None
    /\ Readable(id)
    /\ \E e \in Entries :
        /\ NewEntry(e, id, disk[id])
        /\ sessions' = [sessions EXCEPT ![id] = e]
    /\ UNCHANGED <<disk, conn, stream, delete>>

\* Mutant of DeleteBegin: the socket of the deleted session is not closed
DeleteBeginNoClose(d, id) ==
    /\ delete[d].pc = "new"
    /\ sessions' = [sessions EXCEPT ![id] = None]
    /\ \E left \in Leftovers(disk[id]) : disk' = [disk EXCEPT ![id] = left]
    /\ delete' = [delete EXCEPT ![d] = [pc |-> "finished", id |-> id, ws |-> None]]
    /\ UNCHANGED <<sc, conn, stream>>

\* Mutant of DeleteBegin: it waits for the frames of a socket it leaves open
DeleteBeginKeepsOpen(d, id) ==
    LET e == sessions[id]
    IN  /\ delete[d].pc = "new"
        /\ e # None /\ sc[e].ws # None
        /\ sessions' = [sessions EXCEPT ![id] = None]
        /\ delete' = [delete EXCEPT ![d] = [pc |-> "closing", id |-> id, ws |-> sc[e].ws]]
        /\ UNCHANGED <<sc, disk, conn, stream>>

\* DELETE up to ws.close: unregister; close the entry's socket if it has one,
\* otherwise go straight to the removal of the directory
DeleteBegin(d, id) ==
    LET e == sessions[id]
        ws == IF e = None THEN None ELSE sc[e].ws
    IN  /\ delete[d].pc = "new"
        /\ sessions' = [sessions EXCEPT ![id] = None]
        /\ \/ /\ ws # None
              /\ conn' = [conn EXCEPT ![ws].open = FALSE]
              /\ delete' = [delete EXCEPT ![d] = [pc |-> "closing", id |-> id, ws |-> ws]]
              /\ UNCHANGED disk
           \/ /\ ws = None
              /\ \E left \in Leftovers(disk[id]) : disk' = [disk EXCEPT ![id] = left]
              /\ delete' = [delete EXCEPT ![d] = [pc |-> "finished", id |-> id, ws |-> None]]
              /\ UNCHANGED conn
        /\ UNCHANGED <<sc, stream>>

\* Frames on one socket go out in order: close returns after the sends before it
SendInFlight(c) ==
    \/ conn[c].pc = "replying"
    \/ \E t \in Streams : stream[t].ws = c /\ stream[t].pc \in Sending

\* DELETE after ws.close: the directory is removed, whoever has loaded it meanwhile
DeleteFinish(d) ==
    LET id == delete[d].id
    IN  /\ delete[d].pc = "closing"
        /\ ~SendInFlight(delete[d].ws)
        /\ \E left \in Leftovers(disk[id]) : disk' = [disk EXCEPT ![id] = left]
        /\ delete' = [delete EXCEPT ![d].pc = "finished"]
        /\ UNCHANGED <<sessions, sc, conn, stream>>

-----------------------------------------------------------------------------
(* handle_ws                                                               *)

Attach(c, e) == conn' = [conn EXCEPT ![c] = [pc |-> "loop", sc |-> e, open |-> TRUE]]

\* 4404, 4500 (nothing loadable) or 4409 (the entry has a connection)
ConnectRefused(c, id) ==
    /\ conn[c].pc = "new"
    /\ IF sessions[id] = None THEN ~Readable(id) ELSE sc[sessions[id]].ws # None
    /\ conn' = [conn EXCEPT ![c].pc = "closed"]
    /\ UNCHANGED <<sessions, sc, disk, stream, delete>>

\* Mutant of ConnectRegistered: the 4409 check is missing
ConnectUnchecked(c, id) ==
    /\ conn[c].pc = "new"
    /\ sessions[id] # None
    /\ Attach(c, sessions[id])
    /\ sc' = [sc EXCEPT ![sessions[id]].ws = c]
    /\ UNCHANGED <<sessions, disk, stream, delete>>

ConnectRegistered(c, id) ==
    /\ conn[c].pc = "new"
    /\ sessions[id] # None
    /\ sc[sessions[id]].ws = None
    /\ Attach(c, sessions[id])
    /\ sc' = [sc EXCEPT ![sessions[id]].ws = c]
    /\ UNCHANGED <<sessions, disk, stream, delete>>

\* Mutant of ConnectLoaded: the loaded session is not registered
ConnectUnregistered(c, id) ==
    /\ conn[c].pc = "new"
    /\ sessions[id] = None
    /\ Readable(id)
    /\ \E e \in Entries :
        /\ sc[e].id = None
        /\ sc' = [sc EXCEPT ![e] = [Blank EXCEPT !.id = id, !.ws = c, !.history = disk[id]]]
        /\ Attach(c, e)
    /\ UNCHANGED <<sessions, disk, stream, delete>>

ConnectLoaded(c, id) ==
    /\ conn[c].pc = "new"
    /\ sessions[id] = None
    /\ Readable(id)
    /\ \E e \in Entries :
        /\ sc[e].id = None
        /\ sc' = [sc EXCEPT ![e] = [Blank EXCEPT !.id = id, !.ws = c, !.history = disk[id]]]
        /\ sessions' = [sessions EXCEPT ![id] = e]
        /\ Attach(c, e)
    /\ UNCHANGED <<disk, stream, delete>>

\* Mutant of InProgress: a stream counts only while it waits for the LLM's answer
InProgressLlm(e) ==
    sc[e].stream_task # None /\ stream[sc[e].stream_task].pc \in {"created", "llm"}

\* sc.stream_task and not sc.stream_task.done()
InProgress(e) ==
    sc[e].stream_task # None /\ stream[sc[e].stream_task].pc \in Running

\* A frame that had been queued is still received after the socket has closed
ReceiveSend(c) ==
    LET e == conn[c].sc
    IN  /\ conn[c].pc = "loop"
        /\ ~InProgress(e)
        /\ \E t \in Streams :
            /\ stream[t].pc = "new"
            /\ stream' = [stream EXCEPT ![t] = [pc |-> "created", sc |-> e, ws |-> c,
                                                frames |-> 0, cancelled |-> FALSE]]
            /\ sc' = [sc EXCEPT ![e].stream_task = t]
        /\ UNCHANGED <<sessions, disk, conn, delete>>

\* PingFrame, a frame that does not parse, SendMessageFrame during a stream:
\* the handler suspends in the send of PongFrame or ErrorFrame
ReceiveReplied(c) ==
    /\ conn[c].pc = "loop"
    /\ conn[c].open
    /\ conn' = [conn EXCEPT ![c].pc = "replying"]
    /\ UNCHANGED <<sessions, sc, disk, stream, delete>>

ReplySent(c) ==
    /\ conn[c].pc = "replying"
    /\ conn' = [conn EXCEPT ![c].pc = "loop"]
    /\ UNCHANGED <<sessions, sc, disk, stream, delete>>

ReceiveCancel(c) ==
    /\ conn[c].pc = "loop"
    /\ InProgress(conn[c].sc)
    /\ stream' = [stream EXCEPT ![sc[conn[c].sc].stream_task].cancelled = TRUE]
    /\ UNCHANGED <<sessions, sc, disk, conn, delete>>

Detach(c) ==
    /\ sc' = [sc EXCEPT ![conn[c].sc].ws = None, ![conn[c].sc].stream_task = None]
    /\ conn' = [conn EXCEPT ![c].pc = "closed", ![c].open = FALSE]

\* Mutant of LeaveLoop: the stream in progress is left to itself
LeaveLoopNoCancel(c) ==
    /\ conn[c].pc = "loop" \/ (conn[c].pc = "replying" /\ ~conn[c].open)
    /\ Detach(c)
    /\ UNCHANGED <<sessions, disk, stream, delete>>

\* Mutant of LeaveLoop: the stream in progress is awaited but not cancelled
LeaveLoopAwaitOnly(c) ==
    /\ conn[c].pc = "loop" \/ (conn[c].pc = "replying" /\ ~conn[c].open)
    /\ conn' = [conn EXCEPT ![c].pc = "cleanup"]
    /\ UNCHANGED <<sessions, sc, disk, stream, delete>>

\* The loop raises: receive or send on a closed socket, or a frame that is not
\* text.  The finally block cancels a stream in progress and awaits it.
LeaveLoop(c) ==
    LET e == conn[c].sc
    IN  /\ conn[c].pc = "loop" \/ (conn[c].pc = "replying" /\ ~conn[c].open)
        /\ \/ /\ InProgress(e)
              /\ stream' = [stream EXCEPT ![sc[e].stream_task].cancelled = TRUE]
              /\ conn' = [conn EXCEPT ![c].pc = "cleanup"]
              /\ UNCHANGED sc
           \/ /\ ~InProgress(e)
              /\ Detach(c)
              /\ UNCHANGED stream
        /\ UNCHANGED <<sessions, disk, delete>>

CleanupDone(c) ==
    /\ conn[c].pc = "cleanup"
    /\ ~InProgress(conn[c].sc)
    /\ Detach(c)
    /\ UNCHANGED <<sessions, disk, stream, delete>>

\* External: the client goes away and the ASGI server notices
ClientDisconnects(c) ==
    /\ conn[c].pc \in Attached
    /\ conn[c].open
    /\ conn' = [conn EXCEPT ![c].open = FALSE]
    /\ UNCHANGED <<sessions, sc, disk, stream, delete>>

-----------------------------------------------------------------------------
(* _stream_response, SendMessageUseCase.execute and Session.acompletion    *)

\* The task resumes where it was suspended; task.cancel() would have it raise
Resumes(t, pc) == stream[t].pc = pc /\ ~stream[t].cancelled

\* The task starts a send: on a closed socket it raises, which ends the task
StartSend(t, pc, frames) ==
    stream' = IF conn[stream[t].ws].open
              THEN [stream EXCEPT ![t].pc = pc, ![t].frames = frames]
              ELSE [stream EXCEPT ![t].pc = "ended"]

Append1(t, role) ==
    sc' = [sc EXCEPT ![stream[t].sc].history =
                        Append(@, [role |-> role, turn |-> t])]

\* First step of the task: add_user_query, get_context, call the LLM
StreamStart(t) ==
    /\ Resumes(t, "created")
    /\ Append1(t, "user")
    /\ stream' = [stream EXCEPT ![t].pc = "llm"]
    /\ UNCHANGED <<sessions, disk, conn, delete>>

LlmChunk(t) ==
    /\ Resumes(t, "llm")
    /\ StartSend(t, "chunk", 0)
    /\ UNCHANGED <<sessions, sc, disk, conn, delete>>

ChunkSent(t) ==
    /\ Resumes(t, "chunk")
    /\ stream' = [stream EXCEPT ![t].pc = "llm"]
    /\ UNCHANGED <<sessions, sc, disk, conn, delete>>

\* The LLM stream ends: add_model_response, then update_context, which either
\* calls the LLM again or leaves one model in the statistics to report
LlmDone(t) ==
    /\ Resumes(t, "llm")
    /\ Append1(t, "assistant")
    /\ \/ stream' = [stream EXCEPT ![t].pc = "summary"]
       \/ StartSend(t, "done", 1)
    /\ UNCHANGED <<sessions, disk, conn, delete>>

\* The summary used the same model as the answer, or another one to report too
SummaryDone(t) ==
    /\ Resumes(t, "summary")
    /\ \E models \in 1..2 : StartSend(t, "done", models)
    /\ UNCHANGED <<sessions, sc, disk, conn, delete>>

\* The LLM call raises: an AnyLLMError is reported, other exceptions end the task
LlmFails(t) ==
    /\ \/ Resumes(t, "llm")
       \/ Resumes(t, "summary")
    /\ \/ StartSend(t, "error", 0)
       \/ stream' = [stream EXCEPT ![t].pc = "ended"]
    /\ UNCHANGED <<sessions, sc, disk, conn, delete>>

ErrorSent(t) ==
    /\ Resumes(t, "error")
    /\ stream' = [stream EXCEPT ![t].pc = "ended"]
    /\ UNCHANGED <<sessions, sc, disk, conn, delete>>

\* A send in flight when the socket closed may fail instead of completing
SendFails(t) ==
    /\ \E pc \in {"chunk", "done"} : Resumes(t, pc)
    /\ ~conn[stream[t].ws].open
    /\ stream' = [stream EXCEPT ![t].pc = "ended"]
    /\ UNCHANGED <<sessions, sc, disk, conn, delete>>

DoneSentMore(t) ==
    /\ Resumes(t, "done")
    /\ stream[t].frames > 1
    /\ StartSend(t, "done", stream[t].frames - 1)
    /\ UNCHANGED <<sessions, sc, disk, conn, delete>>

\* After the last DoneFrame the use case saves: update_session raises when the
\* directory is gone or a write fails
DoneSentLast(t) ==
    LET e == stream[t].sc
        id == sc[e].id
    IN  /\ Resumes(t, "done")
        /\ stream[t].frames = 1
        /\ \/ /\ disk[id] # NoDir
              /\ \E left \in Written(disk[id], sc[e].history) :
                    /\ disk' = [disk EXCEPT ![id] = left]
                    /\ stream' = [stream EXCEPT ![t].pc =
                            IF left = sc[e].history THEN "saved" ELSE "ended"]
           \/ /\ disk[id] = NoDir
              /\ stream' = [stream EXCEPT ![t].pc = "ended"]
              /\ UNCHANGED disk
        /\ UNCHANGED <<sessions, sc, conn, delete>>

\* A cancelled task raises CancelledError at its next step; before its first
\* step its body never runs
StreamCancelled(t) ==
    /\ stream[t].pc \in Running
    /\ stream[t].cancelled
    /\ stream' = [stream EXCEPT ![t].pc = "ended"]
    /\ UNCHANGED <<sessions, sc, disk, conn, delete>>

-----------------------------------------------------------------------------
(* The process stops and is started again (restart: unless-stopped): the   *)
(* disk survives, the registry, handlers and tasks do not.                 *)

Restart ==
    /\ sessions' = [id \in SessionIds |-> None]
    /\ sc' = [e \in Entries |-> Blank]
    /\ conn' = [c \in Connections |->
                  IF conn[c].pc = "new" THEN conn[c]
                  ELSE [pc |-> "closed", sc |-> None, open |-> FALSE]]
    /\ stream' = [t \in Streams |->
                    [pc |-> IF stream[t].pc \in Running THEN "ended" ELSE stream[t].pc,
                     sc |-> None, ws |-> None, frames |-> 0, cancelled |-> FALSE]]
    /\ delete' = [d \in Deletes |->
                    [pc |-> IF delete[d].pc = "closing" THEN "finished" ELSE delete[d].pc,
                     id |-> None, ws |-> None]]
    /\ UNCHANGED disk

-----------------------------------------------------------------------------

RouteStep ==
    \/ \E id \in SessionIds : CreateSession(id) \/ CreateSessionFails(id) \/ GetSession(id)
    \/ \E d \in Deletes, id \in SessionIds : DeleteBegin(d, id)
    \/ \E d \in Deletes : DeleteFinish(d)

ConnectStep ==
    \E c \in Connections, id \in SessionIds :
        ConnectRefused(c, id) \/ ConnectRegistered(c, id) \/ ConnectLoaded(c, id)

HandlerStep ==
    \E c \in Connections :
        \/ ReceiveSend(c) \/ ReceiveReplied(c) \/ ReplySent(c) \/ ReceiveCancel(c)
        \/ LeaveLoop(c) \/ CleanupDone(c) \/ ClientDisconnects(c)

StreamStep ==
    \E t \in Streams :
        \/ StreamStart(t) \/ LlmChunk(t) \/ ChunkSent(t) \/ LlmDone(t)
        \/ SummaryDone(t) \/ LlmFails(t) \/ ErrorSent(t) \/ SendFails(t)
        \/ DoneSentMore(t) \/ DoneSentLast(t) \/ StreamCancelled(t)

Next == RouteStep \/ ConnectStep \/ HandlerStep \/ StreamStep \/ Restart

Spec == Init /\ [][Next]_vars
-----------------------------------------------------------------------------
(* Properties                                                              *)

\* A handler past the 4409 check holds its entry's connection slot alone, until
\* it has left: sc.ws is the socket of every handler that serves the entry.
ExclusiveConnection ==
    \A c \in Connections : conn[c].pc \in Attached => sc[conn[c].sc].ws = c

\* No stream task escapes its handler: while a task runs, the entry's
\* stream_task is that task and its handler is still there to cancel and await
\* it.  So an entry never has two streams, and none outlives its connection.
StreamOwned ==
    \A t \in Streams : stream[t].pc \in Running =>
        /\ conn[stream[t].ws].pc \in Attached
        /\ conn[stream[t].ws].sc = stream[t].sc
        /\ sc[stream[t].sc].stream_task = t

\* The turns of a session do not interleave: in memory and on disk an answer
\* stands right after the question of its own turn.  (A question may stay without
\* an answer: its turn failed, was cancelled or lost its connection.)
AnswersFollowQuestions(records) ==
    \A i \in 1..Len(records) : records[i].role = "assistant" =>
        i > 1 /\ records[i - 1] = [role |-> "user", turn |-> records[i].turn]

TurnsNotInterleaved ==
    /\ \A e \in Entries : AnswersFollowQuestions(sc[e].history)
    /\ \A id \in SessionIds : Readable(id) => AnswersFollowQuestions(disk[id])

DeletePending(id) == \E d \in Deletes : delete[d].pc = "closing" /\ delete[d].id = id

\* A stream that can still get as far as the save: its socket is open, or the
\* last frame before the save is already on its way
MaySave(t) ==
    /\ stream[t].pc \in Running
    /\ ~stream[t].cancelled
    /\ \/ conn[stream[t].ws].open
       \/ stream[t].pc = "done" /\ stream[t].frames = 1

\* Only the registered object of a session can write its directory: outside a
\* pending DELETE no stream of an object that was unregistered (or replaced in
\* the registry after a reload or a re-creation) can still reach update_session.
OnlyRegisteredSaves ==
    \A t \in Streams : MaySave(t) =>
        LET id == sc[stream[t].sc].id
        IN  sessions[id] = stream[t].sc \/ DeletePending(id)

\* What is on disk is the beginning of what the registered session remembers:
\* outside a pending DELETE the files never hold a record, of an earlier session
\* of the same name or of another copy of this one, that the next save would drop.
MemoryCoversDisk ==
    \A id \in SessionIds :
        sessions[id] # None /\ Readable(id) /\ ~DeletePending(id) =>
            IsPrefix(disk[id], sc[sessions[id]].history)

\* A step may add to the saved history of a session or lose the session as a
\* whole (removal, a write that fails), but never drops, changes or reorders
\* saved records of a session that nobody is deleting.
SavedRecordsKept ==
    [][\A id \in SessionIds :
          Readable(id) /\ Readable(id)' /\ ~DeletePending(id) =>
              IsPrefix(disk[id], disk'[id])]_vars

\* Once every DELETE of a session has finished without a failure, the session is
\* gone: it is not served from memory after its directory has been removed.
DeletedSessionIsGone ==
    \A id \in SessionIds :
        sessions[id] # None /\ ~DeletePending(id) => disk[id] # NoDir

-----------------------------------------------------------------------------
(* The inductive invariant of ChatServerProofs                             *)

(***************************************************************************)
(* References: what the registry, the handlers, the tasks and the pending  *)
(* DELETEs point at exists, and a registered entry is of the session it is *)
(* registered under.                                                       *)
(***************************************************************************)
References ==
    /\ \A id \in SessionIds : sessions[id] # None => sc[sessions[id]].id = id
    /\ \A c \in Connections : conn[c].pc \in Attached =>
            conn[c].sc \in Entries /\ sc[conn[c].sc].id # None
    /\ \A t \in Streams : stream[t].pc \in Running =>
            stream[t].sc \in Entries /\ stream[t].ws \in Connections
    /\ \A d \in Deletes : delete[d].pc = "closing" =>
            delete[d].id \in SessionIds /\ delete[d].ws \in Connections

(* An entry that no DELETE has popped is the one its handler serves: the   *)
(* socket of an entry is closed when the entry leaves the registry.        *)
OpenIsRegistered ==
    \A c \in Connections :
        conn[c].pc \in Attached /\ conn[c].open =>
            sessions[sc[conn[c].sc].id] = conn[c].sc

(* A stream on its way to the save works on the registered entry, or the   *)
(* DELETE that unregistered it still waits for the frames of its socket.   *)
SaverIsAwaited ==
    \A t \in Streams : MaySave(t) =>
        LET id == sc[stream[t].sc].id
        IN  \/ sessions[id] = stream[t].sc
            \/ \E d \in Deletes : /\ delete[d].pc = "closing"
                                  /\ delete[d].id = id
                                  /\ delete[d].ws = stream[t].ws

(* The inductive invariant of this module.                                 *)
IInv ==
    /\ TypeOK
    /\ References
    /\ ExclusiveConnection
    /\ StreamOwned
    /\ OpenIsRegistered
    /\ SaverIsAwaited

(* A task that waits for chunks of its answer has its own question last in *)
(* the history: nobody has appended to it since the task's first step.     *)
QuestionPending ==
    \A t \in Streams : stream[t].pc \in {"llm", "chunk"} =>
        LET records == sc[stream[t].sc].history
        IN  records # <<>> /\ Last(records) = [role |-> "user", turn |-> t]

(* What ChatServerHistoryProofs shows to be inductive on top of IInv.      *)
TurnsInv == IInv /\ TurnsNotInterleaved /\ QuestionPending

CoverInv == IInv /\ MemoryCoversDisk

-----------------------------------------------------------------------------
(* Liveness.  The fairness is that of the event loop and of closed sockets: a  *)
(* task that is ready runs, and a receive or send on a closed socket returns   *)
(* or raises.  Nothing is assumed of the LLM provider, of clients or of open   *)
(* sockets.                                                                    *)

Closed(c) == conn[c].pc \in Attached /\ ~conn[c].open

SendReturns(t) ==
    /\ stream[t].pc \in Sending
    /\ Closed(stream[t].ws)
    /\ \/ ChunkSent(t) \/ SendFails(t) \/ ErrorSent(t)
       \/ DoneSentMore(t) \/ DoneSentLast(t)

Fairness ==
    /\ \A c \in Connections :
        /\ WF_vars(Closed(c) /\ (ReplySent(c) \/ LeaveLoop(c)))
        /\ WF_vars(CleanupDone(c))
    /\ \A t \in Streams :
        /\ WF_vars(StreamCancelled(t))
        /\ WF_vars(SendReturns(t))
    /\ \A d \in Deletes : WF_vars(DeleteFinish(d))

FairSpec == Spec /\ Fairness

\* When the socket of a handler closes, by the client or by DELETE, the handler
\* leaves and frees the slot of its session, even if the LLM never answers and
\* even if it is suspended in a send or in the await of the task it cancelled.
ClosedHandlerLeaves ==
    \A c \in Connections : Closed(c) ~> conn[c].pc = "closed"

\* DELETE returns: the handshake of ws.close cannot wait for ever on a stream that
\* keeps sending on the socket it closes.
DeleteReturns ==
    \A d \in Deletes : delete[d].pc = "closing" ~> delete[d].pc = "finished"
=============================================================================
