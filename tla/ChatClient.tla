----------------------------- MODULE ChatClient -----------------------------
(***************************************************************************)
(* The terminal client: the App, which handles the messages of its queue   *)
(* one at a time and suspends in HTTP requests and while it mounts         *)
(* widgets; and the _connect_ws workers, which connect, post a message per *)
(* frame and clean up concurrently.  Below them what a client may see of   *)
(* the server: one receiving loop and one turn per connection.             *)
(*                                                                         *)
(* A message of the conversation is the turn it starts or answers.  What a *)
(* server action emits is in the App's queue at once: the delay of the     *)
(* network is the delay of the action.                                     *)
(***************************************************************************)
EXTENDS Naturals, Sequences, FiniteSets, SequencesExt

CONSTANTS
    Sessions,      \* sessions the server has or the user may create
    Workers,       \* runs of _connect_ws, each with the connection it makes
    Turns,         \* messages the user may send
    Faults,        \* what may fail: "get", "post", "delete", "connect", "close", "silent"
    MaxDone,       \* bound: DoneFrames of one turn
    MaxPresses,    \* bound: key presses and clicks waiting in the queue
    None           \* Python's None

ASSUME NoneAssumption == None \notin Sessions \cup Workers \cup Turns

ASSUME BoundsAssumption ==
    /\ MaxDone \in Nat \ {0}
    /\ MaxPresses \in Nat

VARIABLES
    app,       \* the App's attributes and the await its current handler is in
    ui,        \* the widgets the handlers read and write
    item,      \* the entries of the session list
    queue,     \* the App's message queue
    worker,    \* the _connect_ws workers
    server,    \* per connection: messages under way, and the turn of its handler
    answered,  \* the answers the server has recorded, per session
    fresh,     \* messages the user has not sent yet
    home       \* reference: the session a message was sent to

vars == <<app, ui, item, queue, worker, server, answered, fresh, home>>

Presses == {"submit", "new", "select", "delete"}
Kinds == Presses \cup {"connected", "disconnected", "chunk", "done", "error"}
Message == [kind : Kinds, session : Sessions \cup {None}, turn : Turns \cup {None}]
Msg(kind, s, t) == [kind |-> kind, session |-> s, turn |-> t]

\* Suspended in: the next message; GET, POST, DELETE; mount of the new bubbles
AppPcs == {"idle", "get", "post", "delete", "mount", "crashed"}

Bubble == [turn : Turns, text : SUBSET Turns]

TypeOK ==
    /\ app \in [pc : AppPcs, active : Sessions \cup {None}, ws : Workers \cup {None},
                streaming : BOOLEAN, text : SUBSET Turns]
    /\ ui \in [enabled : BOOLEAN, value : BOOLEAN, shown : Sessions \cup {None},
               bubbles : Seq(Bubble)]
    /\ item \in [Sessions -> {"unknown", "listed", "deleted"}]
    /\ queue \in Seq(Message)
    /\ worker \in [Workers -> [pc : {"new", "connecting", "open", "closed", "cancelled", "ended"},
                               session : Sessions \cup {None}]]
    /\ server \in [Workers -> [inbox : Seq(Turns), turn : Turns \cup {None},
                               phase : {"new", "llm", "chunked", "done"}, left : 0..MaxDone]]
    /\ answered \in [Sessions -> Seq(Turns)]
    /\ fresh \subseteq Turns
    /\ home \in [Turns -> Sessions \cup {None}]

\* After on_mount: the list holds some sessions, some with an answer (bound: one) in
\* their history, and the input is disabled
Init ==
    /\ app = [pc |-> "idle", active |-> None, ws |-> None, streaming |-> FALSE, text |-> {}]
    /\ ui = [enabled |-> FALSE, value |-> FALSE, shown |-> None, bubbles |-> <<>>]
    /\ item \in [Sessions -> {"unknown", "listed"}]
    /\ queue = <<>>
    /\ worker = [w \in Workers |-> [pc |-> "new", session |-> None]]
    /\ server = [w \in Workers |-> [inbox |-> <<>>, turn |-> None, phase |-> "new", left |-> 0]]
    /\ answered \in [Sessions -> {<<>>} \cup {<<t>> : t \in Turns}]
    /\ home \in [Turns -> Sessions \cup {None}]
    /\ \A s \in Sessions, t \in Turns : answered[s] = <<t>> <=> home[t] = s
    /\ \A s \in Sessions : item[s] = "unknown" => answered[s] = <<>>
    /\ fresh = {t \in Turns : home[t] = None}

-----------------------------------------------------------------------------
(* The user.  A press is checked against the widget and then waits.        *)

Pressed == {i \in DOMAIN queue : queue[i].kind \in Presses}

Press(kind, s) ==
    /\ Cardinality(Pressed) < MaxPresses
    /\ queue' = Append(queue, Msg(kind, s, None))
    /\ UNCHANGED <<app, item, worker, server, answered, fresh, home>>

UserSubmits ==
    /\ ui.enabled
    /\ ui' = [ui EXCEPT !.value = TRUE]
    /\ Press("submit", None)

UserClicks ==
    /\ \/ Press("new", None)
       \/ app.active # None /\ Press("delete", None)
       \/ \E s \in Sessions : item[s] = "listed" /\ Press("select", s)
    /\ UNCHANGED ui

-----------------------------------------------------------------------------
(* Selecting, creating and deleting sessions                               *)

\* The App takes the next message, of this kind
Takes(kind) ==
    /\ app.pc = "idle"
    /\ queue # <<>>
    /\ Head(queue).kind = kind
    /\ queue' = Tail(queue)

\* _select_session up to the GET
Selecting(s) ==
    [app EXCEPT !.pc = "get", !.active = s, !.ws = None, !.streaming = FALSE, !.text = {}]

HandleSelect ==
    /\ Takes("select")
    /\ app' = IF Head(queue).session = app.active THEN app ELSE Selecting(Head(queue).session)
    /\ UNCHANGED <<ui, item, worker, server, answered, fresh, home>>

\* Mutant of Cancelled: a worker that is still connecting goes on
CancelledIfOpen ==
    [w \in Workers |-> IF worker[w].pc \in {"open", "closed"}
                       THEN [worker[w] EXCEPT !.pc = "cancelled"] ELSE worker[w]]

\* @work(exclusive=True): the workers before this one are cancelled
Cancelled ==
    [w \in Workers |-> IF worker[w].pc \in {"connecting", "open", "closed"}
                       THEN [worker[w] EXCEPT !.pc = "cancelled"] ELSE worker[w]]

\* _select_session from the answer of the GET: render the history, connect
Selected ==
    LET s == app.active
    IN  /\ app.pc = "get"
        /\ item[s] # "deleted"
        /\ app' = [app EXCEPT !.pc = "idle"]
        /\ ui' = [ui EXCEPT !.shown = s,
                            !.bubbles = [i \in DOMAIN answered[s] |->
                                [turn |-> answered[s][i], text |-> {answered[s][i]}]]]
        /\ \E w \in Workers :
            /\ worker[w].pc = "new"
            /\ worker' = [Cancelled EXCEPT ![w] = [pc |-> "connecting", session |-> s]]
        /\ UNCHANGED <<item, queue, server, answered, fresh, home>>

\* The GET fails, as it does for a session deleted since it was clicked
SelectFails ==
    /\ app.pc = "get"
    /\ "get" \in Faults \/ item[app.active] = "deleted"
    /\ app' = [app EXCEPT !.pc = "idle"]
    /\ UNCHANGED <<ui, item, queue, worker, server, answered, fresh, home>>

HandleNew ==
    /\ Takes("new")
    /\ app' = [app EXCEPT !.pc = "post"]
    /\ UNCHANGED <<ui, item, worker, server, answered, fresh, home>>

Created ==
    /\ app.pc = "post"
    /\ \/ \E s \in Sessions :
            /\ item[s] = "unknown"
            /\ item' = [item EXCEPT ![s] = "listed"]
            /\ app' = Selecting(s)
       \/ /\ "post" \in Faults
          /\ app' = [app EXCEPT !.pc = "idle"]
          /\ UNCHANGED item
    /\ UNCHANGED <<ui, queue, worker, server, answered, fresh, home>>

HandleDelete ==
    /\ Takes("delete")
    /\ app' = [app EXCEPT !.pc = IF app.active = None THEN "idle" ELSE "delete"]
    /\ UNCHANGED <<ui, item, worker, server, answered, fresh, home>>

Deleted ==
    /\ app.pc = "delete"
    /\ item' = [item EXCEPT ![app.active] = "deleted"]
    /\ app' = [app EXCEPT !.pc = "idle", !.active = None, !.ws = None, !.streaming = FALSE]
    /\ ui' = [ui EXCEPT !.enabled = FALSE, !.shown = None, !.bubbles = <<>>]
    /\ UNCHANGED <<queue, worker, server, answered, fresh, home>>

DeleteFails ==
    /\ app.pc = "delete"
    /\ "delete" \in Faults
    /\ app' = [app EXCEPT !.pc = "idle"]
    /\ UNCHANGED <<ui, item, queue, worker, server, answered, fresh, home>>

-----------------------------------------------------------------------------
(* _connect_ws                                                             *)

Post(messages) == queue' = queue \o messages

\* The server accepts every socket: that of a session that is deleted, or that it cannot
\* serve, it closes afterwards
WorkerConnects(w) ==
    /\ worker[w].pc = "connecting"
    /\ worker' = [worker EXCEPT ![w].pc = "open"]
    /\ app' = [app EXCEPT !.ws = w]
    /\ Post(<<Msg("connected", worker[w].session, None)>>)
    /\ UNCHANGED <<ui, item, server, answered, fresh, home>>

\* External: a restart, a refusal (4404, 4409, 4500) or DELETE closes the socket
SocketCloses(w) ==
    /\ worker[w].pc = "open"
    /\ \/ "close" \in Faults
       \/ item[worker[w].session] = "deleted"
       \/ app.pc = "delete" /\ app.active = worker[w].session
    /\ worker' = [worker EXCEPT ![w].pc = "closed"]
    /\ UNCHANGED <<app, ui, item, queue, server, answered, fresh, home>>

\* The finally block of the worker, after an except block unless it was cancelled
\* or the socket was closed normally
WorkerEnds(w) ==
    LET s == worker[w].session
    IN  /\ \/ worker[w].pc \in {"closed", "cancelled"}
           \/ worker[w].pc = "connecting" /\ "connect" \in Faults
        /\ worker' = [worker EXCEPT ![w].pc = "ended"]
        /\ app' = [app EXCEPT !.ws = None]
        /\ \/ /\ worker[w].pc \in {"closed", "cancelled"}
              /\ Post(<<Msg("disconnected", s, None)>>)
           \/ /\ worker[w].pc \in {"closed", "connecting"}
              /\ Post(<<Msg("error", s, None), Msg("disconnected", s, None)>>)
        /\ UNCHANGED <<ui, item, server, answered, fresh, home>>

-----------------------------------------------------------------------------
(* _send_message                                                           *)

\* Mutant of MaySend: a message may follow another before it is answered
MaySendAgain == ui.value /\ app.ws # None

MaySend == ~app.streaming /\ ui.value /\ app.ws # None

\* _send_message returns early
SubmitIgnored ==
    /\ Takes("submit")
    /\ ~MaySend
    /\ UNCHANGED <<app, ui, item, worker, server, answered, fresh, home>>

\* _send_message up to the mounting of the two bubbles
SubmitAccepted ==
    /\ Takes("submit")
    /\ MaySend
    /\ \E t \in fresh :
        /\ fresh' = fresh \ {t}
        /\ ui' = [ui EXCEPT !.value = FALSE, !.enabled = FALSE,
                            !.bubbles = Append(@, [turn |-> t, text |-> {}])]
    /\ app' = [app EXCEPT !.pc = "mount", !.streaming = TRUE, !.text = {}]
    /\ UNCHANGED <<item, worker, server, answered, home>>

\* Does what either side sends on this connection arrive?  The task of a cancelled
\* worker starts the closing handshake before a handler can get this far.
Alive(w) == worker[w].pc = "open" /\ item[worker[w].session] # "deleted"

\* self._ws is read again: the message goes to the connection it names now
FrameSent ==
    /\ app.pc = "mount"
    /\ \E w \in Workers : w = app.ws /\ Alive(w)
    /\ LET t == Last(ui.bubbles).turn
       IN  /\ server' = [server EXCEPT ![app.ws].inbox = Append(@, t)]
           /\ home' = [home EXCEPT ![t] = worker[app.ws].session]
    /\ app' = [app EXCEPT !.pc = "idle"]
    /\ UNCHANGED <<ui, item, queue, worker, answered, fresh>>

\* None.send, or a send on a closed connection: an exception in a handler ends the App
FrameNotSent ==
    /\ app.pc = "mount"
    /\ ~\E w \in Workers : w = app.ws /\ Alive(w)
    /\ app' = [app EXCEPT !.pc = "crashed"]
    /\ UNCHANGED <<ui, item, queue, worker, server, answered, fresh, home>>

-----------------------------------------------------------------------------
(* The handlers of the workers' messages.  All but their own session's are *)
(* dropped; they do not say which connection of the session they are from. *)

\* Mutant of TakesActive: the session is not looked at
TakesAny(kind) == Takes(kind) /\ app.active # None

TakesActive(kind) == Takes(kind) /\ Head(queue).session = app.active

HandleDropped ==
    /\ \E kind \in Kinds \ Presses : Takes(kind)
    /\ Head(queue).session # app.active
    /\ UNCHANGED <<app, ui, item, worker, server, answered, fresh, home>>

HandleConnected ==
    /\ TakesActive("connected")
    /\ ui' = [ui EXCEPT !.enabled = TRUE]
    /\ UNCHANGED <<app, item, worker, server, answered, fresh, home>>

\* Mutant of HandleDisconnected: the input stays as it is
HandleDisconnectedKeepsInput ==
    /\ TakesActive("disconnected")
    /\ app' = [app EXCEPT !.streaming = FALSE]
    /\ UNCHANGED <<ui, item, worker, server, answered, fresh, home>>

HandleDisconnected ==
    /\ TakesActive("disconnected")
    /\ ui' = [ui EXCEPT !.enabled = FALSE]
    /\ app' = [app EXCEPT !.streaming = FALSE]
    /\ UNCHANGED <<item, worker, server, answered, fresh, home>>

\* The accumulated text goes to the last bubble, if there is one
HandleChunk ==
    LET text == app.text \cup {Head(queue).turn}
    IN  /\ TakesActive("chunk")
        /\ app' = [app EXCEPT !.text = text]
        /\ ui' = IF ui.bubbles = <<>> THEN ui
                 ELSE [ui EXCEPT !.bubbles[Len(ui.bubbles)].text = text]
        /\ UNCHANGED <<item, worker, server, answered, fresh, home>>

\* on_stream_done and on_stream_error differ in the line the second displays
HandleEnd ==
    /\ TakesActive("done") \/ TakesActive("error")
    /\ app' = [app EXCEPT !.streaming = FALSE, !.text = {}]
    /\ ui' = [ui EXCEPT !.enabled = TRUE]
    /\ UNCHANGED <<item, worker, server, answered, fresh, home>>

-----------------------------------------------------------------------------
(* The server, as seen through connection w while its worker reads (all of *)
(* it is in ChatServer).                                                   *)

Emit(w, kind, t) == Post(<<Msg(kind, worker[w].session, t)>>)

ServerStep(w) == Alive(w) /\ UNCHANGED <<app, ui, item, worker, fresh, home>>

\* _ws_loop receives a SendMessageFrame: start a turn or refuse it
ServerReceives(w) ==
    LET t == Head(server[w].inbox)
    IN  /\ ServerStep(w)
        /\ server[w].inbox # <<>>
        /\ \/ /\ server[w].turn = None
              /\ server' = [server EXCEPT ![w] = [inbox |-> Tail(@.inbox), turn |-> t,
                                                  phase |-> "llm", left |-> 0]]
              /\ UNCHANGED queue
           \/ /\ server[w].turn # None
              /\ server' = [server EXCEPT ![w].inbox = Tail(@)]
              /\ Emit(w, "error", None)
        /\ UNCHANGED answered

ServerChunk(w) ==
    /\ ServerStep(w)
    /\ server[w].turn # None
    /\ server[w].phase = "llm"
    /\ server' = [server EXCEPT ![w].phase = "chunked"]
    /\ Emit(w, "chunk", server[w].turn)
    /\ UNCHANGED answered

\* The answer is complete: one DoneFrame per model the turn used
ServerDone(w) ==
    /\ ServerStep(w)
    /\ server[w].turn # None
    /\ server[w].phase = "chunked"
    /\ answered' = [answered EXCEPT ![worker[w].session] = Append(@, server[w].turn)]
    /\ \E frames \in 1..MaxDone :
        server' = [server EXCEPT ![w].phase = "done", ![w].left = frames - 1]
    /\ Emit(w, "done", server[w].turn)

\* Mutant of ServerDoneAgain: one frame too many
ServerDoneUncounted(w) ==
    /\ ServerStep(w)
    /\ server[w].turn # None
    /\ server[w].phase = "done"
    /\ server' = [server EXCEPT ![w].left = @ - 1]
    /\ Emit(w, "done", server[w].turn)
    /\ UNCHANGED answered

ServerDoneAgain(w) ==
    /\ ServerStep(w)
    /\ server[w].turn # None
    /\ server[w].left > 0
    /\ server' = [server EXCEPT ![w].left = @ - 1]
    /\ Emit(w, "done", server[w].turn)
    /\ UNCHANGED answered

\* The LLM call fails: an ErrorFrame if the error is one of any-llm's
ServerFails(w) ==
    /\ ServerStep(w)
    /\ server[w].turn # None
    /\ server[w].phase \in {"llm", "chunked"}
    /\ server' = [server EXCEPT ![w].phase = "done"]
    /\ \/ Emit(w, "error", None)
       \/ "silent" \in Faults /\ UNCHANGED queue
    /\ UNCHANGED answered

\* The stream task is done: it has sent its last frame and saved
ServerTurnEnds(w) ==
    /\ ServerStep(w)
    /\ server[w].turn # None
    /\ server[w].phase = "done"
    /\ server[w].left = 0
    /\ server' = [server EXCEPT ![w].turn = None]
    /\ UNCHANGED <<queue, answered>>

-----------------------------------------------------------------------------

AppNext ==
    \/ HandleSelect \/ Selected \/ SelectFails \/ HandleNew \/ Created
    \/ HandleDelete \/ Deleted \/ DeleteFails
    \/ SubmitIgnored \/ SubmitAccepted \/ FrameSent \/ FrameNotSent
    \/ HandleDropped \/ HandleConnected \/ HandleDisconnected \/ HandleChunk \/ HandleEnd

WorkerNext(w) ==
    \/ WorkerConnects(w) \/ SocketCloses(w) \/ WorkerEnds(w)

ServerNext(w) ==
    \/ ServerReceives(w) \/ ServerChunk(w) \/ ServerDone(w) \/ ServerDoneAgain(w)
    \/ ServerFails(w) \/ ServerTurnEnds(w)

Next ==
    /\ app.pc # "crashed"
    /\ \/ UserSubmits \/ UserClicks \/ AppNext
       \/ \E w \in Workers : WorkerNext(w) \/ ServerNext(w)

Spec == Init /\ [][Next]_vars

-----------------------------------------------------------------------------
(* Properties                                                              *)

\* A message the user sends goes to the session whose history is on the screen:
\* _select_session, the worker it cancels, the worker it starts and the send that
\* rereads _ws after an await cannot combine to deliver it to another session.
SentToShown ==
    [][\A w \in Workers :
        Len(server'[w].inbox) > Len(server[w].inbox) =>
            ui.shown \in {worker[w].session, None}]_vars

\* No session has had two connections of this client
OneConnectionEach ==
    \A v, w \in Workers : v # w /\ worker[v].session # None
                                => worker[v].session # worker[w].session

\* The active session is the one on the screen: it is not while the history of a newly
\* selected session loads, nor after that failed.
OnScreen == app.active = ui.shown /\ app.pc # "get"

\* A bubble shows the chunks of its own turn and of no other, as long as no session
\* was left and selected again and no GET fails: on_stream_chunk writes what it has
\* accumulated to the last bubble, so nothing may be sent while an answer arrives.
ChunksInTheirBubble ==
    OneConnectionEach /\ OnScreen =>
        \A i \in DOMAIN ui.bubbles : ui.bubbles[i].text \subseteq {ui.bubbles[i].turn}

\* Whatever frames of earlier connections are still in the queue when the user goes
\* from session to session and back: the history on the screen only ever gets text of
\* answers to messages of this session, as long as no GET fails.
OnlyOwnAnswers ==
    OnScreen =>
        \A i \in DOMAIN ui.bubbles :
            \A t \in ui.bubbles[i].text : home[t] = ui.shown

AtRest ==
    /\ app.pc = "idle"
    /\ queue = <<>>
    /\ \A w \in Workers :
        /\ worker[w].pc \in {"new", "open", "ended"}
        /\ worker[w].pc = "open" => server[w].turn = None /\ server[w].inbox = <<>>

\* When nothing is under way, whatever connections of whichever session have ended late:
\* while the App knows a connection, the user can send on it; and the input is enabled
\* only on a session with an open connection, and then never blocked by _streaming.  (That
\* the App knows each open connection is OpenIsKnown.)
InputTellsConnection ==
    AtRest /\ OnScreen =>
        /\ app.ws # None /\ app.active # None => ui.enabled
        /\ ui.enabled =>
            /\ ~app.streaming
            /\ \E w \in Workers : Alive(w) /\ worker[w].session = app.active

\* A message of the user has reached another session, so its connection has been open and
\* a worker that is cancelled closes it with a handshake.  (One that is cancelled while it
\* connects ends in its next step.)
MovedOn == \E w \in Workers : worker[w].session # ui.shown /\ server[w].phase # "new"

\* "Not connected to session." (client.py:330) is said to a user who is not connected: where
\* _send_message reads _ws, once everything has settled and again after the mounts, the
\* App knows the open connection of the session on the screen, if there is one.
OpenIsKnown ==
    MovedOn /\ OnScreen /\ (AtRest \/ app.pc = "mount") =>
        \A w \in Workers : Alive(w) /\ worker[w].session = ui.shown => app.ws # None

\* The frame that ends the turn the user waits for is still to come
Owed(w) ==
    \/ app.pc = "mount"
    \/ server[w].inbox # <<>>
    \/ server[w].turn # None /\ server[w].phase # "done"

\* README.md:20: the frames of a turn are chunks and, at the end, a DoneFrame.  So
\* between two messages the client waits for its turn as long as the turn is to send a
\* frame, and no longer.
TurnEndsWithDone ==
    OnScreen /\ app.pc = "idle" /\ queue = <<>> =>
        \A w \in Workers : app.ws = w /\ Alive(w) =>
            (app.streaming <=> Owed(w) \/ server[w].left > 0)
-----------------------------------------------------------------------------
(* Invariants of ChatClientProofs                                          *)

\* The handlers' awaits have what they read when they resume, a message of a worker
\* names its session, and nothing is under way on a connection that is not made yet.
Shape ==
    /\ \A i \in DOMAIN queue :
        /\ queue[i].kind \notin Presses \/ queue[i].kind = "select"
               => queue[i].session \in Sessions
        /\ queue[i].kind = "chunk" => queue[i].turn \in Turns
    /\ app.pc \in {"get", "delete"} => app.active \in Sessions
    /\ app.pc = "mount" => ui.bubbles # <<>>
    /\ \A w \in Workers :
        /\ worker[w].pc # "new" => worker[w].session \in Sessions
        /\ worker[w].pc \in {"new", "connecting"} => server[w].inbox = <<>> /\ server[w].turn = None

Live(w) == worker[w].pc \in {"connecting", "open", "closed"}

\* A worker that is not cancelled serves the session on the screen
LiveWorkerShown == \A w \in Workers : Live(w) => ui.shown \in {worker[w].session, None}

IInv == TypeOK /\ Shape /\ LiveWorkerShown

\* A message keeps the session it was sent on, wherever it or its answer is: in the
\* server, in the queue, in the history and on the screen.
OwnTurns ==
    /\ \A t \in fresh : home[t] = None
    /\ app.pc = "mount" => home[Last(ui.bubbles).turn] = None /\ Last(ui.bubbles).turn \notin fresh
    /\ \A w \in Workers :
        /\ \A i \in DOMAIN server[w].inbox : home[server[w].inbox[i]] = worker[w].session
        /\ server[w].turn # None => home[server[w].turn] = worker[w].session
    /\ \A i \in DOMAIN queue : queue[i].kind = "chunk" => home[queue[i].turn] = queue[i].session
    /\ \A s \in Sessions : \A i \in DOMAIN answered[s] : home[answered[s][i]] = s
    /\ \A t \in app.text : home[t] \in Sessions /\ app.active \in {home[t], None}
    /\ \A i \in DOMAIN ui.bubbles : \A t \in ui.bubbles[i].text : home[t] \in Sessions

ShownListed == ui.shown # None => item[ui.shown] # "deleted"

OwnInv == IInv /\ OwnTurns /\ ShownListed /\ OnlyOwnAnswers

-----------------------------------------------------------------------------

\* The queue q holds a message of one of these kinds of session s
Has(q, kinds, s) == \E i \in DOMAIN q : q[i].kind \in kinds /\ q[i].session = s

\* Behind each message of one of these kinds of session s is one of kind next
Followed(q, kinds, s, next) ==
    \A i \in DOMAIN q :
        q[i].kind \in kinds /\ q[i].session = s =>
            \E j \in DOMAIN q : i < j /\ q[j].kind = next /\ q[j].session = s

\* At most one worker is not cancelled, though others are still closing; while the App
\* knows an open connection, the news of it is behind those of earlier disconnections.
OneAtATime ==
    /\ \A v, w \in Workers : Live(v) /\ Live(w) => v = w
    /\ \A w \in Workers : app.ws = w =>
        /\ worker[w].pc \in {"open", "closed", "cancelled"}
        /\ worker[w].pc = "open" =>
            Followed(queue, {"disconnected"}, worker[w].session, "connected")

\* What is still to come for the session on the screen, and will set the input right
InputFollows ==
    /\ app.active = None => ~ui.enabled
    /\ app.pc = "get" => ~app.streaming
    /\ OnScreen /\ ui.shown # None /\ app.pc # "crashed" =>
        /\ \A w \in Workers :
            /\ app.ws = w /\ worker[w].pc = "open" =>
                Owed(w) \/ ui.enabled \/ Has(queue, {"connected", "done", "error"}, ui.shown)
            /\ worker[w].pc \in {"connecting", "open"} /\ app.streaming =>
                Owed(w) \/ Has(queue, {"done", "error", "disconnected"}, ui.shown)
        /\ (\A w \in Workers : ~Live(w)) =>
            /\ ui.enabled => Has(queue, {"disconnected"}, ui.shown)
            /\ Followed(queue, {"connected", "done", "error"}, ui.shown, "disconnected")

InputInv == IInv /\ ShownListed /\ OneAtATime /\ InputFollows

-----------------------------------------------------------------------------

Ends == {"done", "error", "disconnected"}

\* At most one message of the queue q is of one of these kinds and of session s
Once(q, kinds, s) ==
    \A i, j \in DOMAIN q :
        /\ q[i].kind \in kinds /\ q[i].session = s
        /\ q[j].kind \in kinds /\ q[j].session = s
        => i = j

\* No chunk of session s is behind a frame that ends a turn of it
ChunksFirst(q, s) ==
    \A i, j \in DOMAIN q :
        /\ q[i].kind = "chunk" /\ q[i].session = s
        /\ q[j].kind \in Ends /\ q[j].session = s
        => i < j

\* Every message of a session comes from a worker of it that has connected or failed to
FromWorkers ==
    \A i \in DOMAIN queue : queue[i].kind \notin Presses =>
        \E w \in Workers :
            /\ worker[w].pc \notin {"new", "connecting"}
            /\ worker[w].session = queue[i].session

\* The server works on this connection's message
InTurn(w) == server[w].turn # None /\ server[w].phase # "done"

IsLast(t) == ui.bubbles # <<>> /\ Last(ui.bubbles).turn = t

\* The message under way on the connection of session s, which is on the screen, is the
\* one of the last bubble, in one place at a time until the frame that ends its turn.
OneUnderWay(w, s) ==
    /\ app.pc = "mount" => server[w].inbox = <<>> /\ ~InTurn(w) /\ ~Has(queue, Ends, s)
    /\ server[w].inbox # <<>> =>
        /\ Len(server[w].inbox) = 1 /\ IsLast(Head(server[w].inbox))
        /\ app.streaming /\ ~InTurn(w) /\ ~Has(queue, Ends, s)
    /\ InTurn(w) => IsLast(server[w].turn) /\ app.streaming /\ ~Has(queue, Ends, s)
    /\ Has(queue, Ends, s) => app.streaming
    /\ Once(queue, Ends, s)

LastBubbleOnly(s) ==
    /\ \A i \in DOMAIN ui.bubbles : ui.bubbles[i].text \subseteq {ui.bubbles[i].turn}
    /\ \A t \in app.text : IsLast(t)
    /\ \A i \in DOMAIN queue : queue[i].kind = "chunk" /\ queue[i].session = s =>
        IsLast(queue[i].turn) /\ app.streaming
    /\ ChunksFirst(queue, s)
    /\ \A w \in Workers : worker[w].pc = "open" => OneUnderWay(w, s)

TurnByTurn ==
    /\ FromWorkers
    /\ \A w \in Workers : worker[w].pc = "new" => worker[w].session = None
    /\ \A w \in Workers : server[w].left = 0
    /\ app.pc = "mount" => app.streaming
    /\ app.pc = "get" => app.text = {}
    /\ OneConnectionEach /\ OnScreen /\ ui.shown # None => LastBubbleOnly(ui.shown)

BubbleInv == OwnInv /\ TurnByTurn
=============================================================================
