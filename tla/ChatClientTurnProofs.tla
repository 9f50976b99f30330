------------------------ MODULE ChatClientTurnProofs ------------------------
(***************************************************************************)
(* Proofs about what the user of ChatClient can rely on turn by turn: the  *)
(* input that tells the connection's state and the bubble an answer is     *)
(* written to.                                                             *)
(***************************************************************************)
EXTENDS ChatClientProofs

-----------------------------------------------------------------------------
(* What waits in the queue                                                 *)

\* Taking a message of another kind or session leaves the others waiting.
LEMMA HasTaken ==
    ASSUME NEW q \in Seq(Message), q # <<>>, NEW kinds, NEW s, Has(q, kinds, s),
           ~(Head(q).kind \in kinds /\ Head(q).session = s)
    PROVE  Has(Tail(q), kinds, s)
<1>1. PICK i \in DOMAIN q : q[i].kind \in kinds /\ q[i].session = s
  BY DEF Has
<1>2. i \in 2..Len(q) /\ Len(q) \in Nat
  BY <1>1, TakenFirst
<1>3. i - 1 \in DOMAIN Tail(q) /\ Tail(q)[i - 1] = q[i]
  BY <1>2, TakenFirst
<1> QED
  BY <1>1, <1>3 DEF Has

\* Behind the messages left is still what was behind them.
LEMMA FollowedTaken ==
    ASSUME NEW q \in Seq(Message), q # <<>>, NEW kinds, NEW s, NEW next,
           Followed(q, kinds, s, next)
    PROVE  Followed(Tail(q), kinds, s, next)
<1>1. SUFFICES ASSUME NEW i \in DOMAIN Tail(q),
                      Tail(q)[i].kind \in kinds, Tail(q)[i].session = s
               PROVE  \E j \in DOMAIN Tail(q) :
                        i < j /\ Tail(q)[j].kind = next /\ Tail(q)[j].session = s
  BY DEF Followed
<1>2. i \in Nat /\ i + 1 \in DOMAIN q /\ Tail(q)[i] = q[i + 1]
  BY <1>1, TakenFirst
<1>3. PICK j \in DOMAIN q : i + 1 < j /\ q[j].kind = next /\ q[j].session = s
  BY <1>1, <1>2 DEF Followed
<1>4. j - 1 \in DOMAIN Tail(q) /\ Tail(q)[j - 1] = q[j] /\ i < j - 1
  BY <1>2, <1>3, TakenFirst
<1> QED
  BY <1>3, <1>4

\* Behind the message taken is what had to be.
LEMMA FollowedHead ==
    ASSUME NEW q \in Seq(Message), q # <<>>, NEW kinds, NEW s, NEW next,
           Followed(q, kinds, s, next), Head(q).kind \in kinds, Head(q).session = s
    PROVE  Has(Tail(q), {next}, s)
<1>1. 1 \in DOMAIN q /\ Head(q) = q[1]
  BY TakenFirst
<1>2. PICK j \in DOMAIN q : 1 < j /\ q[j].kind = next /\ q[j].session = s
  BY <1>1 DEF Followed
<1>3. j - 1 \in DOMAIN Tail(q) /\ Tail(q)[j - 1] = q[j]
  BY <1>2, TakenFirst
<1> QED
  BY <1>2, <1>3 DEF Has

\* A message put into the queue waits there, with those before it.
LEMMA HasPosted ==
    ASSUME NEW q \in Seq(Message), NEW m \in Message, NEW kinds, NEW s,
           Has(q, kinds, s) \/ (m.kind \in kinds /\ m.session = s)
    PROVE  Has(Append(q, m), kinds, s)
BY PostedOne DEF Has

\* A message of another kind or session needs nothing behind it.
LEMMA FollowedPosted ==
    ASSUME NEW q \in Seq(Message), NEW m \in Message, NEW kinds, NEW s, NEW next,
           Followed(q, kinds, s, next), ~(m.kind \in kinds /\ m.session = s)
    PROVE  Followed(Append(q, m), kinds, s, next)
<1>1. SUFFICES ASSUME NEW i \in DOMAIN Append(q, m),
                      Append(q, m)[i].kind \in kinds, Append(q, m)[i].session = s
               PROVE  \E j \in DOMAIN Append(q, m) :
                        i < j /\ Append(q, m)[j].kind = next /\ Append(q, m)[j].session = s
  BY DEF Followed
<1>2. i \in DOMAIN q /\ Append(q, m)[i] = q[i]
  BY <1>1, PostedOne
<1>3. PICK j \in DOMAIN q : i < j /\ q[j].kind = next /\ q[j].session = s
  BY <1>1, <1>2 DEF Followed
<1>4. j \in DOMAIN Append(q, m) /\ Append(q, m)[j] = q[j]
  BY <1>3, PostedOne
<1> QED
  BY <1>3, <1>4

\* A message put into the queue is behind all others.
LEMMA PostedBehind ==
    ASSUME NEW q \in Seq(Message), NEW m \in Message, NEW kinds, m.kind \notin kinds
    PROVE  Followed(Append(q, m), kinds, m.session, m.kind)
<1>1. SUFFICES ASSUME NEW i \in DOMAIN Append(q, m), Append(q, m)[i].kind \in kinds
               PROVE  \E j \in DOMAIN Append(q, m) :
                        /\ i < j /\ Append(q, m)[j].kind = m.kind
                        /\ Append(q, m)[j].session = m.session
  BY DEF Followed
<1>2. Len(q) + 1 \in DOMAIN Append(q, m) /\ Append(q, m)[Len(q) + 1] = m
  BY PostedOne
<1>3. i < Len(q) + 1
  BY <1>1, <1>2, PostedOne
<1> QED
  BY <1>2, <1>3

-----------------------------------------------------------------------------
(* One connection at a time                                                *)

\* Selected starts one worker and leaves no other that is not cancelled.
LEMMA OneStarted ==
    ASSUME TypeOK, Selected
    PROVE  \E v \in Workers :
            /\ worker[v].pc = "new" /\ worker'[v].pc = "connecting"
            /\ worker'[v].session = app.active
            /\ \A u \in Workers : Live(u)' => u = v
<1>1. PICK v \in Workers :
        /\ worker[v].pc = "new"
        /\ worker' = [Cancelled EXCEPT ![v] = [pc |-> "connecting", session |-> app.active]]
  BY DEF Selected
<1>2. worker'[v] = [pc |-> "connecting", session |-> app.active]
  BY <1>1 DEF Cancelled
<1>3. \A u \in Workers \ {v} :
        worker'[u] = IF worker[u].pc \in {"connecting", "open", "closed"}
                     THEN [worker[u] EXCEPT !.pc = "cancelled"] ELSE worker[u]
  BY <1>1 DEF Cancelled
<1>4. \A u \in Workers \ {v} : worker'[u].pc \notin {"connecting", "open", "closed"}
  BY <1>3 DEF TypeOK
<1> QED
  BY <1>1, <1>2, <1>4 DEF Live

\* A worker that is not cancelled ends in its own step.
LEMMA LiveEnds ==
    ASSUME TypeOK', WorkerMoves, NEW w \in Workers, Live(w), ~Live(w)'
    PROVE  Selected \/ WorkerEnds(w)
<1>1. worker'[w].pc \in {"new", "connecting", "open", "closed", "cancelled", "ended"}
  BY DEF TypeOK
<1> QED
  BY <1>1 DEF Live, WorkerMoves

\* A connection that was made stays so until its worker ends.
LEMMA KnownKept ==
    ASSUME TypeOK', WorkerMoves, NEW w \in Workers,
           worker[w].pc \in {"open", "closed", "cancelled"}, ~WorkerEnds(w)
    PROVE  worker'[w].pc \in {"open", "closed", "cancelled"}
<1>1. worker'[w].pc \in {"new", "connecting", "open", "closed", "cancelled", "ended"}
  BY DEF TypeOK
<1> QED
  BY <1>1 DEF WorkerMoves

\* _ws is what it was, nothing, or the connection just made.
LEMMA WsStep ==
    ASSUME TypeOK, [Next]_vars
    PROVE  \/ app'.ws = None
           \/ app'.ws = app.ws /\ \A w \in Workers : ~WorkerEnds(w) /\ ~WorkerConnects(w)
           \/ \E w \in Workers : WorkerConnects(w) /\ app'.ws = w
<1>1. ASSUME NEW w \in Workers, WorkerConnects(w) PROVE app'.ws = w
  BY <1>1 DEF WorkerConnects, TypeOK
<1>2. ASSUME NEW w \in Workers, WorkerEnds(w) PROVE app'.ws = None
  BY <1>2 DEF WorkerEnds, TypeOK
<1>3. CASE \A w \in Workers : ~WorkerEnds(w) /\ ~WorkerConnects(w)
  BY <1>3 DEF Next, vars, UserSubmits, UserClicks, Press, AppNext, HandleSelect, Selecting,
     Selected, SelectFails, HandleNew, Created, HandleDelete, Deleted, DeleteFails,
     SubmitIgnored, SubmitAccepted, FrameSent, FrameNotSent, HandleDropped, HandleConnected,
     HandleDisconnected, HandleChunk, HandleEnd, WorkerNext, SocketCloses, ServerNext,
     ServerReceives, ServerChunk, ServerDone, ServerDoneAgain, ServerFails, ServerTurnEnds,
     ServerStep, TypeOK
<1> QED
  BY <1>1, <1>2, <1>3

\* What a step does to the queue, by whose step it is.
LEMMA QueueCases ==
    ASSUME IInv, [Next]_vars
    PROVE  \/ queue' = queue
           \/ queue # <<>> /\ queue' = Tail(queue)
           \/ \E m \in Message : m.kind \in Presses /\ queue' = Append(queue, m)
           \/ \E w \in Workers, m \in Message :
                /\ WorkerConnects(w)
                /\ m.kind = "connected" /\ m.session = worker[w].session
                /\ queue' = Append(queue, m)
           \/ \E w \in Workers, m, n \in Message :
                /\ WorkerEnds(w)
                /\ m.kind = "error" /\ m.session = worker[w].session
                /\ n.kind = "disconnected" /\ n.session = worker[w].session
                /\ \/ queue' = Append(queue, n)
                   \/ worker[w].pc # "cancelled" /\ queue' = Append(Append(queue, m), n)
           \/ \E w \in Workers, m \in Message :
                /\ ServerNext(w)
                /\ m.kind \in {"chunk", "done", "error"} /\ m.session = worker[w].session
                /\ m.kind = "chunk" => ServerChunk(w) /\ m.turn = server[w].turn
                /\ queue' = Append(queue, m)
<1> USE KindFacts DEF IInv
<1>0. queue \in Seq(Message)
  BY DEF TypeOK
<1>m. ASSUME NEW kind \in Kinds, NEW s \in Sessions \cup {None}, NEW t \in Turns \cup {None}
      PROVE  /\ Msg(kind, s, t) \in Message
             /\ Msg(kind, s, t).kind = kind /\ Msg(kind, s, t).session = s
             /\ Msg(kind, s, t).turn = t
             /\ queue \o <<Msg(kind, s, t)>> = Append(queue, Msg(kind, s, t))
  <2>1. Msg(kind, s, t) \in Message
    BY DEF Msg, Message
  <2> QED
    BY <1>0, <2>1, PostedOne DEF Msg
<1>1. ASSUME NEW kind \in Presses, NEW s \in Sessions \cup {None}, Press(kind, s)
      PROVE  \E m \in Message : m.kind \in Presses /\ queue' = Append(queue, m)
  BY <1>1, <1>m DEF Press
<1>2. CASE UserSubmits \/ UserClicks
  BY <1>1, <1>2 DEF UserSubmits, UserClicks
<1>3. CASE AppNext
  BY <1>3 DEF AppNext, HandleSelect, Selected, SelectFails, HandleNew, Created, HandleDelete,
              Deleted, DeleteFails, SubmitIgnored, SubmitAccepted, FrameSent, FrameNotSent,
              HandleDropped, HandleConnected, HandleDisconnected, HandleChunk, HandleEnd,
              TakesActive, Takes
<1>4. ASSUME NEW w \in Workers, WorkerConnects(w)
      PROVE  \E m \in Message : /\ m.kind = "connected" /\ m.session = worker[w].session
                                /\ queue' = Append(queue, m)
  <2>1. worker[w].session \in Sessions
    BY <1>4 DEF WorkerConnects, Shape
  <2> QED
    BY <1>4, <1>m, <2>1 DEF WorkerConnects, Post
<1>5. ASSUME NEW w \in Workers, SocketCloses(w) PROVE queue' = queue
  BY <1>5 DEF SocketCloses
<1>6. ASSUME NEW w \in Workers, WorkerEnds(w)
      PROVE  \E m, n \in Message :
                /\ m.kind = "error" /\ m.session = worker[w].session
                /\ n.kind = "disconnected" /\ n.session = worker[w].session
                /\ \/ queue' = Append(queue, n)
                   \/ worker[w].pc # "cancelled" /\ queue' = Append(Append(queue, m), n)
  <2> DEFINE m == Msg("error", worker[w].session, None)
  <2> DEFINE n == Msg("disconnected", worker[w].session, None)
  <2>1. worker[w].session \in Sessions
    BY <1>6 DEF WorkerEnds, Shape
  <2>2. /\ m \in Message /\ m.kind = "error" /\ m.session = worker[w].session
        /\ n \in Message /\ n.kind = "disconnected" /\ n.session = worker[w].session
    BY <1>m, <2>1
  <2>3. queue' = queue \o <<n>> \/ (worker[w].pc # "cancelled" /\ queue' = queue \o <<m, n>>)
    BY <1>6 DEF WorkerEnds, Post
  <2> HIDE DEF m, n
  <2>4. queue \o <<n>> = Append(queue, n) /\ queue \o <<m, n>> = Append(Append(queue, m), n)
    BY <1>0, <2>2, PostedOne, PostedTwo
  <2> QED
    BY <2>2, <2>3, <2>4
<1>7. ASSUME NEW w \in Workers, ServerNext(w)
      PROVE  \/ queue' = queue
             \/ \E m \in Message :
                    /\ m.kind \in {"chunk", "done", "error"} /\ m.session = worker[w].session
                    /\ m.kind = "chunk" => ServerChunk(w) /\ m.turn = server[w].turn
                    /\ queue' = Append(queue, m)
  <2>1. worker[w].session \in Sessions /\ server[w].turn \in Turns \cup {None}
    BY <1>7 DEF ServerNext, ServerReceives, ServerChunk, ServerDone, ServerDoneAgain,
                ServerFails, ServerTurnEnds, ServerStep, Alive, Shape, TypeOK
  <2>2. ASSUME NEW kind \in {"chunk", "done", "error"}, NEW t \in Turns \cup {None},
               Emit(w, kind, t), kind = "chunk" => ServerChunk(w) /\ t = server[w].turn
        PROVE  \E m \in Message :
                    /\ m.kind \in {"chunk", "done", "error"} /\ m.session = worker[w].session
                    /\ m.kind = "chunk" => ServerChunk(w) /\ m.turn = server[w].turn
                    /\ queue' = Append(queue, m)
    BY <1>m, <2>1, <2>2 DEF Emit, Post
  <2>3. CASE ServerChunk(w)
    BY <2>1, <2>2, <2>3 DEF ServerChunk
  <2>4. CASE ServerReceives(w) \/ ServerFails(w) \/ ServerTurnEnds(w)
    BY <2>2, <2>4 DEF ServerReceives, ServerFails, ServerTurnEnds
  <2>5. CASE ServerDone(w) \/ ServerDoneAgain(w)
    BY <2>1, <2>2, <2>5 DEF ServerDone, ServerDoneAgain
  <2> QED
    BY <1>7, <2>3, <2>4, <2>5 DEF ServerNext
<1>8. CASE UNCHANGED vars
  BY <1>8 DEF vars
<1> QED
  BY <1>2, <1>3, <1>4, <1>5, <1>6, <1>7, <1>8 DEF Next, WorkerNext

\* A step keeps one worker that is not cancelled, and while the App knows a connection, a
\* disconnection of its session that is still in the queue is before that connection.
LEMMA OneStep ==
    ASSUME IInv, OneAtATime, [Next]_vars PROVE OneAtATime'
<1> USE DEF IInv
<1>0. WorkerMoves /\ queue \in Seq(Message) /\ TypeOK'
  BY WorkerStep, TypeStep DEF TypeOK
<1>1. ASSUME NEW v \in Workers, NEW w \in Workers, Live(v)', Live(w)' PROVE v = w
  <2>1. CASE Selected
    BY <1>1, <2>1, OneStarted
  <2>2. CASE ~Selected
    BY <1>0, <1>1, <2>2 DEF WorkerMoves, Live, OneAtATime
  <2> QED
    BY <2>1, <2>2
<1>2. ASSUME NEW w \in Workers, app'.ws = w, ~WorkerConnects(w)
      PROVE  app.ws = w /\ \A v \in Workers : ~WorkerEnds(v)
  <2>1. w # None
    BY NoneAssumption
  <2>2. ASSUME NEW v \in Workers, WorkerConnects(v) PROVE app'.ws = v
    BY <2>2 DEF WorkerConnects, TypeOK
  <2> QED
    BY <1>2, <2>1, <2>2, WsStep
<1>3. ASSUME NEW w \in Workers, app'.ws = w
      PROVE  worker'[w].pc \in {"open", "closed", "cancelled"}
  <2>1. CASE WorkerConnects(w)
    BY <1>0, <2>1 DEF WorkerConnects, TypeOK
  <2>2. CASE ~WorkerConnects(w)
    <3>1. worker[w].pc \in {"open", "closed", "cancelled"} /\ ~WorkerEnds(w)
      BY <1>2, <1>3, <2>2 DEF OneAtATime
    <3> QED
      BY <1>0, <3>1, KnownKept
  <2> QED
    BY <2>1, <2>2
<1>4. ASSUME NEW w \in Workers, app'.ws = w, worker'[w].pc = "open"
      PROVE  Followed(queue', {"disconnected"}, worker'[w].session, "connected")
  <2> DEFINE s == worker[w].session
             F(q) == Followed(q, {"disconnected"}, s, "connected")
  <2>1. worker[w].pc \in {"connecting", "open"} /\ worker'[w].session = s
    BY <1>0, <1>4 DEF WorkerMoves
  <2>2. CASE WorkerConnects(w)
    <3>1. PICK m \in Message : m.kind = "connected" /\ m.session = s /\ queue' = Append(queue, m)
      <4>1. Msg("connected", s, None) \in Message /\ Msg("connected", s, None).kind = "connected"
            /\ Msg("connected", s, None).session = s
        BY KindFacts DEF Msg, Message, TypeOK
      <4> QED
        BY <1>0, <2>2, <4>1, PostedOne DEF WorkerConnects, Post
    <3> QED
      BY <1>0, <2>1, <3>1, PostedBehind
  <2>3. CASE ~WorkerConnects(w)
    <3>1. app.ws = w /\ \A v \in Workers : ~WorkerEnds(v)
      BY <1>2, <1>4, <2>3
    <3>2. F(queue)
      BY <1>0, <1>4, <2>3, <3>1 DEF WorkerMoves, OneAtATime
    <3> HIDE DEF s
    <3>3. CASE queue' = queue
      BY <2>1, <3>2, <3>3
    <3>4. CASE queue # <<>> /\ queue' = Tail(queue)
      BY <1>0, <2>1, <3>2, <3>4, FollowedTaken
    <3>5. ASSUME NEW m \in Message, m.kind # "disconnected", queue' = Append(queue, m)
          PROVE  F(queue')
      BY <1>0, <3>2, <3>5, FollowedPosted
    <3> QED
      BY <2>1, <3>1, <3>3, <3>4, <3>5, QueueCases, KindFacts DEF Presses
  <2> QED
    BY <2>2, <2>3
<1> QED
  BY <1>1, <1>3, <1>4 DEF OneAtATime

-----------------------------------------------------------------------------
(* The input tells the connection                                          *)

\* The input is only enabled while a session is active, and a selection starts with no
\* answer awaited.
LEMMA InputActive ==
    ASSUME IInv, InputFollows, [Next]_vars
    PROVE  /\ app'.active = None => ~ui'.enabled
           /\ app'.pc = "get" => ~app'.streaming
<1> USE DEF IInv
<1>1. CASE HandleConnected \/ HandleEnd
  <2>1. queue # <<>> /\ Head(queue).session = app.active
        /\ Head(queue).kind \in {"connected", "done", "error"} /\ app.pc = "idle"
    BY <1>1 DEF HandleConnected, HandleEnd, TakesActive, Takes
  <2>2. 1 \in DOMAIN queue /\ Head(queue) = queue[1]
    BY <2>1, TakenFirst DEF TypeOK
  <2>3. app.active \in Sessions
    BY <2>1, <2>2, KindFacts DEF Shape, Presses
  <2>4. app'.active = app.active /\ app'.pc = "idle"
    BY <1>1, <2>1 DEF HandleConnected, HandleEnd, TypeOK
  <2> QED
    BY <2>3, <2>4, NoneAssumption
<1>2. CASE AppNext /\ ~(HandleConnected \/ HandleEnd)
  <2>0. ASSUME NEW x \in Sessions, app' = Selecting(x)
        PROVE  app'.active # None /\ ~app'.streaming
    BY <2>0, NoneAssumption DEF Selecting, TypeOK
  <2>1. CASE HandleSelect
    <3>1. queue # <<>> /\ Head(queue).kind = "select"
      BY <2>1 DEF HandleSelect, Takes
    <3>2. 1 \in DOMAIN queue /\ Head(queue) = queue[1]
      BY <3>1, TakenFirst DEF TypeOK
    <3>3. Head(queue).session \in Sessions
      BY <3>1, <3>2 DEF Shape
    <3>4. (app' = app /\ ui' = ui) \/ app' = Selecting(Head(queue).session)
      BY <2>1 DEF HandleSelect
    <3> QED
      BY <2>0, <3>3, <3>4 DEF InputFollows
  <2>2. CASE Created
    <3>1. ui' = ui /\ ((\E x \in Sessions : app' = Selecting(x))
                       \/ (app'.active = app.active /\ app'.pc = "idle"))
      BY <2>2 DEF Created, TypeOK
    <3> QED
      BY <2>0, <3>1 DEF InputFollows
  <2>3. CASE HandleDelete \/ Deleted
    BY <2>3 DEF InputFollows, HandleDelete, Deleted, TypeOK
  <2>4. CASE ~(HandleSelect \/ Created \/ HandleDelete \/ Deleted)
    <3>1. app'.active = app.active /\ app'.pc # "get"
      BY <1>2, <2>4 DEF AppNext, Selected, SelectFails, HandleNew, DeleteFails, SubmitIgnored,
         SubmitAccepted, FrameSent, FrameNotSent, HandleDropped, HandleDisconnected,
         HandleChunk, TakesActive, Takes, TypeOK
    <3>2. ui'.enabled => ui.enabled
      BY <1>2, <2>4, BubbleStep DEF AppNext, Selected, SelectFails, HandleNew, DeleteFails,
         SubmitIgnored, SubmitAccepted, FrameSent, FrameNotSent, HandleDropped,
         HandleDisconnected, HandleChunk, TypeOK
    <3> QED
      BY <3>1, <3>2 DEF InputFollows
  <2> QED
    BY <1>2, <2>1, <2>2, <2>3, <2>4
<1>3. CASE ~AppNext
  <2>1. app'.active = app.active /\ app'.pc = app.pc /\ app'.streaming = app.streaming
        /\ ui'.enabled = ui.enabled
    BY <1>3 DEF Next, vars, UserSubmits, UserClicks, Press, WorkerNext, WorkerConnects,
       SocketCloses, WorkerEnds, ServerNext, ServerReceives, ServerChunk, ServerDone,
       ServerDoneAgain, ServerFails, ServerTurnEnds, ServerStep, TypeOK
  <2> QED
    BY <2>1 DEF InputFollows
<1> QED
  BY <1>1, <1>2, <1>3

\* What InputFollows says of the connection the App knows, of one a turn is awaited on, and of none,
\* when session s is on the screen.
OpenFollows(w, s) ==
    app.ws = w /\ worker[w].pc = "open" =>
        Owed(w) \/ ui.enabled \/ Has(queue, {"connected", "done", "error"}, s)

TurnFollows(w, s) ==
    worker[w].pc \in {"connecting", "open"} /\ app.streaming =>
        Owed(w) \/ Has(queue, {"done", "error", "disconnected"}, s)

NoneFollows(s) ==
    (\A w \in Workers : ~Live(w)) =>
        /\ ui.enabled => Has(queue, {"disconnected"}, s)
        /\ Followed(queue, {"connected", "done", "error"}, s, "disconnected")

ScreenFollows(s) ==
    /\ \A w \in Workers : OpenFollows(w, s) /\ TurnFollows(w, s)
    /\ NoneFollows(s)

\* A step in which the App takes no message, and which changes neither the screen nor the
\* connections, may post messages: what was to come still is.
LEMMA PostedFollows ==
    ASSUME IInv, NEW s \in Sessions, ScreenFollows(s),
           UNCHANGED <<worker, server>>, app'.ws = app.ws, app'.streaming = app.streaming,
           app.pc = "mount" => app'.pc = "mount", ui'.enabled = ui.enabled,
           \/ queue' = queue
           \/ \E m \in Message : m.kind \in Presses /\ queue' = Append(queue, m)
    PROVE  ScreenFollows(s)'
<1>0. queue \in Seq(Message)
  BY DEF IInv, TypeOK
<1>1. ASSUME NEW kinds, Has(queue, kinds, s) PROVE Has(queue', kinds, s)
  BY <1>0, <1>1, HasPosted
<1>2. Followed(queue, {"connected", "done", "error"}, s, "disconnected") =>
      Followed(queue', {"connected", "done", "error"}, s, "disconnected")
  BY <1>0, FollowedPosted DEF Presses
<1>3. \A w \in Workers : Owed(w) => Owed(w)'
  BY DEF Owed
<1> QED
  BY <1>1, <1>2, <1>3 DEF ScreenFollows, OpenFollows, TurnFollows, NoneFollows, Live

\* The App takes a message that is not of the session, or a press, or a chunk.
LEMMA DroppedFollows ==
    ASSUME IInv, NEW s \in Sessions, ScreenFollows(s),
           UNCHANGED <<worker, server>>, app'.ws = app.ws, app'.streaming = app.streaming,
           app.pc = "idle", ui'.enabled = ui.enabled,
           queue # <<>>, queue' = Tail(queue),
           ~(/\ Head(queue).kind \in {"connected", "disconnected", "done", "error"}
             /\ Head(queue).session = s)
    PROVE  ScreenFollows(s)'
<1>0. queue \in Seq(Message)
  BY DEF IInv, TypeOK
<1>1. ASSUME NEW kinds \in SUBSET {"connected", "disconnected", "done", "error"},
             Has(queue, kinds, s)
      PROVE  Has(queue', kinds, s)
  BY <1>0, <1>1, HasTaken
<1>2. Followed(queue, {"connected", "done", "error"}, s, "disconnected") =>
      Followed(queue', {"connected", "done", "error"}, s, "disconnected")
  BY <1>0, FollowedTaken
<1>3. \A w \in Workers : Owed(w) => Owed(w)'
  BY DEF Owed
<1> QED
  BY <1>1, <1>2, <1>3 DEF ScreenFollows, OpenFollows, TurnFollows, NoneFollows, Live

\* on_ws_connected, on_stream_done and on_stream_error enable the input; if there is no
\* connection any more, the disconnection is behind them in the queue.
LEMMA EnabledFollows ==
    ASSUME IInv, NEW s \in Sessions, ScreenFollows(s), app.active = s,
           HandleConnected \/ HandleEnd
    PROVE  ScreenFollows(s)'
<1> DEFINE kinds == {"connected", "done", "error"}
<1>0. /\ queue \in Seq(Message) /\ queue # <<>> /\ queue' = Tail(queue)
      /\ Head(queue).kind \in kinds /\ Head(queue).session = s
      /\ app.pc = "idle" /\ app'.ws = app.ws /\ ui'.enabled /\ UNCHANGED <<worker, server>>
  BY DEF IInv, HandleConnected, HandleEnd, TakesActive, Takes, TypeOK
<1>1. \A w \in Workers : Owed(w) => Owed(w)'
  BY <1>0 DEF Owed
<1>2. \A w \in Workers : OpenFollows(w, s)'
  BY <1>0 DEF ScreenFollows, OpenFollows
<1>3. \A w \in Workers : TurnFollows(w, s)'
  <2>1. CASE HandleEnd
    <3>1. ~app'.streaming
      BY <2>1 DEF HandleEnd, IInv, TypeOK
    <3> QED
      BY <3>1 DEF TurnFollows
  <2>2. CASE HandleConnected
    <3>1. app' = app /\ Head(queue).kind = "connected"
      BY <2>2 DEF HandleConnected, TakesActive, Takes
    <3>2. Has(queue, {"done", "error", "disconnected"}, s) =>
          Has(queue', {"done", "error", "disconnected"}, s)
      BY <1>0, <3>1, HasTaken
    <3> QED
      BY <1>0, <1>1, <3>1, <3>2 DEF ScreenFollows, TurnFollows
  <2> QED
    BY <2>1, <2>2
<1>4. NoneFollows(s)'
  <2>1. ASSUME \A w \in Workers : ~Live(w)'
        PROVE  Has(queue', {"disconnected"}, s) /\ Followed(queue', kinds, s, "disconnected")
    <3>1. Followed(queue, kinds, s, "disconnected")
      BY <1>0, <2>1 DEF ScreenFollows, NoneFollows, Live
    <3> HIDE DEF kinds
    <3> QED
      BY <1>0, <3>1, FollowedHead, FollowedTaken
  <2> QED
    BY <2>1 DEF NoneFollows
<1> QED
  BY <1>2, <1>3, <1>4 DEF ScreenFollows

\* on_ws_disconnected disables the input; if the session is connected again, what says
\* so is behind it in the queue.
LEMMA DisabledFollows ==
    ASSUME IInv, OneAtATime, NEW s \in Sessions, ScreenFollows(s), app.active = s,
           ui.shown = s, HandleDisconnected
    PROVE  ScreenFollows(s)'
<1>0. /\ queue \in Seq(Message) /\ queue # <<>> /\ queue' = Tail(queue)
      /\ Head(queue).kind = "disconnected" /\ Head(queue).session = s
      /\ app'.ws = app.ws /\ ~ui'.enabled /\ ~app'.streaming /\ UNCHANGED <<worker, server>>
  BY DEF IInv, HandleDisconnected, TakesActive, Takes, TypeOK
<1>1. ASSUME NEW w \in Workers, app'.ws = w, worker'[w].pc = "open"
      PROVE  Has(queue', {"connected", "done", "error"}, s)
  <2>1. worker[w].pc = "open" /\ app.ws = w
    BY <1>0, <1>1
  <2>2. worker[w].session = s
    BY <2>1, NoneAssumption DEF IInv, LiveWorkerShown, Live
  <2>3. Followed(queue, {"disconnected"}, s, "connected")
    BY <2>1, <2>2 DEF OneAtATime
  <2>4. Has(queue', {"connected"}, s)
    BY <1>0, <2>3, FollowedHead
  <2> QED
    BY <2>4 DEF Has
<1>2. \A w \in Workers : OpenFollows(w, s)' /\ TurnFollows(w, s)'
  BY <1>0, <1>1 DEF OpenFollows, TurnFollows
<1>3. NoneFollows(s)'
  BY <1>0, FollowedTaken DEF ScreenFollows, NoneFollows, Live
<1> QED
  BY <1>2, <1>3 DEF ScreenFollows

\* _send_message disables the input and owes an answer.
LEMMA SubmittedFollows ==
    ASSUME IInv, OneAtATime, NEW s \in Sessions, ScreenFollows(s),
           SubmitAccepted \/ FrameSent
    PROVE  ScreenFollows(s)'
<1>0. queue \in Seq(Message)
  BY DEF IInv, TypeOK
<1>1. CASE SubmitAccepted
  <2>1. app'.pc = "mount" /\ app'.ws = app.ws /\ UNCHANGED worker /\ ~ui'.enabled
        /\ queue # <<>> /\ queue' = Tail(queue)
    BY <1>1 DEF SubmitAccepted, Takes, IInv, TypeOK
  <2>2. \A w \in Workers : OpenFollows(w, s)' /\ TurnFollows(w, s)'
    BY <2>1 DEF ScreenFollows, OpenFollows, TurnFollows, Owed
  <2>3. NoneFollows(s)'
    BY <1>0, <2>1, FollowedTaken DEF ScreenFollows, NoneFollows, Live
  <2> QED
    BY <2>2, <2>3 DEF ScreenFollows
<1>2. CASE FrameSent
  <2>1. /\ app'.ws = app.ws /\ UNCHANGED <<worker, queue>>
        /\ app.ws \in Workers /\ worker[app.ws].pc = "open"
        /\ server'[app.ws].inbox = Append(server[app.ws].inbox, Last(ui.bubbles).turn)
    BY <1>2 DEF FrameSent, Alive, IInv, TypeOK
  <2>2. server'[app.ws].inbox # <<>>
    <3>1. Last(ui.bubbles).turn \in Turns
      BY <1>2, LastBubble DEF FrameSent, IInv, Shape
    <3>2. server[app.ws].inbox \in Seq(Turns)
      BY <2>1 DEF IInv, TypeOK
    <3> QED
      BY <2>1, <3>1, <3>2, AppendProperties
  <2>3. \A w \in Workers : Live(w) => w = app.ws
    BY <2>1 DEF OneAtATime, Live
  <2>4. \A w \in Workers : OpenFollows(w, s)' /\ TurnFollows(w, s)'
    BY <2>1, <2>2, <2>3 DEF OpenFollows, TurnFollows, Owed, Live
  <2>5. NoneFollows(s)'
    BY <2>1 DEF NoneFollows, Live
  <2> QED
    BY <2>4, <2>5 DEF ScreenFollows
<1> QED
  BY <1>1, <1>2

\* A worker that connects or ends says so; the frames before are still waiting.
LEMMA WorkerFollows ==
    ASSUME IInv, OneAtATime, OneAtATime', NEW s \in Sessions, ui.shown = s,
           ScreenFollows(s), [Next]_vars, NEW v \in Workers, WorkerNext(v)
    PROVE  ScreenFollows(s)'
<1>0. queue \in Seq(Message) /\ worker \in WorkerType
  BY DEF IInv, TypeOK, WorkerType
<1>1. UNCHANGED server /\ app'.pc = app.pc /\ app'.streaming = app.streaming
      /\ ui'.enabled = ui.enabled
  BY DEF WorkerNext, WorkerConnects, SocketCloses, WorkerEnds, IInv, TypeOK
<1>2. \A w \in Workers : Owed(w) => Owed(w)'
  BY <1>1 DEF Owed
<1>3. \A w \in Workers \ {v} : worker'[w] = worker[w]
  BY <1>0 DEF WorkerNext, WorkerConnects, SocketCloses, WorkerEnds, WorkerType
<1>4. \A w \in Workers : Live(w) => worker[w].session = s
  BY NoneAssumption DEF IInv, LiveWorkerShown
<1>5. CASE WorkerConnects(v)
  <2>1. worker[v].pc = "connecting" /\ worker'[v].pc = "open" /\ app'.ws = v
    BY <1>0, <1>5 DEF WorkerConnects, WorkerType, IInv, TypeOK
  <2>2. PICK m \in Message : m.kind = "connected" /\ m.session = s /\ queue' = Append(queue, m)
    <3>1. worker[v].session = s
      BY <1>4, <2>1 DEF Live
    <3>2. Msg("connected", s, None) \in Message /\ Msg("connected", s, None).kind = "connected"
          /\ Msg("connected", s, None).session = s
      BY KindFacts DEF Msg, Message
    <3> QED
      BY <1>0, <1>5, <3>1, <3>2, PostedOne DEF WorkerConnects, Post
  <2>3. \A w \in Workers : Live(w)' => w = v
    BY <2>1 DEF OneAtATime, Live
  <2>4. Has(queue', {"connected", "done", "error"}, s)
    BY <1>0, <2>2, HasPosted
  <2>5. TurnFollows(v, s)'
    <3>1. Has(queue, {"done", "error", "disconnected"}, s) =>
          Has(queue', {"done", "error", "disconnected"}, s)
      BY <1>0, <2>2, HasPosted
    <3> QED
      BY <1>1, <1>2, <2>1, <3>1 DEF ScreenFollows, TurnFollows
  <2> QED
    BY <2>1, <2>3, <2>4, <2>5 DEF ScreenFollows, OpenFollows, TurnFollows, NoneFollows, Live
<1>6. CASE SocketCloses(v)
  <2>1. worker'[v].pc = "closed"
    BY <1>0, <1>6 DEF SocketCloses, WorkerType
  <2>2. \A w \in Workers : Live(w)' => w = v
    BY <2>1 DEF OneAtATime, Live
  <2> QED
    BY <2>1, <2>2 DEF ScreenFollows, OpenFollows, TurnFollows, NoneFollows, Live
<1>7. CASE WorkerEnds(v)
  <2>1. worker'[v].pc = "ended" /\ worker[v].pc \in {"closed", "cancelled", "connecting"}
    BY <1>0, <1>7 DEF WorkerEnds, WorkerType
  <2>2. PICK m \in Message, n \in Message :
            /\ m.kind = "error" /\ m.session = worker[v].session
            /\ n.kind = "disconnected" /\ n.session = worker[v].session
            /\ \/ queue' = Append(queue, n)
               \/ worker[v].pc # "cancelled" /\ queue' = Append(Append(queue, m), n)
    <3> DEFINE m == Msg("error", worker[v].session, None)
               n == Msg("disconnected", worker[v].session, None)
    <3>1. /\ m \in Message /\ m.kind = "error" /\ m.session = worker[v].session
          /\ n \in Message /\ n.kind = "disconnected" /\ n.session = worker[v].session
      BY KindFacts DEF Msg, Message, IInv, TypeOK
    <3>2. queue' = queue \o <<n>> \/ (worker[v].pc # "cancelled" /\ queue' = queue \o <<m, n>>)
      BY <1>7 DEF WorkerEnds, Post
    <3> HIDE DEF m, n
    <3>3. queue \o <<n>> = Append(queue, n) /\ queue \o <<m, n>> = Append(Append(queue, m), n)
      BY <1>0, <3>1, PostedOne, PostedTwo
    <3> QED
      BY <3>1, <3>2, <3>3
  <2> DEFINE q == Append(queue, m)
  <2>3. q \in Seq(Message)
    BY <1>0, PostedOne
  <2>4. ASSUME NEW kinds, Has(queue, kinds, s) PROVE Has(queue', kinds, s)
    <3>1. Has(q, kinds, s)
      BY <1>0, <2>4, HasPosted
    <3> HIDE DEF q
    <3> QED
      BY <1>0, <2>2, <2>3, <2>4, <3>1, HasPosted DEF q
  <2>5. ASSUME NEW w \in Workers PROVE app'.ws # w
    BY <1>7, NoneAssumption DEF WorkerEnds, IInv, TypeOK
  <2>6. ASSUME NEW w \in Workers PROVE TurnFollows(w, s)'
    <3>1. w # v \/ worker'[w].pc = "ended"
      BY <2>1
    <3> QED
      BY <1>1, <1>2, <1>3, <2>4, <3>1 DEF ScreenFollows, TurnFollows
  <2>7. NoneFollows(s)'
    <3>1. SUFFICES ASSUME \A w \in Workers : ~Live(w)'
                   PROVE  /\ ui.enabled => Has(queue', {"disconnected"}, s)
                          /\ Followed(queue', {"connected", "done", "error"}, s, "disconnected")
      BY <1>1 DEF NoneFollows
    <3>2. CASE worker[v].pc # "cancelled"
      <4>1. worker[v].session = s
        BY <1>4, <2>1, <3>2 DEF Live
      <4>2. PICK p \in Seq(Message) : queue' = Append(p, n)
        BY <1>0, <2>2, <2>3
      <4> QED
        BY <2>2, <4>1, <4>2, HasPosted, PostedBehind
    <3>3. CASE worker[v].pc = "cancelled"
      <4>1. \A w \in Workers : ~Live(w)
        BY <1>3, <3>1, <3>3 DEF Live
      <4>2. queue' = Append(queue, n)
        BY <2>2, <3>3
      <4>3. Followed(queue, {"connected", "done", "error"}, s, "disconnected")
        BY <4>1 DEF ScreenFollows, NoneFollows
      <4>4. Followed(queue', {"connected", "done", "error"}, s, "disconnected")
        BY <1>0, <2>2, <4>2, <4>3, FollowedPosted
      <4> QED
        BY <2>4, <4>1, <4>4 DEF ScreenFollows, NoneFollows
    <3> QED
      BY <3>2, <3>3
  <2> QED
    BY <2>5, <2>6, <2>7 DEF ScreenFollows, OpenFollows
<1> QED
  BY <1>5, <1>6, <1>7 DEF WorkerNext

\* The server ends each turn it has begun, or refused, with a frame.
LEMMA ServerFollows ==
    ASSUME IInv, OneAtATime, "silent" \notin Faults, NEW s \in Sessions, ui.shown = s,
           ScreenFollows(s), NEW v \in Workers, ServerNext(v)
    PROVE  ScreenFollows(s)'
<1>0. queue \in Seq(Message) /\ server \in ServerType
  BY DEF IInv, TypeOK, ServerType
<1>1. UNCHANGED <<app, ui, worker>> /\ worker[v].pc = "open"
  BY DEF ServerNext, ServerReceives, ServerChunk, ServerDone, ServerDoneAgain, ServerFails,
         ServerTurnEnds, ServerStep, Alive
<1>2. worker[v].session = s
  BY <1>1, NoneAssumption DEF IInv, LiveWorkerShown, Live
<1>3. \A w \in Workers : Live(w) => w = v
  BY <1>1 DEF OneAtATime, Live
<1>m. ASSUME NEW kind \in {"chunk", "done", "error"}, NEW t \in Turns \cup {None},
             Emit(v, kind, t)
      PROVE  /\ \A kinds : Has(queue, kinds, s) => Has(queue', kinds, s)
             /\ \A kinds : kind \in kinds => Has(queue', kinds, s)
  <2> DEFINE m == Msg(kind, s, t)
  <2>1. m \in Message /\ m.kind = kind /\ m.session = s
    BY KindFacts DEF Msg, Message
  <2>2. queue' = Append(queue, m)
    BY <1>0, <1>2, <1>m, <2>1, PostedOne DEF Emit, Post
  <2> HIDE DEF m
  <2> QED
    BY <1>0, <2>1, <2>2, HasPosted
<1>4. /\ Owed(v) => Owed(v)' \/ Has(queue', {"done", "error"}, s)
      /\ \A kinds : Has(queue, kinds, s) => Has(queue', kinds, s)
  <2>0. server[v].turn \in Turns \cup {None}
    BY <1>0 DEF ServerType
  <2>1. CASE ServerReceives(v)
    <3>1. CASE server[v].turn = None
      <4> DEFINE rest == Tail(server[v].inbox)
                 t == Head(server[v].inbox)
      <4>1. server' = [server EXCEPT ![v] = [inbox |-> rest, turn |-> t, phase |-> "llm",
                                             left |-> 0]]
            /\ queue' = queue /\ server[v].inbox # <<>>
        BY <1>0, <2>1, <3>1 DEF ServerReceives, ServerType
      <4>2. t \in Turns
        BY <1>0, <4>1, HeadTailProperties DEF ServerType
      <4> HIDE DEF rest, t
      <4>3. server'[v].turn = t /\ server'[v].phase = "llm"
        BY <1>0, <4>1 DEF ServerType
      <4> QED
        BY <4>1, <4>2, <4>3, NoneAssumption DEF Owed
    <3>2. CASE server[v].turn # None
      <4>1. Emit(v, "error", None)
        BY <2>1, <3>2 DEF ServerReceives
      <4> QED
        BY <1>m, <4>1
    <3> QED
      BY <3>1, <3>2
  <2>2. CASE ServerChunk(v)
    <3>1. server'[v].turn = server[v].turn /\ server'[v].phase = "chunked"
          /\ server[v].turn # None /\ Emit(v, "chunk", server[v].turn)
      BY <1>0, <2>2 DEF ServerChunk, ServerType
    <3>2. Owed(v)'
      BY <3>1 DEF Owed
    <3> QED
      BY <1>m, <2>0, <3>1, <3>2
  <2>3. CASE ServerDone(v) \/ ServerDoneAgain(v)
    <3>1. Emit(v, "done", server[v].turn)
      BY <2>3 DEF ServerDone, ServerDoneAgain
    <3> QED
      BY <1>m, <2>0, <3>1
  <2>4. CASE ServerFails(v)
    <3>1. Emit(v, "error", None)
      BY <2>4 DEF ServerFails
    <3> QED
      BY <1>m, <3>1
  <2>5. CASE ServerTurnEnds(v)
    <3>1. server[v].phase = "done" /\ queue' = queue /\ server'[v].inbox = server[v].inbox
      BY <1>0, <2>5 DEF ServerTurnEnds, ServerType
    <3>2. Owed(v) => Owed(v)'
      BY <1>1, <3>1 DEF Owed
    <3> QED
      BY <3>1, <3>2
  <2> QED
    BY <2>1, <2>2, <2>3, <2>4, <2>5 DEF ServerNext
<1>5. Has(queue', {"done", "error"}, s) =>
        /\ Has(queue', {"connected", "done", "error"}, s)
        /\ Has(queue', {"done", "error", "disconnected"}, s)
  BY DEF Has
<1>6. ASSUME NEW w \in Workers PROVE OpenFollows(w, s)' /\ TurnFollows(w, s)'
  <2>1. CASE w = v
    BY <1>1, <1>4, <1>5, <2>1 DEF ScreenFollows, OpenFollows, TurnFollows
  <2>2. CASE w # v
    <3>1. worker'[w].pc \notin {"connecting", "open"}
      BY <1>1, <1>3, <2>2 DEF Live
    <3> QED
      BY <3>1 DEF OpenFollows, TurnFollows
  <2> QED
    BY <2>1, <2>2
<1>7. NoneFollows(s)'
  BY <1>1 DEF NoneFollows, Live
<1> QED
  BY <1>6, <1>7 DEF ScreenFollows

\* While the same session stays on the screen, what was to come still is.
LEMMA ScreenStays ==
    ASSUME IInv, OneAtATime, OneAtATime', "silent" \notin Faults, [Next]_vars,
           NEW s \in Sessions, ScreenFollows(s),
           app.active = s, ui.shown = s, app.pc # "get",
           app'.active = s, app'.pc \notin {"get", "crashed"},
           ~Selected, ~Deleted
    PROVE  ScreenFollows(s)'
<1>1. CASE UserSubmits \/ UserClicks
  <2>1. \E kind \in Presses, x \in Sessions \cup {None} : Press(kind, x)
    BY <1>1, KindFacts DEF UserSubmits, UserClicks
  <2>2. \E m \in Message : m.kind \in Presses /\ queue' = Append(queue, m)
    BY <2>1, KindFacts DEF Press, Msg, Message
  <2>3. UNCHANGED <<app, worker, server>> /\ ui'.enabled = ui.enabled
    BY <1>1 DEF UserSubmits, UserClicks, Press, IInv, TypeOK
  <2> QED
    BY <2>2, <2>3, PostedFollows
<1>2. CASE AppNext
  <2>1. CASE SelectFails \/ Created \/ DeleteFails \/ FrameNotSent
    <3>1. ~SelectFails /\ ~FrameNotSent
      BY DEF SelectFails, FrameNotSent, IInv, TypeOK
    <3>2. /\ UNCHANGED <<worker, server, queue, ui>>
          /\ app'.ws = app.ws /\ app'.streaming = app.streaming /\ app.pc # "mount"
      BY <2>1, <3>1 DEF Created, Selecting, DeleteFails, IInv, TypeOK
    <3> QED
      BY <3>2, PostedFollows
  <2>2. CASE HandleSelect \/ HandleNew \/ HandleDelete \/ SubmitIgnored \/ HandleDropped
             \/ HandleChunk
    <3>1. /\ app.pc = "idle" /\ queue # <<>> /\ queue' = Tail(queue)
          /\ ~(/\ Head(queue).kind \in {"connected", "disconnected", "done", "error"}
               /\ Head(queue).session = s)
      BY <2>2 DEF HandleSelect, HandleNew, HandleDelete, SubmitIgnored, HandleDropped,
                  HandleChunk, TakesActive, Takes
    <3>2. /\ UNCHANGED <<worker, server>> /\ ui'.enabled = ui.enabled
          /\ app'.ws = app.ws /\ app'.streaming = app.streaming
      BY <2>2 DEF HandleSelect, Selecting, HandleNew, HandleDelete, SubmitIgnored,
                  HandleDropped, HandleChunk, IInv, TypeOK
    <3> QED
      BY <3>1, <3>2, DroppedFollows
  <2>3. CASE HandleConnected \/ HandleEnd
    BY <2>3, EnabledFollows
  <2>4. CASE HandleDisconnected
    BY <2>4, DisabledFollows
  <2>5. CASE SubmitAccepted \/ FrameSent
    BY <2>5, SubmittedFollows
  <2> QED
    BY <1>2, <2>1, <2>2, <2>3, <2>4, <2>5 DEF AppNext
<1>3. ASSUME NEW v \in Workers, WorkerNext(v) PROVE ScreenFollows(s)'
  BY <1>3, WorkerFollows
<1>4. ASSUME NEW v \in Workers, ServerNext(v) PROVE ScreenFollows(s)'
  BY <1>4, ServerFollows
<1>5. CASE UNCHANGED vars
  <2>1. UNCHANGED <<worker, server, queue, ui, app>>
    BY <1>5 DEF vars
  <2> QED
    BY <2>1, PostedFollows
<1> QED
  BY <1>1, <1>2, <1>3, <1>4, <1>5 DEF Next

\* What will set the input right stays on its way in every step.
LEMMA InputStep ==
    ASSUME InputInv, "get" \notin Faults, "silent" \notin Faults, [Next]_vars
    PROVE  InputInv'
<1> USE DEF InputInv
<1>1. IInv' /\ ShownListed' /\ OneAtATime'
  BY TypeStep, ShapeStep, LiveStep, ListedStep, OneStep DEF IInv
<1>2. ASSUME NEW s \in Sessions, ui'.shown = s, OnScreen', app'.pc # "crashed"
      PROVE  ScreenFollows(s)'
  <2>2. CASE Selected /\ ui'.shown = app.active
    <3>1. app'.streaming = app.streaming /\ app.pc = "get"
      BY <2>2 DEF Selected, IInv, TypeOK
    <3>2. ~app'.streaming
      BY <3>1 DEF InputFollows
    <3>3. PICK v \in Workers : worker'[v].pc = "connecting" /\ \A u \in Workers : Live(u)' => u = v
      BY <2>2, OneStarted DEF IInv
    <3> QED
      BY <3>2, <3>3 DEF ScreenFollows, OpenFollows, TurnFollows, NoneFollows, Live
  <2>3. CASE Deleted
    BY <1>2, <2>3, NoneAssumption DEF Deleted, IInv, TypeOK
  <2>4. CASE /\ ~Selected /\ ~Deleted
             /\ OnScreen /\ ui'.shown = ui.shown /\ app'.active = app.active
    <3>1. app.pc # "crashed"
      <4>1. UNCHANGED vars => app' = app
        BY DEF vars
      <4> QED
        BY <1>2, <4>1 DEF Next
    <3>2. ui.shown = s /\ s # None
      BY <1>2, <2>4, NoneAssumption
    <3>3. ScreenFollows(s)
      BY <2>4, <3>1, <3>2
         DEF InputFollows, ScreenFollows, OpenFollows, TurnFollows, NoneFollows
    <3> QED
      BY <1>1, <1>2, <2>4, <3>2, <3>3, ScreenStays DEF OnScreen
  <2> QED
    BY <1>2, <2>2, <2>3, <2>4, ScreenKept
<1>3. InputFollows'
  <2>1. ui'.shown \in Sessions \cup {None}
    BY <1>1 DEF IInv, TypeOK
  <2> QED
    BY <1>2, <2>1, InputActive
       DEF InputFollows, ScreenFollows, OpenFollows, TurnFollows, NoneFollows
<1> QED
  BY <1>1, <1>3

\* Before the first selection there is no connection and the input is disabled.
LEMMA InputInit == Init => InputInv
<1> SUFFICES ASSUME Init PROVE InputInv
  OBVIOUS
<1>1. ShownListed /\ InputFollows
  BY DEF Init, ShownListed, InputFollows, OnScreen
<1>2. OneAtATime
  BY NoneAssumption DEF Init, OneAtATime, Live
<1> QED
  BY <1>1, <1>2, InitInv DEF InputInv

\* When everything that was to come has come, the input is as the connection is.
LEMMA InputAtRest == InputInv => InputTellsConnection
<1> SUFFICES ASSUME InputInv, AtRest, OnScreen
             PROVE  /\ app.ws # None /\ app.active # None => ui.enabled
                    /\ ui.enabled =>
                        /\ ~app.streaming
                        /\ \E w \in Workers : Alive(w) /\ worker[w].session = app.active
  BY DEF InputTellsConnection
<1> USE DEF InputInv
<1>1. app.pc = "idle" /\ queue = <<>>
  BY DEF AtRest
<1>2. \A kinds, s : ~Has(queue, kinds, s)
  BY <1>1 DEF Has
<1>3. \A w \in Workers : Live(w) => worker[w].pc = "open" /\ ~Owed(w)
  BY <1>1 DEF AtRest, Live, Owed
<1>4. ASSUME app.ws # None, app.active # None PROVE ui.enabled
  <2>1. PICK w \in Workers : app.ws = w
    BY <1>4 DEF IInv, TypeOK
  <2>2. worker[w].pc \in {"open", "closed", "cancelled"}
    BY <2>1 DEF OneAtATime
  <2>3. worker[w].pc = "open" /\ ~Owed(w)
    BY <1>1, <2>2 DEF AtRest, Owed
  <2> QED
    BY <1>1, <1>2, <1>4, <2>1, <2>3 DEF InputFollows, OnScreen
<1>5. ASSUME ui.enabled
      PROVE  /\ ~app.streaming
             /\ \E w \in Workers : Alive(w) /\ worker[w].session = app.active
  <2>1. app.active # None /\ ui.shown = app.active
    BY <1>5 DEF InputFollows, OnScreen
  <2>2. PICK w \in Workers : Live(w)
    BY <1>1, <1>2, <1>5, <2>1 DEF InputFollows
  <2>3. worker[w].pc = "open" /\ ~Owed(w)
    BY <1>3, <2>2
  <2>4. worker[w].session = ui.shown /\ item[ui.shown] # "deleted"
    BY <2>1, <2>2 DEF IInv, LiveWorkerShown, ShownListed
  <2>5. ~app.streaming
    BY <1>1, <1>2, <2>1, <2>3 DEF InputFollows
  <2> QED
    BY <2>1, <2>3, <2>4, <2>5 DEF Alive
<1> QED
  BY <1>4, <1>5

\* In whatever order frames, errors, disconnections and selections came, and however late
\* cancelled connections end: at rest, the user can send on the connection the App knows,
\* and the input is enabled only on a session with an open connection, never blocked.
THEOREM InputTellsConnectionHolds ==
    ASSUME "get" \notin Faults, "silent" \notin Faults
    PROVE  Spec => []InputTellsConnection
<1>1. InputInv /\ [Next]_vars => InputInv'
  BY InputStep
<1> QED
  BY <1>1, InputInit, InputAtRest, PTL DEF Spec

-----------------------------------------------------------------------------
(* An answer goes to its own bubble                                        *)

\* What a queue says of session s stays true when another message is taken ...
LEMMA QueueTaken ==
    ASSUME NEW q \in Seq(Message), q # <<>>, NEW kinds, NEW s
    PROVE  /\ Has(Tail(q), kinds, s) => Has(q, kinds, s)
           /\ Once(q, kinds, s) => Once(Tail(q), kinds, s)
           /\ ChunksFirst(q, s) => ChunksFirst(Tail(q), s)
           /\ \A i \in DOMAIN Tail(q) : \E k \in DOMAIN q : Tail(q)[i] = q[k]
<1>1. \A i \in DOMAIN Tail(q) : i \in Nat /\ i + 1 \in DOMAIN q /\ Tail(q)[i] = q[i + 1]
  BY TakenFirst
<1>2. Has(Tail(q), kinds, s) => Has(q, kinds, s)
  BY <1>1 DEF Has
<1>3. Once(q, kinds, s) => Once(Tail(q), kinds, s)
  BY <1>1 DEF Once
<1>4. ChunksFirst(q, s) => ChunksFirst(Tail(q), s)
  BY <1>1 DEF ChunksFirst
<1> QED
  BY <1>1, <1>2, <1>3, <1>4

\* ... and when one is put behind that is not of these kinds and this session ...
LEMMA QueuePosted ==
    ASSUME NEW q \in Seq(Message), NEW m \in Message, NEW kinds, NEW s
    PROVE  /\ ~(m.kind \in kinds /\ m.session = s) =>
                (Has(Append(q, m), kinds, s) => Has(q, kinds, s))
           /\ Once(q, kinds, s) /\ (~(m.kind \in kinds /\ m.session = s) \/ ~Has(q, kinds, s))
                => Once(Append(q, m), kinds, s)
           /\ ChunksFirst(q, s) /\ (~(m.kind = "chunk" /\ m.session = s) \/ ~Has(q, Ends, s))
                => ChunksFirst(Append(q, m), s)
           /\ \A i \in DOMAIN Append(q, m) :
                Append(q, m)[i] = m \/ \E k \in DOMAIN q : Append(q, m)[i] = q[k]
<1> DEFINE a == Append(q, m)
<1>1. /\ \A i \in DOMAIN a : i \in Nat /\ ((i = Len(q) + 1 /\ a[i] = m)
                                           \/ (i \in DOMAIN q /\ i < Len(q) + 1 /\ a[i] = q[i]))
      /\ Len(q) \in Nat
  BY PostedOne
<1> HIDE DEF a
<1>2. ~(m.kind \in kinds /\ m.session = s) => (Has(a, kinds, s) => Has(q, kinds, s))
  BY <1>1 DEF Has
<1>3. Once(q, kinds, s) /\ (~(m.kind \in kinds /\ m.session = s) \/ ~Has(q, kinds, s))
      => Once(a, kinds, s)
  BY <1>1 DEF Once, Has
<1>4. ChunksFirst(q, s) /\ (~(m.kind = "chunk" /\ m.session = s) \/ ~Has(q, Ends, s))
      => ChunksFirst(a, s)
  <2>1. "chunk" \notin Ends
    BY DEF Ends
  <2> QED
    BY <1>1, <2>1 DEF ChunksFirst, Has
<1> QED
  BY <1>1, <1>2, <1>3, <1>4 DEF a

\* ... and of a frame that ends a turn, none is behind it when it is taken.
LEMMA EndTaken ==
    ASSUME NEW q \in Seq(Message), q # <<>>, NEW s, Head(q).kind \in Ends, Head(q).session = s
    PROVE  /\ Has(q, Ends, s)
           /\ Once(q, Ends, s) => ~Has(Tail(q), Ends, s)
           /\ ChunksFirst(q, s) => ~Has(Tail(q), {"chunk"}, s)
<1>1. \A i \in DOMAIN Tail(q) : i \in Nat \ {0} /\ i + 1 \in DOMAIN q /\ Tail(q)[i] = q[i + 1]
  BY TakenFirst
<1>2. 1 \in DOMAIN q /\ Head(q) = q[1]
  BY TakenFirst
<1>3. Has(q, Ends, s)
  BY <1>2 DEF Has
<1>4. Once(q, Ends, s) => ~Has(Tail(q), Ends, s)
  BY <1>1, <1>2 DEF Once, Has
<1>5. ChunksFirst(q, s) => ~Has(Tail(q), {"chunk"}, s)
  BY <1>1, <1>2 DEF ChunksFirst, Has
<1> QED
  BY <1>3, <1>4, <1>5

\* No message is in the queue without a worker of its session that has connected.
LEMMA FromWorkersStep ==
    ASSUME IInv, FromWorkers, [Next]_vars PROVE FromWorkers'
<1>1. WorkerMoves /\ QueueSteps /\ TypeOK
  BY WorkerStep, QueueStep DEF IInv
<1>2. SUFFICES ASSUME NEW i \in DOMAIN queue', queue'[i].kind \notin Presses
               PROVE  \E w \in Workers : /\ worker'[w].pc \notin {"new", "connecting"}
                                         /\ worker'[w].session = queue'[i].session
  BY DEF FromWorkers
<1>3. CASE Posted(queue'[i])
  <2>1. PICK w \in Workers : /\ worker'[w].pc \notin {"new", "connecting"}
                             /\ worker'[w].session = queue'[i].session
    BY <1>2, <1>3 DEF Posted
  <2> QED
    BY <2>1
<1>4. ASSUME NEW k \in DOMAIN queue, queue'[i] = queue[k]
      PROVE  \E w \in Workers : /\ worker'[w].pc \notin {"new", "connecting"}
                                /\ worker'[w].session = queue'[i].session
  <2>1. PICK w \in Workers : /\ worker[w].pc \notin {"new", "connecting"}
                             /\ worker[w].session = queue[k].session
    BY <1>2, <1>4 DEF FromWorkers
  <2>2. worker'[w].pc \notin {"new", "connecting"} /\ worker'[w].session = worker[w].session
    BY <1>1, <2>1 DEF WorkerMoves
  <2> QED
    BY <1>4, <2>1, <2>2
<1> QED
  BY <1>1, <1>3, <1>4, QueueElements

\* A message that is received begins a turn, or is refused with an error.
LEMMA ReceivedStep ==
    ASSUME TypeOK, NEW w \in Workers, ServerReceives(w)
    PROVE  /\ server[w].inbox # <<>> /\ server'[w].inbox = Tail(server[w].inbox)
           /\ \/ /\ server[w].turn = None /\ queue' = queue
                 /\ server'[w].turn = Head(server[w].inbox) /\ server'[w].turn \in Turns
                 /\ server'[w].phase = "llm" /\ server'[w].left = 0
              \/ /\ server[w].turn # None /\ Emit(w, "error", None)
                 /\ server'[w].turn = server[w].turn /\ server'[w].phase = server[w].phase
                 /\ server'[w].left = server[w].left
           /\ \A v \in Workers \ {w} : server'[v] = server[v]
<1> DEFINE rest == Tail(server[w].inbox)
           t == Head(server[w].inbox)
<1>1. /\ server[w].inbox # <<>>
      /\ \/ /\ server[w].turn = None /\ queue' = queue
            /\ server' = [server EXCEPT ![w] = [inbox |-> rest, turn |-> t, phase |-> "llm",
                                               left |-> 0]]
         \/ /\ server[w].turn # None /\ Emit(w, "error", None)
            /\ server' = [server EXCEPT ![w].inbox = rest]
  BY DEF ServerReceives, TypeOK
<1>2. t \in Turns
  BY <1>1, HeadTailProperties DEF TypeOK
<1>3. server \in ServerType
  BY DEF TypeOK, ServerType
<1> HIDE DEF rest, t
<1>4. /\ server'[w].inbox = rest
      /\ \/ /\ server[w].turn = None /\ queue' = queue
            /\ server'[w].turn = t /\ server'[w].phase = "llm" /\ server'[w].left = 0
         \/ /\ server[w].turn # None /\ Emit(w, "error", None)
            /\ server'[w].turn = server[w].turn /\ server'[w].phase = server[w].phase
            /\ server'[w].left = server[w].left
      /\ \A v \in Workers \ {w} : server'[v] = server[v]
  <2> HIDE DEF Emit
  <2> QED
    BY <1>1, <1>3 DEF ServerType
<1> QED
  BY <1>1, <1>2, <1>4 DEF rest, t

\* With one DoneFrame per turn none is left to send; a message is on its way when its
\* bubble is mounted; and a selection starts with no text accumulated.
LEMMA CountStep ==
    ASSUME IInv, TurnByTurn, MaxDone = 1, [Next]_vars
    PROVE  /\ \A w \in Workers : worker'[w].pc = "new" => worker'[w].session = None
           /\ \A w \in Workers : server'[w].left = 0
           /\ app'.pc = "mount" => app'.streaming
           /\ app'.pc = "get" => app'.text = {}
<1> USE DEF IInv
<1>0. server \in ServerType
  BY DEF TypeOK, ServerType
<1>1. \A w \in Workers : worker'[w].pc = "new" => worker'[w].session = None
  BY WorkerStep DEF WorkerMoves, TurnByTurn
<1>2. ASSUME NEW w \in Workers PROVE server'[w].left = 0
  <2>1. server[w].left = 0
    BY DEF TurnByTurn
  <2>2. CASE FrameSent
    BY <1>0, <2>1, <2>2 DEF FrameSent, ServerType
  <2>3. ASSUME NEW v \in Workers, ServerNext(v) PROVE server'[w].left = 0
    <3>1. server[v].left = 0
      BY DEF TurnByTurn
    <3>2. CASE ServerReceives(v)
      BY <2>1, <3>1, <3>2, ReceivedStep
    <3>3. CASE ServerDone(v)
      BY <1>0, <2>1, <3>3 DEF ServerDone, ServerType
    <3>4. CASE ServerChunk(v) \/ ServerFails(v) \/ ServerTurnEnds(v)
      BY <1>0, <2>1, <3>4 DEF ServerChunk, ServerFails, ServerTurnEnds, ServerType
    <3>5. ~ServerDoneAgain(v)
      BY <3>1 DEF ServerDoneAgain
    <3> QED
      BY <2>3, <3>2, <3>3, <3>4, <3>5 DEF ServerNext
  <2>4. CASE UNCHANGED server
    BY <2>1, <2>4
  <2>5. FrameSent \/ (\E v \in Workers : ServerNext(v)) \/ UNCHANGED server
    BY DEF Next, vars, UserSubmits, UserClicks, Press, AppNext, HandleSelect, Selected,
         SelectFails, HandleNew, Created, HandleDelete, Deleted, DeleteFails, SubmitIgnored,
         SubmitAccepted, FrameNotSent, HandleDropped, HandleConnected, HandleDisconnected,
         HandleChunk, HandleEnd, WorkerNext, WorkerConnects, SocketCloses, WorkerEnds
  <2> QED
    BY <2>2, <2>3, <2>4, <2>5
<1>3. CASE AppNext
  <2>1. app'.pc = "mount" => SubmitAccepted
    BY <1>3 DEF AppNext, HandleSelect, Selecting, Selected, SelectFails, HandleNew, Created,
       HandleDelete, Deleted, DeleteFails, SubmitIgnored, FrameSent, FrameNotSent,
       HandleDropped, HandleConnected, HandleDisconnected, HandleChunk, HandleEnd,
       TakesActive, Takes, TypeOK
  <2>2. SubmitAccepted => app'.streaming /\ app'.pc = "mount"
    BY DEF SubmitAccepted, TypeOK
  <2>3. app'.pc = "get" => HandleSelect \/ Created
    BY <1>3 DEF AppNext, Selected, SelectFails, HandleNew, HandleDelete, Deleted, DeleteFails,
       SubmitIgnored, SubmitAccepted, FrameSent, FrameNotSent, HandleDropped, HandleConnected,
       HandleDisconnected, HandleChunk, HandleEnd, TakesActive, Takes, TypeOK
  <2>4. app'.pc = "get" /\ (HandleSelect \/ Created) => app'.text = {}
    BY DEF HandleSelect, Created, Selecting, Takes, TypeOK
  <2> QED
    BY <1>1, <1>2, <2>1, <2>2, <2>3, <2>4
<1>4. CASE ~AppNext
  <2>1. app'.pc = app.pc /\ app'.streaming = app.streaming /\ app'.text = app.text
    BY <1>4 DEF Next, vars, UserSubmits, UserClicks, Press, WorkerNext, WorkerConnects,
       SocketCloses, WorkerEnds, ServerNext, ServerReceives, ServerChunk, ServerDone,
       ServerDoneAgain, ServerFails, ServerTurnEnds, ServerStep, TypeOK
  <2> QED
    BY <1>1, <1>2, <2>1 DEF TurnByTurn
<1> QED
  BY <1>3, <1>4

\* A session that has had two connections has had them ever since.
LEMMA OneEachBefore ==
    ASSUME IInv, TurnByTurn, [Next]_vars, OneConnectionEach'
    PROVE  OneConnectionEach
<1>1. \A w \in Workers : worker[w].session # None => worker'[w].session = worker[w].session
  BY WorkerStep DEF IInv, WorkerMoves, TurnByTurn
<1> QED
  BY <1>1 DEF OneConnectionEach

\* The connection of the session on the screen is the only one it has had.
LEMMA OnlyWorker ==
    ASSUME IInv, OneConnectionEach, NEW s \in Sessions, ui.shown = s,
           NEW w \in Workers, Live(w)
    PROVE  /\ worker[w].session = s
           /\ \A v \in Workers : v # w => worker[v].session # s
           /\ \A v \in Workers : Live(v) => v = w
<1>1. \A v \in Workers : Live(v) => worker[v].session = s
  BY NoneAssumption DEF IInv, LiveWorkerShown
<1> QED
  BY <1>1, NoneAssumption DEF OneConnectionEach

\* If nothing is to come of session s and no text is accumulated, nothing is under way.
LEMMA Fresh ==
    ASSUME NEW s \in Sessions, NEW q \in Seq(Message),
           \A i \in DOMAIN q : q[i].kind \notin Presses => q[i].session # s
    PROVE  /\ ~Has(q, Ends, s) /\ Once(q, Ends, s) /\ ChunksFirst(q, s)
           /\ \A i \in DOMAIN q : ~(q[i].kind = "chunk" /\ q[i].session = s)
BY DEF Has, Once, ChunksFirst, Ends, Presses

\* A session selected for the first time has nothing under way.
LEMMA SelectedTurns ==
    ASSUME IInv, TurnByTurn, Selected, OneConnectionEach', [Next]_vars,
           NEW s \in Sessions, app.active = s
    PROVE  LastBubbleOnly(s)'
<1>1. app.text = {} /\ app.pc = "get" /\ answered[s] \in Seq(Turns)
  BY DEF Selected, TurnByTurn, IInv, Shape, TypeOK
<1>2. app'.active = s /\ app'.text = {} /\ queue' = queue
  BY <1>1 DEF Selected, IInv, TypeOK
<1>3. PICK v \in Workers : /\ worker[v].pc = "new" /\ worker'[v].pc = "connecting"
                           /\ worker'[v].session = s
                           /\ \A u \in Workers : Live(u)' => u = v
  BY OneStarted DEF IInv
<1>4. \A i \in DOMAIN queue : queue[i].kind \notin Presses => queue[i].session # s
  <2>1. SUFFICES ASSUME NEW i \in DOMAIN queue, queue[i].kind \notin Presses,
                        queue[i].session = s
                 PROVE  FALSE
    OBVIOUS
  <2>2. PICK u \in Workers : worker[u].pc \notin {"new", "connecting"}
                             /\ worker[u].session = s
    BY <2>1 DEF TurnByTurn, FromWorkers
  <2>3. worker'[u].session = s /\ u # v
    BY <1>3, <2>2, WorkerStep DEF IInv, WorkerMoves
  <2> QED
    BY <1>1, <1>3, <2>3, NoneAssumption DEF OneConnectionEach
<1>5. \A i \in DOMAIN ui'.bubbles : ui'.bubbles[i].text \subseteq {ui'.bubbles[i].turn}
  BY <1>1 DEF Selected, IInv, TypeOK
<1>6. \A w \in Workers : worker'[w].pc # "open"
  BY <1>3 DEF Live
<1>7. queue' \in Seq(Message)
  BY <1>2 DEF IInv, TypeOK
<1>8. /\ ChunksFirst(queue', s)
      /\ \A i \in DOMAIN queue' : ~(queue'[i].kind = "chunk" /\ queue'[i].session = s)
  BY <1>1, <1>2, <1>4, <1>7, Fresh
<1> QED
  BY <1>2, <1>5, <1>6, <1>8 DEF LastBubbleOnly

\* A step leaves the message under way where it is if it leaves the bubbles, the text
\* accumulated and the connections that stay open, and puts nothing of the session into
\* the queue while one is open.
LEMMA KeptTurns ==
    ASSUME IInv, NEW s \in Sessions, LastBubbleOnly(s),
           ui'.bubbles = ui.bubbles, app'.text = app.text, app'.streaming = app.streaming,
           app'.pc = "mount" => app.pc = "mount",
           ChunksFirst(queue', s),
           \A i \in DOMAIN queue' : queue'[i].kind = "chunk" /\ queue'[i].session = s =>
                \E k \in DOMAIN queue : queue'[i] = queue[k],
           \A w \in Workers : worker'[w].pc = "open" =>
                /\ worker[w].pc = "open" /\ server'[w] = server[w]
                /\ Has(queue', Ends, s) => Has(queue, Ends, s)
                /\ Once(queue', Ends, s)
    PROVE  LastBubbleOnly(s)'
<1>1. ASSUME NEW i \in DOMAIN queue', queue'[i].kind = "chunk", queue'[i].session = s
      PROVE  IsLast(queue'[i].turn) /\ app.streaming
  <2>1. PICK k \in DOMAIN queue : queue'[i] = queue[k]
    BY <1>1
  <2> QED
    BY <1>1, <2>1 DEF LastBubbleOnly
<1>2. \A t : IsLast(t)' <=> IsLast(t)
  BY DEF IsLast, Last
<1>3. ASSUME NEW w \in Workers, worker'[w].pc = "open" PROVE OneUnderWay(w, s)'
  <2>1. OneUnderWay(w, s)
    BY <1>3 DEF LastBubbleOnly
  <2>2. /\ server'[w] = server[w] /\ (InTurn(w)' <=> InTurn(w))
        /\ Has(queue', Ends, s) => Has(queue, Ends, s)
        /\ Once(queue', Ends, s)
    BY <1>3 DEF InTurn
  <2>3. server'[w].turn = server[w].turn /\ server'[w].inbox = server[w].inbox
    BY <2>2
  <2>4. Has(queue, Ends, s) => app.streaming
    BY <2>1 DEF OneUnderWay
  <2> QED
    BY <1>2, <2>1, <2>2, <2>3, <2>4 DEF OneUnderWay
<1> QED
  BY <1>1, <1>2, <1>3 DEF LastBubbleOnly

\* What a step leaves that takes a message, or puts none of session s into the queue.
LEMMA OtherMessage ==
    ASSUME IInv, NEW s \in Sessions, ChunksFirst(queue, s),
           \/ queue' = queue
           \/ \E m \in Message : ~(m.kind \in Ends \cup {"chunk"} /\ m.session = s)
                                 /\ queue' = Append(queue, m)
           \/ \E m, n \in Message : /\ m.session # s /\ n.session # s
                                    /\ queue' = Append(Append(queue, m), n)
           \/ queue # <<>> /\ queue' = Tail(queue)
    PROVE  /\ ChunksFirst(queue', s)
           /\ \A i \in DOMAIN queue' : queue'[i].kind = "chunk" /\ queue'[i].session = s =>
                \E k \in DOMAIN queue : queue'[i] = queue[k]
           /\ Has(queue', Ends, s) => Has(queue, Ends, s)
           /\ Once(queue, Ends, s) => Once(queue', Ends, s)
<1>0. queue \in Seq(Message)
  BY DEF IInv, TypeOK
<1>1. CASE queue' = queue
  BY <1>1
<1>2. CASE queue # <<>> /\ queue' = Tail(queue)
  BY <1>0, <1>2, QueueTaken
<1>3. ASSUME NEW q \in Seq(Message), NEW m \in Message,
             ~(m.kind \in Ends \cup {"chunk"} /\ m.session = s), ChunksFirst(q, s)
      PROVE  /\ ChunksFirst(Append(q, m), s)
             /\ \A i \in DOMAIN Append(q, m) :
                    Append(q, m)[i].kind = "chunk" /\ Append(q, m)[i].session = s =>
                        \E k \in DOMAIN q : Append(q, m)[i] = q[k]
             /\ Has(Append(q, m), Ends, s) => Has(q, Ends, s)
             /\ Once(q, Ends, s) => Once(Append(q, m), Ends, s)
  <2>1. /\ Has(Append(q, m), Ends, s) => Has(q, Ends, s)
        /\ Once(q, Ends, s) => Once(Append(q, m), Ends, s)
        /\ ChunksFirst(Append(q, m), s)
        /\ \A i \in DOMAIN Append(q, m) :
                Append(q, m)[i] = m \/ \E k \in DOMAIN q : Append(q, m)[i] = q[k]
    BY <1>3, QueuePosted
  <2> QED
    BY <1>3, <2>1
<1>4. ASSUME NEW m \in Message, ~(m.kind \in Ends \cup {"chunk"} /\ m.session = s),
             queue' = Append(queue, m)
      PROVE  /\ ChunksFirst(queue', s)
             /\ \A i \in DOMAIN queue' : queue'[i].kind = "chunk" /\ queue'[i].session = s =>
                    \E k \in DOMAIN queue : queue'[i] = queue[k]
             /\ Has(queue', Ends, s) => Has(queue, Ends, s)
             /\ Once(queue, Ends, s) => Once(queue', Ends, s)
  BY <1>0, <1>3, <1>4
<1>5. ASSUME NEW m \in Message, NEW n \in Message, m.session # s, n.session # s,
             queue' = Append(Append(queue, m), n)
      PROVE  /\ ChunksFirst(queue', s)
             /\ \A i \in DOMAIN queue' : queue'[i].kind = "chunk" /\ queue'[i].session = s =>
                    \E k \in DOMAIN queue : queue'[i] = queue[k]
             /\ Has(queue', Ends, s) => Has(queue, Ends, s)
             /\ Once(queue, Ends, s) => Once(queue', Ends, s)
  <2> DEFINE q == Append(queue, m)
  <2>1. q \in Seq(Message)
    BY <1>0, AppendProperties
  <2>2. /\ ChunksFirst(q, s)
        /\ \A i \in DOMAIN q : q[i].kind = "chunk" /\ q[i].session = s =>
                \E k \in DOMAIN queue : q[i] = queue[k]
        /\ Has(q, Ends, s) => Has(queue, Ends, s)
        /\ Once(queue, Ends, s) => Once(q, Ends, s)
    BY <1>0, <1>3, <1>5
  <2> HIDE DEF q
  <2>3. /\ ChunksFirst(Append(q, n), s)
        /\ \A i \in DOMAIN Append(q, n) :
                Append(q, n)[i].kind = "chunk" /\ Append(q, n)[i].session = s =>
                    \E k \in DOMAIN q : Append(q, n)[i] = q[k]
        /\ Has(Append(q, n), Ends, s) => Has(q, Ends, s)
        /\ Once(q, Ends, s) => Once(Append(q, n), Ends, s)
    BY <1>3, <1>5, <2>1, <2>2
  <2>4. queue' = Append(q, n)
    BY <1>5 DEF q
  <2>5. \A i \in DOMAIN queue' : queue'[i].kind = "chunk" /\ queue'[i].session = s =>
            \E k \in DOMAIN queue : queue'[i] = queue[k]
    BY <2>2, <2>3, <2>4
  <2> QED
    BY <2>2, <2>3, <2>4, <2>5
<1> QED
  BY <1>1, <1>2, <1>4, <1>5

\* A handler that leaves the bubbles, the text and the connections leaves the message
\* under way where it is.
LEMMA QuietTurns ==
    ASSUME IInv, NEW s \in Sessions, LastBubbleOnly(s),
           UNCHANGED <<worker, server>>, ui'.bubbles = ui.bubbles, app'.text = app.text,
           app'.streaming = app.streaming, app'.pc = "mount" => app.pc = "mount",
           \/ queue' = queue
           \/ \E m \in Message : m.kind \in Presses /\ queue' = Append(queue, m)
           \/ queue # <<>> /\ queue' = Tail(queue)
    PROVE  LastBubbleOnly(s)'
<1>1. \A kind \in Presses : kind \notin Ends \cup {"chunk"}
  BY DEF Ends, Presses
<1>2. ChunksFirst(queue, s)
  BY DEF LastBubbleOnly
<1>3. /\ ChunksFirst(queue', s)
      /\ \A i \in DOMAIN queue' : queue'[i].kind = "chunk" /\ queue'[i].session = s =>
            \E k \in DOMAIN queue : queue'[i] = queue[k]
      /\ Has(queue', Ends, s) => Has(queue, Ends, s)
      /\ Once(queue, Ends, s) => Once(queue', Ends, s)
  BY <1>1, <1>2, OtherMessage
<1>4. \A w \in Workers : worker[w].pc = "open" => Once(queue, Ends, s)
  BY DEF LastBubbleOnly, OneUnderWay
<1> QED
  BY <1>3, <1>4, KeptTurns

\* The chunk at the head of the queue goes to the bubble of its message.
LEMMA ChunkTurns ==
    ASSUME IInv, NEW s \in Sessions, LastBubbleOnly(s), app.active = s, HandleChunk
    PROVE  LastBubbleOnly(s)'
<1> DEFINE t == Head(queue).turn
<1>0. queue \in Seq(Message) /\ ui.bubbles \in Seq(Bubble)
  BY DEF IInv, TypeOK
<1>1. /\ queue # <<>> /\ queue' = Tail(queue) /\ app.pc = "idle"
      /\ Head(queue).kind = "chunk" /\ Head(queue).session = s
      /\ UNCHANGED <<worker, server>>
  BY DEF HandleChunk, TakesActive, Takes
<1>2. app'.text = app.text \cup {t} /\ app'.pc = "idle" /\ app'.streaming = app.streaming
  BY <1>1 DEF HandleChunk, IInv, TypeOK
<1>3. IsLast(t)
  <2>1. 1 \in DOMAIN queue /\ Head(queue) = queue[1]
    BY <1>0, <1>1, TakenFirst
  <2> QED
    BY <1>1, <2>1 DEF LastBubbleOnly
<1>4. ui.bubbles # <<>> /\ Last(ui.bubbles).turn = t
  BY <1>3 DEF IsLast
<1>5. ui'.bubbles = [ui.bubbles EXCEPT ![Len(ui.bubbles)].text = app'.text]
  <2>1. ui' = [ui EXCEPT !.bubbles = [ui.bubbles EXCEPT ![Len(ui.bubbles)].text
                                        = app.text \cup {Head(queue).turn}]]
    BY <1>4 DEF HandleChunk
  <2> DEFINE new == [ui.bubbles EXCEPT ![Len(ui.bubbles)].text = app.text \cup {t}]
  <2>2. ui' = [ui EXCEPT !.bubbles = new]
    BY <2>1
  <2> HIDE DEF new
  <2>3. ui'.bubbles = new
    BY <2>2 DEF IInv, TypeOK
  <2> QED
    BY <1>2, <2>3 DEF new
<1> HIDE DEF t
<1>6. DOMAIN ui'.bubbles = DOMAIN ui.bubbles /\ Len(ui.bubbles) \in DOMAIN ui.bubbles
      /\ ui'.bubbles \in Seq(Bubble) /\ Len(ui'.bubbles) = Len(ui.bubbles)
  <2>1. Len(ui.bubbles) \in 1..Len(ui.bubbles) /\ DOMAIN ui.bubbles = 1..Len(ui.bubbles)
    BY <1>0, <1>4, EmptySeq, LenProperties
  <2>2. ui.bubbles[Len(ui.bubbles)] \in Bubble
    BY <1>0, <2>1, ElementOfSeq
  <2> DEFINE b == [ui.bubbles[Len(ui.bubbles)] EXCEPT !.text = app'.text]
  <2>3. b \in Bubble
    <3>1. app'.text \in SUBSET Turns
      BY <1>1, <1>2, <1>4, LastBubble DEF IInv, TypeOK
    <3> QED
      BY <2>2, <3>1 DEF Bubble
  <2>4. ui'.bubbles = [ui.bubbles EXCEPT ![Len(ui.bubbles)] = b]
    BY <1>5
  <2> HIDE DEF b
  <2> QED
    BY <1>0, <2>1, <2>3, <2>4, ExceptSeq, LenProperties
<1>7. \A i \in DOMAIN ui.bubbles :
        /\ ui'.bubbles[i].turn = ui.bubbles[i].turn
        /\ ui'.bubbles[i].text = IF i = Len(ui.bubbles) THEN app'.text ELSE ui.bubbles[i].text
  <2>1. \A i \in DOMAIN ui.bubbles : ui.bubbles[i] \in Bubble
    BY <1>0, ElementOfSeq, LenProperties
  <2> QED
    BY <1>5, <2>1 DEF Bubble
<1>8. \A x : IsLast(x)' <=> IsLast(x)
  <2>1. Last(ui.bubbles) = ui.bubbles[Len(ui.bubbles)]
        /\ Last(ui'.bubbles) = ui'.bubbles[Len(ui.bubbles)]
    BY <1>6 DEF Last
  <2>2. ui'.bubbles # <<>>
    BY <1>6
  <2> QED
    BY <1>4, <1>6, <1>7, <2>1, <2>2 DEF IsLast
<1>9. \A x \in app'.text : x = t /\ IsLast(x)
  BY <1>2, <1>3, <1>4 DEF LastBubbleOnly, IsLast
<1>10. \A i \in DOMAIN ui'.bubbles : ui'.bubbles[i].text \subseteq {ui'.bubbles[i].turn}
  <2>1. ui.bubbles[Len(ui.bubbles)].turn = t
    BY <1>4 DEF Last
  <2> QED
    BY <1>6, <1>7, <1>9, <2>1 DEF LastBubbleOnly
<1>11. /\ Has(queue', Ends, s) => Has(queue, Ends, s)
       /\ Once(queue, Ends, s) => Once(queue', Ends, s)
       /\ ChunksFirst(queue, s) => ChunksFirst(queue', s)
       /\ \A i \in DOMAIN queue' : \E k \in DOMAIN queue : queue'[i] = queue[k]
  BY <1>0, <1>1, QueueTaken
<1>12. ASSUME NEW w \in Workers, OneUnderWay(w, s) PROVE OneUnderWay(w, s)'
  <2>1. (server'[w].turn = server[w].turn) /\ (InTurn(w)' <=> InTurn(w))
        /\ server'[w].inbox = server[w].inbox
    BY <1>1 DEF InTurn
  <2>2. app'.pc # "mount" /\ app'.streaming = app.streaming
    BY <1>2
  <2>3. Has(queue, Ends, s) => app.streaming
    BY <1>12 DEF OneUnderWay
  <2> QED
    BY <1>8, <1>11, <1>12, <2>1, <2>2, <2>3 DEF OneUnderWay
<1>13. ASSUME NEW i \in DOMAIN queue', queue'[i].kind = "chunk", queue'[i].session = s
       PROVE  IsLast(queue'[i].turn) /\ app'.streaming
  <2>1. PICK k \in DOMAIN queue : queue'[i] = queue[k]
    BY <1>11
  <2> QED
    BY <1>2, <1>13, <2>1 DEF LastBubbleOnly
<1> QED
  BY <1>1, <1>8, <1>9, <1>10, <1>11, <1>12, <1>13 DEF LastBubbleOnly

\* The frame that ends the turn leaves nothing of it behind.
LEMMA EndTurns ==
    ASSUME IInv, NEW s \in Sessions, LastBubbleOnly(s), app.active = s,
           HandleEnd \/ HandleDisconnected
    PROVE  LastBubbleOnly(s)'
<1>0. queue \in Seq(Message)
  BY DEF IInv, TypeOK
<1>1. /\ queue # <<>> /\ queue' = Tail(queue) /\ app.pc = "idle" /\ app'.pc = "idle"
      /\ Head(queue).kind \in Ends /\ Head(queue).session = s
      /\ UNCHANGED <<worker, server>> /\ ui'.bubbles = ui.bubbles
      /\ app'.text \subseteq app.text
  BY DEF HandleEnd, HandleDisconnected, TakesActive, Takes, Ends, IInv, TypeOK
<1>2. /\ Has(queue, Ends, s) /\ (Once(queue, Ends, s) => ~Has(queue', Ends, s))
      /\ ~Has(queue', {"chunk"}, s) /\ ChunksFirst(queue', s)
      /\ (Once(queue, Ends, s) => Once(queue', Ends, s))
  BY <1>0, <1>1, EndTaken, QueueTaken DEF LastBubbleOnly
<1>3. \A t : IsLast(t)' <=> IsLast(t)
  BY <1>1 DEF IsLast, Last
<1>4. ASSUME NEW w \in Workers, OneUnderWay(w, s) PROVE OneUnderWay(w, s)'
  <2>1. (InTurn(w)' <=> InTurn(w)) /\ server'[w].inbox = server[w].inbox
    BY <1>1 DEF InTurn
  <2> QED
    BY <1>1, <1>2, <1>4, <2>1 DEF OneUnderWay
<1>5. \A i \in DOMAIN queue' : ~(queue'[i].kind = "chunk" /\ queue'[i].session = s)
  BY <1>2 DEF Has
<1> QED
  BY <1>1, <1>2, <1>3, <1>4, <1>5 DEF LastBubbleOnly

\* A message may be sent when nothing of the one before is under way any more: its bubble
\* becomes the last, and the message then the only one on the connection.
LEMMA SubmittedTurns ==
    ASSUME IInv, TurnByTurn, OneConnectionEach, NEW s \in Sessions, ui.shown = s,
           LastBubbleOnly(s), SubmitAccepted \/ FrameSent
    PROVE  LastBubbleOnly(s)'
<1>0. queue \in Seq(Message) /\ ui.bubbles \in Seq(Bubble)
  BY DEF IInv, TypeOK
<1>1. CASE SubmitAccepted
  <2>1. /\ queue # <<>> /\ queue' = Tail(queue) /\ app'.text = {} /\ ~app.streaming
        /\ UNCHANGED <<worker, server>>
    BY <1>1 DEF SubmitAccepted, MaySend, Takes, IInv, TypeOK
  <2>2. PICK t \in fresh : ui'.bubbles = Append(ui.bubbles, [turn |-> t, text |-> {}])
    BY <1>1 DEF SubmitAccepted, IInv, TypeOK
  <2> DEFINE b == [turn |-> t, text |-> {}]
  <2>3. b \in Bubble
    BY DEF Bubble, IInv, TypeOK
  <2>4. \A i \in DOMAIN ui'.bubbles : ui'.bubbles[i].text \subseteq {ui'.bubbles[i].turn}
    <3>1. b.text = {} /\ ui'.bubbles = Append(ui.bubbles, b)
      BY <2>2
    <3> HIDE DEF b
    <3>2. \A i \in DOMAIN ui'.bubbles :
            ui'.bubbles[i] = b \/ (i \in DOMAIN ui.bubbles /\ ui'.bubbles[i] = ui.bubbles[i])
      BY <1>0, <2>3, <3>1, PostedOne
    <3> QED
      BY <3>1, <3>2 DEF LastBubbleOnly
  <2>5. /\ ChunksFirst(queue', s)
        /\ Has(queue', Ends, s) => Has(queue, Ends, s)
        /\ Once(queue, Ends, s) => Once(queue', Ends, s)
        /\ \A i \in DOMAIN queue' : \E k \in DOMAIN queue : queue'[i] = queue[k]
    BY <1>0, <2>1, QueueTaken DEF LastBubbleOnly
  <2>6. ASSUME NEW i \in DOMAIN queue'
        PROVE  ~(queue'[i].kind = "chunk" /\ queue'[i].session = s)
    <3>1. PICK k \in DOMAIN queue : queue'[i] = queue[k]
      BY <2>5
    <3> QED
      BY <2>1, <3>1 DEF LastBubbleOnly
  <2>7. ASSUME NEW w \in Workers, worker[w].pc = "open" PROVE OneUnderWay(w, s)'
    <3>1. /\ server[w].inbox = <<>> /\ ~InTurn(w) /\ ~Has(queue, Ends, s)
          /\ Once(queue, Ends, s)
      BY <2>1, <2>7 DEF LastBubbleOnly, OneUnderWay
    <3>2. server'[w].inbox = <<>> /\ ~InTurn(w)'
      BY <2>1, <3>1 DEF InTurn
    <3> QED
      BY <2>5, <3>1, <3>2 DEF OneUnderWay
  <2> QED
    BY <2>1, <2>4, <2>5, <2>6, <2>7 DEF LastBubbleOnly
<1>2. CASE FrameSent
  <2>1. /\ app.pc = "mount" /\ app'.pc = "idle" /\ app'.text = app.text
        /\ app'.streaming = app.streaming /\ UNCHANGED <<ui, queue, worker>>
    BY <1>2 DEF FrameSent, IInv, TypeOK
  <2>2. PICK v \in Workers : v = app.ws /\ worker[v].pc = "open"
    BY <1>2 DEF FrameSent, Alive
  <2>3. ui.bubbles # <<>> /\ app.streaming /\ Last(ui.bubbles).turn \in Turns
    BY <2>1, LastBubble DEF IInv, Shape, TurnByTurn
  <2>4. PICK t \in Turns : t = Last(ui.bubbles).turn
    BY <2>3
  <2>5. server[v].inbox = <<>> /\ ~InTurn(v) /\ ~Has(queue, Ends, s) /\ Once(queue, Ends, s)
    BY <2>1, <2>2 DEF LastBubbleOnly, OneUnderWay
  <2>6. /\ server'[v].inbox = <<t>> /\ server'[v].turn = server[v].turn
        /\ server'[v].phase = server[v].phase
    <3>1. server' = [server EXCEPT ![v].inbox = Append(server[v].inbox, t)]
      BY <1>2, <2>2, <2>4 DEF FrameSent
    <3>2. server'[v].inbox = Append(server[v].inbox, t) /\ server'[v].turn = server[v].turn
          /\ server'[v].phase = server[v].phase
      BY <3>1 DEF IInv, TypeOK
    <3> QED
      BY <2>5, <3>2
  <2>7. (\A x : IsLast(x)' <=> IsLast(x)) /\ IsLast(t)
    BY <2>1, <2>3, <2>4 DEF IsLast
  <2>8. \A w \in Workers : worker'[w].pc = "open" => w = v
    BY <2>1, <2>2, OnlyWorker DEF Live
  <2>9. OneUnderWay(v, s)'
    <3>1. ~InTurn(v)'
      BY <2>5, <2>6 DEF InTurn
    <3>2. ~Has(queue', Ends, s) /\ Once(queue', Ends, s) /\ app'.streaming /\ app'.pc # "mount"
      BY <2>1, <2>3, <2>5
    <3>3. Head(server'[v].inbox) = t /\ Len(server'[v].inbox) = 1
      BY <2>6
    <3> QED
      BY <2>7, <3>1, <3>2, <3>3 DEF OneUnderWay
  <2> QED
    BY <2>1, <2>7, <2>8, <2>9 DEF LastBubbleOnly
<1> QED
  BY <1>1, <1>2

\* A connection is made with nothing under way, and a worker's messages are put behind
\* the chunks of its session.
LEMMA WorkerTurns ==
    ASSUME IInv, TurnByTurn, OneConnectionEach, NEW s \in Sessions, ui.shown = s,
           LastBubbleOnly(s), [Next]_vars, NEW v \in Workers, WorkerNext(v)
    PROVE  LastBubbleOnly(s)'
<1>0. queue \in Seq(Message) /\ WorkerMoves
  BY WorkerStep DEF IInv, TypeOK
<1>1. CASE WorkerConnects(v)
  <2>1. /\ worker[v].pc = "connecting" /\ UNCHANGED <<ui, server>> /\ app'.text = app.text
        /\ app'.streaming = app.streaming /\ app'.pc = app.pc
        /\ \A w \in Workers : worker'[w].pc = "open" => w = v \/ worker[w].pc = "open"
    BY <1>1 DEF WorkerConnects, IInv, TypeOK
  <2>2. worker[v].session = s /\ (\A w \in Workers : Live(w) => w = v)
        /\ \A w \in Workers : w # v => worker[w].session # s
    BY <2>1, OnlyWorker DEF Live
  <2>3. PICK m \in Message : m.kind = "connected" /\ queue' = Append(queue, m)
    <3>1. Msg("connected", s, None) \in Message /\ Msg("connected", s, None).kind = "connected"
      BY KindFacts DEF Msg, Message
    <3>2. queue' = queue \o <<Msg("connected", s, None)>>
      BY <1>1, <2>2 DEF WorkerConnects, Post
    <3> QED
      BY <1>0, <3>1, <3>2, PostedOne
  <2>4. \A i \in DOMAIN queue : queue[i].kind \notin Presses => queue[i].session # s
    BY <2>1, <2>2 DEF TurnByTurn, FromWorkers
  <2>5. /\ ~Has(queue, Ends, s) /\ Once(queue, Ends, s)
        /\ \A i \in DOMAIN queue : ~(queue[i].kind = "chunk" /\ queue[i].session = s)
    BY <1>0, <2>4, Fresh
  <2>6. "connected" \notin Ends \cup {"chunk"}
    BY DEF Ends
  <2>7. /\ ChunksFirst(queue', s)
        /\ \A i \in DOMAIN queue' : queue'[i].kind = "chunk" /\ queue'[i].session = s =>
            \E k \in DOMAIN queue : queue'[i] = queue[k]
        /\ Has(queue', Ends, s) => Has(queue, Ends, s)
        /\ Once(queue, Ends, s) => Once(queue', Ends, s)
    BY <2>3, <2>6, OtherMessage DEF LastBubbleOnly
  <2>8. server'[v].inbox = <<>> /\ ~InTurn(v)'
    BY <2>1 DEF IInv, Shape, InTurn
  <2>9. OneUnderWay(v, s)'
    BY <2>5, <2>7, <2>8 DEF OneUnderWay
  <2>10. \A w \in Workers : worker'[w].pc = "open" => w = v
    BY <2>1, <2>2 DEF Live
  <2>11. \A t : IsLast(t)' <=> IsLast(t)
    BY <2>1 DEF IsLast
  <2>12. \A i \in DOMAIN queue' : ~(queue'[i].kind = "chunk" /\ queue'[i].session = s)
    BY <2>5, <2>7
  <2> QED
    BY <2>1, <2>7, <2>9, <2>10, <2>11, <2>12 DEF LastBubbleOnly
<1>2. CASE SocketCloses(v)
  <2>1. UNCHANGED <<app, ui, queue, server>>
        /\ \A w \in Workers : worker'[w].pc = "open" => worker[w].pc = "open"
    BY <1>2 DEF SocketCloses, IInv, TypeOK
  <2>2. /\ ChunksFirst(queue', s)
        /\ \A w \in Workers : worker'[w].pc = "open" => Once(queue', Ends, s)
    BY <2>1 DEF LastBubbleOnly, OneUnderWay
  <2> QED
    BY <2>1, <2>2, KeptTurns
<1>3. CASE WorkerEnds(v)
  <2>1. /\ UNCHANGED <<ui, server>> /\ app'.text = app.text
        /\ app'.streaming = app.streaming /\ app'.pc = app.pc
        /\ \A w \in Workers : worker'[w].pc = "open" => worker[w].pc = "open" /\ w # v
        /\ worker[v].session \in Sessions
    BY <1>3 DEF WorkerEnds, IInv, TypeOK, Shape
  <2>2. PICK m \in Message, n \in Message :
          /\ m.kind = "error" /\ m.session = worker[v].session
          /\ n.kind = "disconnected" /\ n.session = worker[v].session
          /\ queue' = Append(queue, n) \/ queue' = Append(Append(queue, m), n)
    <3> DEFINE m == Msg("error", worker[v].session, None)
               n == Msg("disconnected", worker[v].session, None)
    <3>1. /\ m \in Message /\ m.kind = "error" /\ m.session = worker[v].session
          /\ n \in Message /\ n.kind = "disconnected" /\ n.session = worker[v].session
      BY <2>1, KindFacts DEF Msg, Message
    <3>2. queue' = queue \o <<n>> \/ queue' = queue \o <<m, n>>
      BY <1>3 DEF WorkerEnds, Post
    <3> HIDE DEF m, n
    <3>3. queue \o <<n>> = Append(queue, n) /\ queue \o <<m, n>> = Append(Append(queue, m), n)
      BY <1>0, <3>1, PostedOne, PostedTwo
    <3> QED
      BY <3>1, <3>2, <3>3
  <2>3. CASE worker[v].session # s
    <3>1. /\ ChunksFirst(queue', s)
          /\ \A i \in DOMAIN queue' : queue'[i].kind = "chunk" /\ queue'[i].session = s =>
                \E k \in DOMAIN queue : queue'[i] = queue[k]
          /\ Has(queue', Ends, s) => Has(queue, Ends, s)
          /\ Once(queue, Ends, s) => Once(queue', Ends, s)
      BY <2>2, <2>3, OtherMessage DEF LastBubbleOnly
    <3>2. \A w \in Workers : worker'[w].pc = "open" => Once(queue', Ends, s)
      BY <2>1, <3>1 DEF LastBubbleOnly, OneUnderWay
    <3> QED
      BY <2>1, <3>1, <3>2, KeptTurns
  <2>4. CASE worker[v].session = s
    <3>1. \A w \in Workers : worker'[w].pc # "open"
      BY <2>1, <2>4, OnlyWorker DEF Live
    <3>2. ASSUME NEW q \in Seq(Message), NEW x \in Message, x.kind # "chunk", ChunksFirst(q, s)
          PROVE  /\ ChunksFirst(Append(q, x), s)
                 /\ \A i \in DOMAIN Append(q, x) :
                        Append(q, x)[i] = x \/ \E k \in DOMAIN q : Append(q, x)[i] = q[k]
      BY <3>2, QueuePosted
    <3>3. Append(queue, m) \in Seq(Message) /\ ChunksFirst(queue, s)
      BY <1>0, AppendProperties DEF LastBubbleOnly
    <3>4. CASE queue' = Append(queue, n)
      <4>1. /\ ChunksFirst(queue', s)
            /\ \A i \in DOMAIN queue' : queue'[i].kind = "chunk" =>
                    \E k \in DOMAIN queue : queue'[i] = queue[k]
        BY <1>0, <2>2, <3>2, <3>3, <3>4
      <4> QED
        BY <2>1, <3>1, <4>1, KeptTurns
    <3>5. CASE queue' = Append(Append(queue, m), n)
      <4> DEFINE q == Append(queue, m)
      <4>1. /\ ChunksFirst(q, s) /\ q \in Seq(Message)
            /\ \A i \in DOMAIN q : q[i].kind = "chunk" => \E k \in DOMAIN queue : q[i] = queue[k]
        BY <1>0, <2>2, <3>2, <3>3
      <4>2. queue' = Append(q, n)
        BY <3>5
      <4> HIDE DEF q
      <4>3. /\ ChunksFirst(queue', s)
            /\ \A i \in DOMAIN queue' : queue'[i].kind = "chunk" =>
                    \E k \in DOMAIN q : queue'[i] = q[k]
        BY <2>2, <3>2, <4>1, <4>2
      <4>4. \A i \in DOMAIN queue' : queue'[i].kind = "chunk" =>
                \E k \in DOMAIN queue : queue'[i] = queue[k]
        BY <4>1, <4>3
      <4> QED
        BY <2>1, <3>1, <4>3, <4>4, KeptTurns
    <3> QED
      BY <2>2, <3>4, <3>5
  <2> QED
    BY <2>3, <2>4
<1> QED
  BY <1>1, <1>2, <1>3 DEF WorkerNext

\* Where a server's step moves the message under way on its connection: into a turn or
\* back as an error; on to the frame that ends the turn, if one is sent; or nowhere.
LEMMA TurnMoves ==
    ASSUME IInv, TurnByTurn, NEW v \in Workers, ServerNext(v)
    PROVE  /\ \/ /\ server[v].inbox # <<>> /\ queue' = queue
                 /\ server'[v].inbox = Tail(server[v].inbox)
                 /\ server'[v].turn = Head(server[v].inbox) /\ server'[v].phase = "llm"
              \/ /\ server[v].inbox # <<>>
                 /\ server'[v].inbox = Tail(server[v].inbox)
                 /\ (InTurn(v)' <=> InTurn(v)) /\ server'[v].turn = server[v].turn
                 /\ \E m \in Message : /\ m.kind \in Ends /\ m.session = worker[v].session
                                       /\ queue' = Append(queue, m)
              \/ /\ InTurn(v) /\ ~InTurn(v)' /\ server'[v].inbox = server[v].inbox
                 /\ \/ queue' = queue
                    \/ \E m \in Message : /\ m.kind \in Ends /\ m.session = worker[v].session
                                          /\ queue' = Append(queue, m)
              \/ /\ InTurn(v) /\ server'[v].inbox = server[v].inbox
                 /\ server'[v].turn = server[v].turn
                 /\ \E m \in Message :
                        /\ m.kind = "chunk" /\ m.session = worker[v].session
                        /\ m.turn = server[v].turn /\ queue' = Append(queue, m)
              \/ /\ ~InTurn(v) /\ ~InTurn(v)' /\ server'[v].inbox = server[v].inbox
                 /\ queue' = queue
           /\ UNCHANGED <<app, ui, worker>> /\ worker[v].pc = "open"
<1>0. queue \in Seq(Message) /\ server \in ServerType
  BY DEF IInv, TypeOK, ServerType
<1>1. UNCHANGED <<app, ui, worker>> /\ worker[v].pc = "open"
  BY DEF ServerNext, ServerReceives, ServerChunk, ServerDone, ServerDoneAgain, ServerFails,
         ServerTurnEnds, ServerStep, Alive
<1>2. worker[v].session \in Sessions /\ server[v].turn \in Turns \cup {None}
  BY <1>1 DEF IInv, Shape, TypeOK
<1>3. ASSUME NEW kind \in {"chunk", "done", "error"}, NEW t \in Turns \cup {None},
             Emit(v, kind, t)
      PROVE  \E m \in Message : /\ m.kind = kind /\ m.session = worker[v].session
                                /\ m.turn = t /\ queue' = Append(queue, m)
  <2> DEFINE m == Msg(kind, worker[v].session, t)
  <2>1. m \in Message /\ m.kind = kind /\ m.session = worker[v].session /\ m.turn = t
    BY <1>2, KindFacts DEF Msg, Message
  <2>2. queue' = queue \o <<m>>
    BY <1>3 DEF Emit, Post
  <2> HIDE DEF m
  <2> QED
    BY <1>0, <2>1, <2>2, PostedOne
<1>4. "done" \in Ends /\ "error" \in Ends
  BY DEF Ends
<1>5. CASE ServerReceives(v)
  <2>1. CASE /\ server[v].turn = None /\ queue' = queue
             /\ server'[v].turn = Head(server[v].inbox) /\ server'[v].phase = "llm"
    BY <1>1, <1>5, <2>1, ReceivedStep DEF IInv
  <2>2. CASE /\ server[v].turn # None /\ Emit(v, "error", None)
             /\ server'[v].turn = server[v].turn /\ server'[v].phase = server[v].phase
    <3>1. \E m \in Message : /\ m.kind \in Ends /\ m.session = worker[v].session
                             /\ queue' = Append(queue, m)
      BY <1>3, <1>4, <2>2
    <3>2. InTurn(v)' <=> InTurn(v)
      BY <2>2 DEF InTurn
    <3>3. server[v].inbox # <<>> /\ server'[v].inbox = Tail(server[v].inbox)
      BY <1>5, ReceivedStep DEF IInv
    <3> QED
      BY <1>1, <2>2, <3>1, <3>2, <3>3
  <2> QED
    BY <1>5, <2>1, <2>2, ReceivedStep DEF IInv
<1>6. CASE ServerChunk(v)
  <2>1. InTurn(v) /\ Emit(v, "chunk", server[v].turn)
    BY <1>6 DEF ServerChunk, InTurn
  <2>2. server'[v].inbox = server[v].inbox /\ server'[v].turn = server[v].turn
    BY <1>0, <1>6 DEF ServerChunk, ServerType
  <2> QED
    BY <1>1, <1>2, <1>3, <2>1, <2>2
<1>7. CASE ServerDone(v)
  <2>1. InTurn(v) /\ Emit(v, "done", server[v].turn)
    BY <1>7 DEF ServerDone, InTurn
  <2>2. server'[v].inbox = server[v].inbox /\ server'[v].phase = "done"
    BY <1>0, <1>7 DEF ServerDone, ServerType
  <2>3. \E m \in Message : /\ m.kind \in Ends /\ m.session = worker[v].session
                           /\ queue' = Append(queue, m)
    BY <1>2, <1>3, <1>4, <2>1
  <2> QED
    BY <1>1, <2>1, <2>2, <2>3 DEF InTurn
<1>8. CASE ServerFails(v)
  <2>1. InTurn(v) /\ (Emit(v, "error", None) \/ queue' = queue)
    BY <1>8 DEF ServerFails, InTurn
  <2>2. server'[v].inbox = server[v].inbox /\ server'[v].phase = "done"
    BY <1>0, <1>8 DEF ServerFails, ServerType
  <2>3. \/ queue' = queue
        \/ \E m \in Message : /\ m.kind \in Ends /\ m.session = worker[v].session
                              /\ queue' = Append(queue, m)
    BY <1>3, <1>4, <2>1
  <2> QED
    BY <1>1, <2>1, <2>2, <2>3 DEF InTurn
<1>9. CASE ServerTurnEnds(v)
  <2>1. server'[v].inbox = server[v].inbox /\ server'[v].turn = None /\ queue' = queue
    BY <1>0, <1>9 DEF ServerTurnEnds, ServerType
  <2> QED
    BY <1>1, <1>9, <2>1 DEF ServerTurnEnds, InTurn
<1>10. ~ServerDoneAgain(v)
  <2>1. server[v].left = 0
    BY DEF TurnByTurn
  <2> QED
    BY <2>1 DEF ServerDoneAgain
<1> QED
  BY <1>5, <1>6, <1>7, <1>8, <1>9, <1>10 DEF ServerNext

\* The server answers the one message under way: its chunks, then the frame that ends it.
LEMMA ServerTurns ==
    ASSUME IInv, TurnByTurn, OneConnectionEach, NEW s \in Sessions, ui.shown = s,
           LastBubbleOnly(s), NEW v \in Workers, ServerNext(v)
    PROVE  LastBubbleOnly(s)'
<1>0. queue \in Seq(Message) /\ server[v].inbox \in Seq(Turns)
  BY DEF IInv, TypeOK
<1>1. UNCHANGED <<app, ui, worker>> /\ worker[v].pc = "open"
  BY TurnMoves
<1>2. worker[v].session = s /\ \A w \in Workers : worker'[w].pc = "open" => w = v
  BY <1>1, OnlyWorker DEF Live
<1>3. OneUnderWay(v, s) /\ ChunksFirst(queue, s)
  BY <1>1 DEF LastBubbleOnly
<1>4. \A t : IsLast(t)' <=> IsLast(t)
  BY <1>1 DEF IsLast
<1>5. ASSUME server[v].inbox # <<>> PROVE Tail(server[v].inbox) = <<>>
  <2>1. Len(server[v].inbox) = 1
    BY <1>3, <1>5 DEF OneUnderWay
  <2>2. /\ Tail(server[v].inbox) \in Seq(Turns)
        /\ Len(Tail(server[v].inbox)) = Len(server[v].inbox) - 1
    BY <1>0, <1>5, HeadTailProperties
  <2>3. Len(Tail(server[v].inbox)) = 0
    BY <2>1, <2>2
  <2> QED
    BY <2>2, <2>3, EmptySeq
<1>6. server[v].inbox # <<>> \/ InTurn(v) =>
        ~Has(queue, Ends, s) /\ app.streaming /\ app.pc # "mount"
  BY <1>3 DEF OneUnderWay
<1>7. SUFFICES ASSUME TRUE
               PROVE  /\ ChunksFirst(queue', s)
                      /\ \A i \in DOMAIN queue' :
                            queue'[i].kind = "chunk" /\ queue'[i].session = s =>
                                IsLast(queue'[i].turn) /\ app.streaming
                      /\ OneUnderWay(v, s)'
  BY <1>1, <1>2, <1>4 DEF LastBubbleOnly
<1>8. \A i \in DOMAIN queue : queue[i].kind = "chunk" /\ queue[i].session = s =>
        IsLast(queue[i].turn) /\ app.streaming
  BY DEF LastBubbleOnly
<1>9. ASSUME NEW m \in Message, m.kind \in Ends, queue' = Append(queue, m),
             server[v].inbox # <<>> \/ InTurn(v)
      PROVE  /\ ChunksFirst(queue', s)
             /\ \A i \in DOMAIN queue' : queue'[i].kind = "chunk" /\ queue'[i].session = s =>
                    IsLast(queue'[i].turn) /\ app.streaming
             /\ Once(queue', Ends, s)
  <2>1. m.kind # "chunk"
    BY <1>9 DEF Ends
  <2>2. /\ ChunksFirst(Append(queue, m), s) /\ Once(Append(queue, m), Ends, s)
        /\ \A i \in DOMAIN Append(queue, m) :
            Append(queue, m)[i] = m \/ \E k \in DOMAIN queue : Append(queue, m)[i] = queue[k]
    BY <1>0, <1>3, <1>6, <1>9, <2>1, QueuePosted DEF OneUnderWay
  <2>3. \A i \in DOMAIN queue' : queue'[i].kind = "chunk" =>
            \E k \in DOMAIN queue : queue'[i] = queue[k]
    BY <1>9, <2>1, <2>2
  <2> QED
    BY <1>8, <1>9, <2>2, <2>3
<1>10. CASE /\ server[v].inbox # <<>> /\ queue' = queue
            /\ server'[v].inbox = Tail(server[v].inbox)
            /\ server'[v].turn = Head(server[v].inbox) /\ server'[v].phase = "llm"
  <2>1. IsLast(server'[v].turn)
    BY <1>3, <1>10 DEF OneUnderWay
  <2>2. OneUnderWay(v, s)'
    BY <1>1, <1>3, <1>4, <1>5, <1>6, <1>10, <2>1 DEF OneUnderWay
  <2> QED
    BY <1>3, <1>8, <1>10, <2>2
<1>11. ASSUME server[v].inbox # <<>>, server'[v].inbox = Tail(server[v].inbox),
              InTurn(v)' <=> InTurn(v), server'[v].turn = server[v].turn,
              NEW m \in Message, m.kind \in Ends, queue' = Append(queue, m)
       PROVE  /\ ChunksFirst(queue', s)
              /\ \A i \in DOMAIN queue' : queue'[i].kind = "chunk" /\ queue'[i].session = s =>
                    IsLast(queue'[i].turn) /\ app.streaming
              /\ OneUnderWay(v, s)'
  <2>1. ~InTurn(v) /\ app.streaming /\ app.pc # "mount"
    BY <1>3, <1>11 DEF OneUnderWay
  <2>2. server'[v].inbox = <<>> /\ ~InTurn(v)' /\ app'.streaming /\ app'.pc # "mount"
    BY <1>1, <1>5, <1>11, <2>1
  <2> QED
    BY <1>9, <1>11, <2>2 DEF OneUnderWay
<1>12. ASSUME InTurn(v), ~InTurn(v)', server'[v].inbox = server[v].inbox,
              \/ queue' = queue
              \/ \E m \in Message : m.kind \in Ends /\ queue' = Append(queue, m)
       PROVE  /\ ChunksFirst(queue', s)
              /\ \A i \in DOMAIN queue' : queue'[i].kind = "chunk" /\ queue'[i].session = s =>
                    IsLast(queue'[i].turn) /\ app.streaming
              /\ OneUnderWay(v, s)'
  <2>1. server'[v].inbox = <<>> /\ app'.streaming /\ app'.pc # "mount"
    BY <1>1, <1>3, <1>6, <1>12 DEF OneUnderWay
  <2>2. /\ ChunksFirst(queue', s) /\ Once(queue', Ends, s)
        /\ \A i \in DOMAIN queue' : queue'[i].kind = "chunk" /\ queue'[i].session = s =>
                IsLast(queue'[i].turn) /\ app.streaming
    BY <1>3, <1>8, <1>9, <1>12 DEF OneUnderWay
  <2> QED
    BY <1>12, <2>1, <2>2 DEF OneUnderWay
<1>13. ASSUME InTurn(v), server'[v].inbox = server[v].inbox,
              server'[v].turn = server[v].turn,
              NEW m \in Message, m.kind = "chunk", m.turn = server[v].turn,
              queue' = Append(queue, m)
       PROVE  /\ ChunksFirst(queue', s)
              /\ \A i \in DOMAIN queue' : queue'[i].kind = "chunk" /\ queue'[i].session = s =>
                    IsLast(queue'[i].turn) /\ app.streaming
              /\ OneUnderWay(v, s)'
  <2>1. server[v].inbox = <<>> /\ IsLast(server[v].turn) /\ Once(queue, Ends, s)
    BY <1>3, <1>13 DEF OneUnderWay
  <2>2. ~(m.kind \in Ends /\ m.session = s)
    BY <1>13 DEF Ends
  <2>3. /\ ChunksFirst(Append(queue, m), s) /\ Once(Append(queue, m), Ends, s)
        /\ Has(Append(queue, m), Ends, s) => Has(queue, Ends, s)
        /\ \A i \in DOMAIN Append(queue, m) :
            Append(queue, m)[i] = m \/ \E k \in DOMAIN queue : Append(queue, m)[i] = queue[k]
    BY <1>0, <1>3, <1>6, <1>13, <2>1, <2>2, QueuePosted
  <2>4. \A i \in DOMAIN queue' : queue'[i].kind = "chunk" /\ queue'[i].session = s =>
            IsLast(queue'[i].turn) /\ app.streaming
    BY <1>6, <1>8, <1>13, <2>1, <2>3
  <2>5. ~Has(queue', Ends, s) /\ Once(queue', Ends, s)
    BY <1>6, <1>13, <2>3
  <2>6. server'[v].inbox = <<>> /\ IsLast(server'[v].turn) /\ app'.streaming
        /\ app'.pc # "mount"
    BY <1>1, <1>6, <1>13, <2>1
  <2>7. OneUnderWay(v, s)'
    BY <1>4, <2>5, <2>6 DEF OneUnderWay
  <2> QED
    BY <1>13, <2>3, <2>4, <2>7
<1>14. CASE /\ ~InTurn(v) /\ ~InTurn(v)' /\ server'[v].inbox = server[v].inbox
            /\ queue' = queue
  <2>1. OneUnderWay(v, s)'
    BY <1>1, <1>3, <1>4, <1>14 DEF OneUnderWay
  <2> QED
    BY <1>3, <1>8, <1>14, <2>1
<1> QED
  BY <1>10, <1>11, <1>12, <1>13, <1>14, TurnMoves

\* While the same session stays on the screen, its one message stays under way.
LEMMA TurnsStay ==
    ASSUME OwnInv, TurnByTurn, [Next]_vars, OneConnectionEach,
           NEW s \in Sessions, LastBubbleOnly(s),
           app.active = s, ui.shown = s, app.pc # "get",
           app'.active = s, app'.pc # "get", ~Selected, ~Deleted
    PROVE  LastBubbleOnly(s)'
<1> USE DEF OwnInv
<1>1. CASE UserSubmits \/ UserClicks
  <2>1. \E kind \in Presses, x \in Sessions \cup {None} : Press(kind, x)
    BY <1>1, KindFacts DEF UserSubmits, UserClicks
  <2>2. \E m \in Message : m.kind \in Presses /\ queue' = Append(queue, m)
    BY <2>1, KindFacts DEF Press, Msg, Message
  <2>3. UNCHANGED <<app, worker, server>> /\ ui'.bubbles = ui.bubbles
    BY <1>1 DEF UserSubmits, UserClicks, Press, IInv, TypeOK
  <2> QED
    BY <2>2, <2>3, QuietTurns
<1>2. CASE AppNext
  <2>1. CASE SelectFails \/ Created \/ DeleteFails \/ FrameNotSent
    <3>1. /\ UNCHANGED <<worker, server, queue, ui>> /\ app'.text = app.text
          /\ app'.streaming = app.streaming /\ (app'.pc = "mount" => app.pc = "mount")
      BY <2>1 DEF SelectFails, Created, Selecting, DeleteFails, FrameNotSent, IInv, TypeOK
    <3> QED
      BY <3>1, QuietTurns
  <2>2. CASE HandleSelect \/ HandleNew \/ HandleDelete \/ SubmitIgnored \/ HandleDropped
             \/ HandleConnected
    <3>1. app.pc = "idle" /\ queue # <<>> /\ queue' = Tail(queue)
      BY <2>2 DEF HandleSelect, HandleNew, HandleDelete, SubmitIgnored, HandleDropped,
                  HandleConnected, TakesActive, Takes
    <3>2. /\ UNCHANGED <<worker, server>> /\ ui'.bubbles = ui.bubbles /\ app'.text = app.text
          /\ app'.streaming = app.streaming /\ (app'.pc = "mount" => app.pc = "mount")
      BY <2>2 DEF HandleSelect, Selecting, HandleNew, HandleDelete, SubmitIgnored,
                  HandleDropped, HandleConnected, IInv, TypeOK
    <3> QED
      BY <3>1, <3>2, QuietTurns
  <2>3. CASE HandleChunk
    BY <2>3, ChunkTurns
  <2>4. CASE HandleEnd \/ HandleDisconnected
    BY <2>4, EndTurns
  <2>5. CASE SubmitAccepted \/ FrameSent
    BY <2>5, SubmittedTurns
  <2> QED
    BY <1>2, <2>1, <2>2, <2>3, <2>4, <2>5 DEF AppNext
<1>3. ASSUME NEW v \in Workers, WorkerNext(v) PROVE LastBubbleOnly(s)'
  BY <1>3, WorkerTurns
<1>4. ASSUME NEW v \in Workers, ServerNext(v) PROVE LastBubbleOnly(s)'
  BY <1>4, ServerTurns
<1>5. CASE UNCHANGED vars
  <2>1. UNCHANGED <<worker, server, queue, ui, app>>
    BY <1>5 DEF vars
  <2> QED
    BY <2>1, QuietTurns
<1> QED
  BY <1>1, <1>2, <1>3, <1>4, <1>5 DEF Next

\* One message at a time is under way, for the last bubble, in every step.
LEMMA BubbleInvStep ==
    ASSUME BubbleInv, MaxDone = 1, "get" \notin Faults, [Next]_vars PROVE BubbleInv'
<1> USE DEF BubbleInv
<1>1. OwnInv'
  BY OwnStep
<1>2. IInv /\ FromWorkers /\ ShownListed
  BY DEF OwnInv, TurnByTurn
<1>3. FromWorkers'
  BY <1>2, FromWorkersStep
<1>4. /\ \A w \in Workers : worker'[w].pc = "new" => worker'[w].session = None
      /\ \A w \in Workers : server'[w].left = 0
      /\ app'.pc = "mount" => app'.streaming
      /\ app'.pc = "get" => app'.text = {}
  BY <1>2, CountStep
<1>5. ASSUME OneConnectionEach', OnScreen', NEW s \in Sessions, ui'.shown = s
      PROVE  LastBubbleOnly(s)'
  <2>1. OneConnectionEach
    BY <1>2, <1>5, OneEachBefore
  <2>2. CASE Selected /\ ui'.shown = app.active
    BY <1>2, <1>5, <2>2, SelectedTurns
  <2>3. CASE Deleted
    BY <1>2, <1>5, <2>3, NoneAssumption DEF Deleted, IInv, TypeOK
  <2>4. CASE /\ ~Selected /\ ~Deleted
             /\ OnScreen /\ ui'.shown = ui.shown /\ app'.active = app.active
    <3>1. app.active = s /\ ui.shown = s /\ app.pc # "get" /\ app'.active = s
          /\ app'.pc # "get" /\ s # None
      BY <1>5, <2>4, NoneAssumption DEF OnScreen
    <3>2. LastBubbleOnly(s)
      BY <2>1, <2>4, <3>1 DEF TurnByTurn
    <3> QED
      BY <2>1, <2>4, <3>1, <3>2, TurnsStay
  <2> QED
    BY <1>2, <1>5, <2>2, <2>3, <2>4, ScreenKept
<1>6. ui'.shown \in Sessions \cup {None}
  BY <1>1 DEF OwnInv, IInv, TypeOK
<1>7. TurnByTurn'
  BY <1>3, <1>4, <1>5, <1>6 DEF TurnByTurn
<1> QED
  BY <1>1, <1>7

\* No connection is made, nothing is under way.
LEMMA BubbleInit == Init => BubbleInv
<1> SUFFICES ASSUME Init PROVE BubbleInv
  OBVIOUS
<1>1. FromWorkers
  BY DEF Init, FromWorkers
<1>2. TurnByTurn
  BY <1>1 DEF Init, TurnByTurn, OnScreen
<1> QED
  BY <1>2, OwnInit DEF BubbleInv

\* With no session on the screen there is no text on it.
LEMMA BubbleText == BubbleInv => ChunksInTheirBubble
<1> SUFFICES ASSUME BubbleInv, OneConnectionEach, OnScreen, NEW i \in DOMAIN ui.bubbles
             PROVE  ui.bubbles[i].text \subseteq {ui.bubbles[i].turn}
  BY DEF ChunksInTheirBubble
<1> USE DEF BubbleInv, OwnInv
<1>1. CASE ui.shown # None
  BY <1>1 DEF TurnByTurn, LastBubbleOnly
<1>2. CASE ui.shown = None
  BY <1>2, NoneAssumption DEF OwnTurns, OnlyOwnAnswers
<1> QED
  BY <1>1, <1>2

\* However handlers, workers and turns interleave and whatever fails but a GET: a bubble
\* shows the chunks of its own turn and of no other, as long as no session was left and
\* selected again and a turn sends one DoneFrame.
THEOREM ChunksInTheirBubbleHolds ==
    ASSUME MaxDone = 1, "get" \notin Faults
    PROVE  Spec => []ChunksInTheirBubble
<1>1. BubbleInv /\ [Next]_vars => BubbleInv'
  BY BubbleInvStep
<1> QED
  BY <1>1, BubbleInit, BubbleText, PTL DEF Spec
=============================================================================
