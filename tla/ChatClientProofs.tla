-------------------------- MODULE ChatClientProofs --------------------------
(***************************************************************************)
(* Proofs about ChatClient, for every set of sessions, workers and turns   *)
(* and every bound.  What may fail and whether a cancelled worker ends     *)
(* before the next one connects is assumed where a theorem says so.        *)
(***************************************************************************)
EXTENDS ChatClient, SequenceTheorems, TLAPS

-----------------------------------------------------------------------------
(* The queue                                                               *)

\* Appending a message keeps the others in their places and puts it last.
LEMMA PostedOne ==
    ASSUME NEW S, NEW q \in Seq(S), NEW m \in S
    PROVE  /\ q \o <<m>> = Append(q, m)
           /\ Append(q, m) \in Seq(S)
           /\ DOMAIN Append(q, m) = 1..(Len(q) + 1)
           /\ DOMAIN q = 1..Len(q)
           /\ Len(q) \in Nat
           /\ \A i \in 1..Len(q) : Append(q, m)[i] = q[i]
           /\ Append(q, m)[Len(q) + 1] = m
BY AppendProperties, AppendIsConcat, LenProperties

\* Posting two messages is posting one after the other.
LEMMA PostedTwo ==
    ASSUME NEW S, NEW q \in Seq(S), NEW m \in S, NEW n \in S
    PROVE  q \o <<m, n>> = Append(Append(q, m), n)
<1>1. <<m>> \in Seq(S) /\ <<n>> \in Seq(S) /\ <<m, n>> \in Seq(S)
  OBVIOUS
<1>2. <<m, n>> = <<m>> \o <<n>>
  <2>1. Len(<<m>> \o <<n>>) = 2 /\ Len(<<m, n>>) = 2
    BY <1>1, ConcatProperties
  <2>2. (<<m>> \o <<n>>)[1] = m /\ (<<m>> \o <<n>>)[2] = n
    BY <1>1, ConcatProperties
  <2>3. \A i \in 1..Len(<<m, n>>) : <<m, n>>[i] = (<<m>> \o <<n>>)[i]
    BY <2>1, <2>2
  <2> QED
    BY <1>1, <2>1, <2>3, SeqEqual, ConcatProperties
<1>3. (q \o <<m>>) \o <<n>> = q \o <<m, n>>
  BY <1>1, <1>2, ConcatAssociative
<1> QED
  BY <1>3, PostedOne

\* Taking the first message moves the others one place up.
LEMMA TakenFirst ==
    ASSUME NEW S, NEW q \in Seq(S), q # <<>>
    PROVE  /\ Head(q) = q[1] /\ Head(q) \in S
           /\ Tail(q) \in Seq(S)
           /\ Len(q) \in Nat \ {0}
           /\ DOMAIN q = 1..Len(q)
           /\ DOMAIN Tail(q) = 1..(Len(q) - 1)
           /\ \A i \in 1..(Len(q) - 1) : Tail(q)[i] = q[i + 1]
<1>1. Len(q) \in Nat \ {0} /\ DOMAIN q = 1..Len(q) /\ Head(q) = q[1]
  BY EmptySeq, LenProperties
<1>2. Len(Tail(q)) = Len(q) - 1 /\ Tail(q) \in Seq(S) /\ Head(q) \in S
  BY HeadTailProperties
<1>3. DOMAIN Tail(q) = 1..(Len(q) - 1)
  BY <1>2, LenProperties
<1> QED
  BY <1>1, <1>2, <1>3, HeadTailProperties

\* What a message a step puts into the queue says: a click on a session names it, and
\* a worker's message its session.  The worker has connected by now, or failed to.
Posted(m) ==
    /\ m \in Message
    /\ \/ /\ m.kind \in Presses
          /\ m.kind = "select" => m.session \in Sessions
       \/ \E w \in Workers :
            /\ m.kind \notin Presses
            /\ worker[w].pc # "new"
            /\ m.session = worker[w].session
            /\ worker'[w].session = worker[w].session
            /\ worker'[w].pc \notin {"new", "connecting"}
            /\ m.kind = "chunk" => m.turn \in Turns /\ m.turn = server[w].turn

\* A step takes the first message, or appends at most two.
QueueSteps ==
    \/ queue' = queue
    \/ queue # <<>> /\ queue' = Tail(queue)
    \/ \E m \in Message : Posted(m) /\ queue' = Append(queue, m)
    \/ \E m, n \in Message : Posted(m) /\ Posted(n) /\ queue' = Append(Append(queue, m), n)

\* A press goes into the queue as it is.
LEMMA PressPosted ==
    ASSUME TypeOK, NEW kind \in Presses, NEW s \in Sessions \cup {None}, Press(kind, s),
           kind = "select" => s \in Sessions
    PROVE  QueueSteps
<1> DEFINE m == Msg(kind, s, None)
<1>1. m \in Message
  BY DEF Msg, Message, Kinds
<1>2. m.kind = kind /\ m.session = s
  BY DEF Msg
<1>3. Posted(m)
  BY <1>1, <1>2 DEF Posted
<1>4. queue' = Append(queue, m)
  BY DEF Press
<1> QED
  BY <1>1, <1>3, <1>4 DEF QueueSteps

\* A connected worker and the server post a worker's message.
LEMMA EmitPosted ==
    ASSUME TypeOK, NEW w \in Workers, NEW kind \in Kinds \ Presses,
           NEW t \in Turns \cup {None},
           kind = "chunk" => t \in Turns /\ t = server[w].turn,
           worker[w].pc # "new",
           worker'[w].session = worker[w].session,
           worker'[w].pc \notin {"new", "connecting"}
    PROVE  /\ Msg(kind, worker[w].session, t) \in Message
           /\ Posted(Msg(kind, worker[w].session, t))
<1> DEFINE m == Msg(kind, worker[w].session, t)
<1>1. m \in Message
  BY DEF Msg, Message, TypeOK
<1>2. m.kind = kind /\ m.session = worker[w].session /\ m.turn = t
  BY DEF Msg
<1>3. Posted(m)
  BY <1>1, <1>2 DEF Posted
<1> QED
  BY <1>1, <1>3

\* An emitted frame is appended.
LEMMA EmitSteps ==
    ASSUME TypeOK, NEW w \in Workers, NEW kind \in Kinds \ Presses,
           NEW t \in Turns \cup {None}, ServerStep(w), Emit(w, kind, t),
           kind = "chunk" => t \in Turns /\ t = server[w].turn
    PROVE  QueueSteps
<1>1. Msg(kind, worker[w].session, t) \in Message /\ Posted(Msg(kind, worker[w].session, t))
  BY EmitPosted DEF ServerStep, Alive
<1>2. queue' = Append(queue, Msg(kind, worker[w].session, t))
  BY <1>1, PostedOne DEF Emit, Post, TypeOK
<1> QED
  BY <1>1, <1>2 DEF QueueSteps

\* The kinds of the workers' messages.
LEMMA KindFacts ==
    /\ "connected" \in Kinds \ Presses /\ "disconnected" \in Kinds \ Presses
    /\ "chunk" \in Kinds \ Presses /\ "done" \in Kinds \ Presses /\ "error" \in Kinds \ Presses
    /\ "submit" \in Presses /\ "new" \in Presses /\ "select" \in Presses /\ "delete" \in Presses
    /\ Presses \subseteq Kinds
BY DEF Kinds, Presses

\* The user's presses, the workers' and the server's steps append messages; the App's
\* handlers take one at most.
LEMMA QueueStep ==
    ASSUME TypeOK, [Next]_vars PROVE QueueSteps
<1> USE KindFacts
<1>1. CASE UserSubmits
  BY <1>1, PressPosted DEF UserSubmits
<1>2. CASE UserClicks
  BY <1>2, PressPosted DEF UserClicks
<1>3. CASE AppNext
  BY <1>3 DEF AppNext, HandleSelect, Selected, SelectFails, HandleNew, Created, HandleDelete,
              Deleted, DeleteFails, SubmitIgnored, SubmitAccepted, FrameSent, FrameNotSent,
              HandleDropped, HandleConnected, HandleDisconnected, HandleChunk, HandleEnd,
              TakesActive, Takes, QueueSteps
<1>4. ASSUME NEW w \in Workers, WorkerConnects(w) PROVE QueueSteps
  <2>1. worker'[w] = [worker[w] EXCEPT !.pc = "open"] /\ worker[w].pc = "connecting"
    BY <1>4 DEF WorkerConnects, TypeOK
  <2>2. worker'[w].pc = "open" /\ worker'[w].session = worker[w].session
    BY <2>1 DEF TypeOK
  <2> DEFINE m == Msg("connected", worker[w].session, None)
  <2>3. m \in Message /\ Posted(m)
    BY <2>1, <2>2, EmitPosted
  <2>4. queue' = Append(queue, m)
    BY <1>4, <2>3, PostedOne DEF WorkerConnects, Post, TypeOK
  <2> QED
    BY <2>3, <2>4 DEF QueueSteps
<1>5. ASSUME NEW w \in Workers, SocketCloses(w) PROVE QueueSteps
  BY <1>5 DEF SocketCloses, QueueSteps
<1>6. ASSUME NEW w \in Workers, WorkerEnds(w) PROVE QueueSteps
  <2> DEFINE m == Msg("error", worker[w].session, None)
  <2> DEFINE n == Msg("disconnected", worker[w].session, None)
  <2>1. worker'[w] = [worker[w] EXCEPT !.pc = "ended"] /\ worker[w].pc # "new"
    BY <1>6 DEF WorkerEnds, TypeOK
  <2>2. worker'[w].pc = "ended" /\ worker'[w].session = worker[w].session
    BY <2>1 DEF TypeOK
  <2>3. m \in Message /\ Posted(m)
    BY <2>1, <2>2, EmitPosted
  <2>4. n \in Message /\ Posted(n)
    BY <2>1, <2>2, EmitPosted
  <2>5. queue' = queue \o <<n>> \/ queue' = queue \o <<m, n>>
    BY <1>6 DEF WorkerEnds, Post
  <2>6. queue' = Append(queue, n) \/ queue' = Append(Append(queue, m), n)
    <3> HIDE DEF m, n
    <3> QED
      BY <2>3, <2>4, <2>5, PostedOne, PostedTwo DEF TypeOK
  <2> QED
    BY <2>3, <2>4, <2>6 DEF QueueSteps
<1>7. ASSUME NEW w \in Workers, ServerNext(w) PROVE QueueSteps
  <2>1. server[w].turn \in Turns \cup {None}
    BY DEF TypeOK
  <2>2. CASE ServerReceives(w)
    BY <2>2, EmitSteps DEF ServerReceives, QueueSteps
  <2>3. CASE ServerChunk(w)
    BY <2>1, <2>3, EmitSteps DEF ServerChunk
  <2>4. CASE ServerDone(w)
    BY <2>1, <2>4, EmitSteps DEF ServerDone
  <2>5. CASE ServerDoneAgain(w)
    BY <2>1, <2>5, EmitSteps DEF ServerDoneAgain
  <2>6. CASE ServerFails(w)
    BY <2>6, EmitSteps DEF ServerFails, QueueSteps
  <2>7. CASE ServerTurnEnds(w)
    BY <2>7 DEF ServerTurnEnds, QueueSteps
  <2> QED
    BY <1>7, <2>2, <2>3, <2>4, <2>5, <2>6, <2>7 DEF ServerNext
<1>8. CASE UNCHANGED vars
  BY <1>8 DEF vars, QueueSteps
<1> QED
  BY <1>1, <1>2, <1>3, <1>4, <1>5, <1>6, <1>7, <1>8 DEF Next, WorkerNext

\* What is in the queue after a step was there before it, or the step posted it.
LEMMA QueueElements ==
    ASSUME TypeOK, QueueSteps
    PROVE  /\ queue' \in Seq(Message)
           /\ \A i \in DOMAIN queue' :
                queue'[i] \in Message /\ (Posted(queue'[i]) \/ \E k \in DOMAIN queue : queue'[i] = queue[k])
<1>0. queue \in Seq(Message)
  BY DEF TypeOK
<1>1. CASE queue' = queue
  BY <1>0, <1>1, ElementOfSeq, LenProperties
<1>2. CASE queue # <<>> /\ queue' = Tail(queue)
  <2>1. \A i \in DOMAIN queue' : i + 1 \in DOMAIN queue /\ queue'[i] = queue[i + 1]
    BY <1>0, <1>2, TakenFirst
  <2> QED
    BY <1>0, <1>2, <2>1, TakenFirst, ElementOfSeq, LenProperties
<1>3. ASSUME NEW m \in Message, Posted(m), queue' = Append(queue, m)
      PROVE  /\ queue' \in Seq(Message)
             /\ \A i \in DOMAIN queue' :
                    queue'[i] \in Message /\ (Posted(queue'[i]) \/ \E k \in DOMAIN queue : queue'[i] = queue[k])
  <2>1. \A i \in DOMAIN queue' : queue'[i] = m \/ (i \in DOMAIN queue /\ queue'[i] = queue[i])
    BY <1>0, <1>3, PostedOne
  <2> QED
    BY <1>0, <1>3, <2>1, PostedOne, ElementOfSeq, LenProperties
<1>4. ASSUME NEW m \in Message, NEW n \in Message, Posted(m), Posted(n),
             queue' = Append(Append(queue, m), n)
      PROVE  /\ queue' \in Seq(Message)
             /\ \A i \in DOMAIN queue' :
                    queue'[i] \in Message /\ (Posted(queue'[i]) \/ \E k \in DOMAIN queue : queue'[i] = queue[k])
  <2> DEFINE q == Append(queue, m)
  <2>1. q \in Seq(Message) /\ \A i \in DOMAIN q : q[i] = m \/ (i \in DOMAIN queue /\ q[i] = queue[i])
    BY <1>0, PostedOne
  <2> HIDE DEF q
  <2>2. \A i \in DOMAIN Append(q, n) : Append(q, n)[i] = n \/ (i \in DOMAIN q /\ Append(q, n)[i] = q[i])
    BY <2>1, PostedOne
  <2>3. queue' = Append(q, n)
    BY <1>4 DEF q
  <2>4. \A i \in DOMAIN queue' : queue'[i] = n \/ queue'[i] = m
                                 \/ (i \in DOMAIN queue /\ queue'[i] = queue[i])
    BY <2>1, <2>2, <2>3
  <2>5. queue' \in Seq(Message)
    BY <2>1, <2>3, PostedOne
  <2> QED
    BY <1>0, <1>4, <2>4, <2>5, ElementOfSeq, LenProperties
<1> QED
  BY <1>1, <1>2, <1>3, <1>4 DEF QueueSteps

-----------------------------------------------------------------------------
(* Types                                                                   *)

\* The places a handler may be suspended in.
LEMMA PcFacts ==
    /\ "idle" \in AppPcs /\ "get" \in AppPcs /\ "post" \in AppPcs /\ "delete" \in AppPcs
    /\ "mount" \in AppPcs /\ "crashed" \in AppPcs
BY DEF AppPcs

\* The rendered history, an appended bubble and a rewritten text are bubbles.
LEMMA BubbleUpdates ==
    /\ \A a \in Seq(Turns) :
        [i \in DOMAIN a |-> [turn |-> a[i], text |-> {a[i]}]] \in Seq(Bubble)
    /\ \A b \in Seq(Bubble), t \in Turns : Append(b, [turn |-> t, text |-> {}]) \in Seq(Bubble)
    /\ \A b \in Seq(Bubble), text \in SUBSET Turns :
        b # <<>> => [b EXCEPT ![Len(b)].text = text] \in Seq(Bubble)
<1>1. ASSUME NEW a \in Seq(Turns)
      PROVE  [i \in DOMAIN a |-> [turn |-> a[i], text |-> {a[i]}]] \in Seq(Bubble)
  <2>1. DOMAIN a = 1..Len(a) /\ Len(a) \in Nat /\ \A i \in 1..Len(a) : a[i] \in Turns
    BY LenProperties, ElementOfSeq
  <2>2. [i \in 1..Len(a) |-> [turn |-> a[i], text |-> {a[i]}]] \in [1..Len(a) -> Bubble]
    BY <2>1 DEF Bubble
  <2> QED
    BY <2>1, <2>2, SeqDef
<1>2. ASSUME NEW b \in Seq(Bubble), NEW t \in Turns
      PROVE  Append(b, [turn |-> t, text |-> {}]) \in Seq(Bubble)
  <2>1. [turn |-> t, text |-> {}] \in Bubble
    BY DEF Bubble
  <2> QED
    BY <2>1, AppendProperties
<1>3. ASSUME NEW b \in Seq(Bubble), NEW text \in SUBSET Turns, b # <<>>
      PROVE  [b EXCEPT ![Len(b)].text = text] \in Seq(Bubble)
  <2>1. Len(b) \in 1..Len(b) /\ DOMAIN b = 1..Len(b)
    BY <1>3, EmptySeq, LenProperties
  <2>2. b[Len(b)] \in Bubble
    BY <2>1, ElementOfSeq
  <2>3. [b[Len(b)] EXCEPT !.text = text] \in Bubble
    BY <2>2 DEF Bubble
  <2> DEFINE new == [b[Len(b)] EXCEPT !.text = text]
  <2>4. [b EXCEPT ![Len(b)] = new] \in Seq(Bubble)
    BY <2>1, <2>3, ExceptSeq
  <2> QED
    BY <2>4
<1> QED
  BY <1>1, <1>2, <1>3

WorkerType ==
    [Workers -> [pc : {"new", "connecting", "open", "closed", "cancelled", "ended"},
                 session : Sessions \cup {None}]]

ServerType ==
    [Workers -> [inbox : Seq(Turns), turn : Turns \cup {None},
                 phase : {"new", "llm", "chunked", "done"}, left : 0..MaxDone]]

\* A worker's state stays of its type when it moves on, is cancelled or starts.
LEMMA WorkerUpdates ==
    ASSUME worker \in WorkerType
    PROVE  /\ \A w \in Workers, pc \in {"open", "closed", "ended"} :
                [worker EXCEPT ![w].pc = pc] \in WorkerType
           /\ \A w \in Workers, s \in Sessions :
                [Cancelled EXCEPT ![w] = [pc |-> "connecting", session |-> s]] \in WorkerType
<1>1. Cancelled \in WorkerType
  BY DEF Cancelled, WorkerType
<1>2. ASSUME NEW w \in Workers, NEW s \in Sessions
      PROVE  [Cancelled EXCEPT ![w] = [pc |-> "connecting", session |-> s]] \in WorkerType
  BY <1>1 DEF WorkerType
<1>3. ASSUME NEW w \in Workers, NEW pc \in {"open", "closed", "ended"}
      PROVE  [worker EXCEPT ![w].pc = pc] \in WorkerType
  BY DEF WorkerType
<1> QED
  BY <1>2, <1>3

\* A connection's state stays of its type when its fields are assigned.
LEMMA ServerUpdates ==
    ASSUME server \in ServerType
    PROVE  /\ \A w \in Workers, inbox \in Seq(Turns) :
                [server EXCEPT ![w].inbox = inbox] \in ServerType
           /\ \A w \in Workers, inbox \in Seq(Turns), t \in Turns :
                [server EXCEPT ![w] = [inbox |-> inbox, turn |-> t, phase |-> "llm", left |-> 0]]
                    \in ServerType
           /\ \A w \in Workers, phase \in {"llm", "chunked", "done"} :
                [server EXCEPT ![w].phase = phase] \in ServerType
           /\ \A w \in Workers, left \in 0..MaxDone :
                /\ [server EXCEPT ![w].left = left] \in ServerType
                /\ [server EXCEPT ![w].phase = "done", ![w].left = left] \in ServerType
           /\ \A w \in Workers : [server EXCEPT ![w].turn = None] \in ServerType
<1> USE BoundsAssumption
<1>1. 0 \in 0..MaxDone
  OBVIOUS
<1>2. \A w \in Workers, inbox \in Seq(Turns) :
        /\ [server EXCEPT ![w].inbox = inbox] \in ServerType
        /\ \A t \in Turns :
            [server EXCEPT ![w] = [inbox |-> inbox, turn |-> t, phase |-> "llm", left |-> 0]]
                \in ServerType
  BY <1>1 DEF ServerType
<1>3. \A w \in Workers, phase \in {"llm", "chunked", "done"} :
        [server EXCEPT ![w].phase = phase] \in ServerType
  BY DEF ServerType
<1>4. \A w \in Workers, left \in 0..MaxDone :
        /\ [server EXCEPT ![w].left = left] \in ServerType
        /\ [server EXCEPT ![w].phase = "done", ![w].left = left] \in ServerType
  BY DEF ServerType
<1>5. \A w \in Workers : [server EXCEPT ![w].turn = None] \in ServerType
  BY DEF ServerType
<1> QED
  BY <1>2, <1>3, <1>4, <1>5

\* The App's variables stay of their types when a handler runs.
LEMMA AppTyped ==
    ASSUME TypeOK, Shape, AppNext
    PROVE  TypeOK'
<1> USE PcFacts, BubbleUpdates
<1>0. queue' \in Seq(Message)
  <2>2. queue' = queue \/ (queue # <<>> /\ queue' = Tail(queue))
    BY DEF AppNext, HandleSelect, Selected, SelectFails, HandleNew, Created, HandleDelete,
           Deleted, DeleteFails, SubmitIgnored, SubmitAccepted, FrameSent, FrameNotSent,
           HandleDropped, HandleConnected, HandleDisconnected, HandleChunk, HandleEnd,
           TakesActive, Takes
  <2>3. queue \in Seq(Message)
    BY DEF TypeOK
  <2> QED
    BY <2>2, <2>3, TakenFirst
<1>1. CASE HandleSelect
  <2>1. Head(queue).session \in Sessions
    BY <1>1, TakenFirst DEF HandleSelect, Takes, TypeOK, Shape
  <2> QED
    BY <1>0, <1>1, <2>1 DEF HandleSelect, Takes, Selecting, TypeOK
<1>2. CASE Selected
  <2>1. app.active \in Sessions
    BY <1>2 DEF Selected, Shape
  <2>2. answered[app.active] \in Seq(Turns)
    BY <2>1 DEF TypeOK
  <2>3. ui' \in [enabled : BOOLEAN, value : BOOLEAN, shown : Sessions \cup {None},
                 bubbles : Seq(Bubble)]
    BY <1>2, <2>1, <2>2 DEF Selected, TypeOK
  <2>4. worker' \in WorkerType
    BY <1>2, <2>1, WorkerUpdates DEF Selected, TypeOK, WorkerType
  <2>5. UNCHANGED <<item, queue, server, answered, fresh, home>>
        /\ app' = [app EXCEPT !.pc = "idle"]
    BY <1>2 DEF Selected
  <2> QED
    BY <1>0, <2>3, <2>4, <2>5 DEF TypeOK, WorkerType
<1>3. CASE SelectFails
  BY <1>0, <1>3 DEF SelectFails, TypeOK
<1>4. CASE HandleNew
  BY <1>0, <1>4 DEF HandleNew, TypeOK
<1>5. CASE Created
  BY <1>0, <1>5 DEF Created, Selecting, TypeOK
<1>6. CASE HandleDelete
  BY <1>0, <1>6 DEF HandleDelete, TypeOK
<1>7. CASE Deleted
  <2>1. <<>> \in Seq(Bubble)
    OBVIOUS
  <2> QED
    BY <1>0, <1>7, <2>1 DEF Deleted, TypeOK
<1>8. CASE DeleteFails
  BY <1>0, <1>8 DEF DeleteFails, TypeOK
<1>9. CASE SubmitIgnored
  BY <1>0, <1>9 DEF SubmitIgnored, TypeOK
<1>10. CASE SubmitAccepted
  <2>1. PICK t \in fresh :
            /\ fresh' = fresh \ {t}
            /\ ui' = [ui EXCEPT !.value = FALSE, !.enabled = FALSE,
                                !.bubbles = Append(@, [turn |-> t, text |-> {}])]
    BY <1>10 DEF SubmitAccepted
  <2>2. Append(ui.bubbles, [turn |-> t, text |-> {}]) \in Seq(Bubble)
    BY DEF TypeOK
  <2>3. ui' \in [enabled : BOOLEAN, value : BOOLEAN, shown : Sessions \cup {None},
                 bubbles : Seq(Bubble)]
    BY <2>1, <2>2 DEF TypeOK
  <2>4. fresh' \subseteq Turns
    BY <2>1 DEF TypeOK
  <2> QED
    BY <1>0, <1>10, <2>3, <2>4 DEF SubmitAccepted, TypeOK
<1>11. CASE FrameSent
  <2>1. Last(ui.bubbles) \in Bubble
    BY <1>11, EmptySeq, ElementOfSeq DEF FrameSent, Shape, TypeOK, Last
  <2>2. Last(ui.bubbles).turn \in Turns
    BY <2>1 DEF Bubble
  <2>3. app.ws \in Workers
    BY <1>11 DEF FrameSent
  <2>4. Append(server[app.ws].inbox, Last(ui.bubbles).turn) \in Seq(Turns)
    BY <2>2, <2>3, AppendProperties DEF TypeOK
  <2>5. server' = [server EXCEPT ![app.ws].inbox =
                        Append(server[app.ws].inbox, Last(ui.bubbles).turn)]
    BY <1>11 DEF FrameSent
  <2>6. server \in ServerType
    BY DEF TypeOK, ServerType
  <2>7. server' \in ServerType
    BY <2>3, <2>4, <2>5, <2>6, ServerUpdates
  <2>8. home' = [home EXCEPT ![Last(ui.bubbles).turn] = worker[app.ws].session]
    BY <1>11 DEF FrameSent
  <2>9. worker[app.ws].session \in Sessions \cup {None}
    BY <2>3 DEF TypeOK
  <2>10. home' \in [Turns -> Sessions \cup {None}]
    BY <2>2, <2>8, <2>9 DEF TypeOK
  <2> QED
    BY <1>0, <1>11, <2>7, <2>10 DEF FrameSent, TypeOK, ServerType
<1>12. CASE FrameNotSent
  BY <1>0, <1>12 DEF FrameNotSent, TypeOK
<1>13. CASE HandleDropped
  BY <1>0, <1>13 DEF HandleDropped, TypeOK
<1>14. CASE HandleConnected
  BY <1>0, <1>14 DEF HandleConnected, TypeOK
<1>15. CASE HandleDisconnected
  BY <1>0, <1>15 DEF HandleDisconnected, TypeOK
<1>16. CASE HandleChunk
  <2> DEFINE text == app.text \cup {Head(queue).turn}
  <2>1. Head(queue).turn \in Turns
    BY <1>16, TakenFirst DEF HandleChunk, TakesActive, Takes, TypeOK, Shape
  <2>2. text \in SUBSET Turns
    BY <2>1 DEF TypeOK
  <2>3. app' = [app EXCEPT !.text = text]
    BY <1>16 DEF HandleChunk
  <2>4. ui' = IF ui.bubbles = <<>> THEN ui
              ELSE [ui EXCEPT !.bubbles = [ui.bubbles EXCEPT ![Len(ui.bubbles)].text = text]]
    BY <1>16 DEF HandleChunk
  <2>5. UNCHANGED <<item, worker, server, answered, fresh, home>>
    BY <1>16 DEF HandleChunk
  <2> HIDE DEF text
  <2>6. app' \in [pc : AppPcs, active : Sessions \cup {None}, ws : Workers \cup {None},
                  streaming : BOOLEAN, text : SUBSET Turns]
    BY <2>2, <2>3 DEF TypeOK
  <2>7. ui' \in [enabled : BOOLEAN, value : BOOLEAN, shown : Sessions \cup {None},
                 bubbles : Seq(Bubble)]
    <3>1. ui.bubbles # <<>> => [ui.bubbles EXCEPT ![Len(ui.bubbles)].text = text] \in Seq(Bubble)
      BY <2>2 DEF TypeOK
    <3> QED
      BY <2>4, <3>1 DEF TypeOK
  <2> QED
    BY <1>0, <2>5, <2>6, <2>7 DEF TypeOK
<1>17. CASE HandleEnd
  BY <1>0, <1>17 DEF HandleEnd, TypeOK
<1> QED
  BY <1>1, <1>2, <1>3, <1>4, <1>5, <1>6, <1>7, <1>8, <1>9, <1>10, <1>11, <1>12, <1>13, <1>14,
     <1>15, <1>16, <1>17 DEF AppNext

\* The state space is closed under every step.
LEMMA TypeStep ==
    ASSUME TypeOK, Shape, [Next]_vars PROVE TypeOK'
<1>0. queue' \in Seq(Message)
  BY QueueStep, QueueElements
<1>1. CASE UserSubmits
  BY <1>0, <1>1 DEF UserSubmits, Press, TypeOK
<1>2. CASE UserClicks
  BY <1>0, <1>2 DEF UserClicks, Press, TypeOK
<1>3. CASE AppNext
  BY <1>3, AppTyped
<1>4. ASSUME NEW w \in Workers, WorkerNext(w) PROVE TypeOK'
  <2>1. worker \in WorkerType
    BY DEF TypeOK, WorkerType
  <2>2. worker' \in WorkerType
    BY <1>4, <2>1, WorkerUpdates DEF WorkerNext, WorkerConnects, SocketCloses, WorkerEnds
  <2>3. UNCHANGED <<ui, item, server, answered, fresh, home>>
    BY <1>4 DEF WorkerNext, WorkerConnects, SocketCloses, WorkerEnds
  <2>4. app' \in [pc : AppPcs, active : Sessions \cup {None}, ws : Workers \cup {None},
                  streaming : BOOLEAN, text : SUBSET Turns]
    BY <1>4 DEF WorkerNext, WorkerConnects, SocketCloses, WorkerEnds, TypeOK
  <2> QED
    BY <1>0, <2>2, <2>3, <2>4 DEF TypeOK, WorkerType
<1>5. ASSUME NEW w \in Workers, ServerNext(w) PROVE TypeOK'
  <2>1. UNCHANGED <<app, ui, item, worker, fresh, home>> /\ worker[w].session \in Sessions
    BY <1>5 DEF ServerNext, ServerReceives, ServerChunk, ServerDone, ServerDoneAgain,
                ServerFails, ServerTurnEnds, ServerStep, Alive, Shape
  <2>2. server \in ServerType /\ answered \in [Sessions -> Seq(Turns)]
    BY DEF TypeOK, ServerType
  <2>3. server[w].inbox \in Seq(Turns) /\ server[w].turn \in Turns \cup {None}
        /\ server[w].left \in 0..MaxDone
    BY <2>2 DEF ServerType
  <2>4. answered' \in [Sessions -> Seq(Turns)]
    <3>1. CASE ServerDone(w)
      <4>1. Append(answered[worker[w].session], server[w].turn) \in Seq(Turns)
        BY <2>1, <2>2, <2>3, <3>1, AppendProperties DEF ServerDone
      <4> QED
        BY <2>1, <2>2, <3>1, <4>1 DEF ServerDone
    <3>2. CASE ~ServerDone(w)
      BY <1>5, <2>2, <3>2 DEF ServerNext, ServerReceives, ServerChunk, ServerDoneAgain,
                              ServerFails, ServerTurnEnds
    <3> QED
      BY <3>1, <3>2
  <2>5. server' \in ServerType
    <3>1. CASE ServerReceives(w)
      <4>1. Head(server[w].inbox) \in Turns /\ Tail(server[w].inbox) \in Seq(Turns)
        BY <2>3, <3>1, HeadTailProperties DEF ServerReceives
      <4> DEFINE rest == Tail(server[w].inbox)
                 t == Head(server[w].inbox)
      <4>2. \/ server' = [server EXCEPT ![w] = [inbox |-> rest, turn |-> t, phase |-> "llm",
                                                left |-> 0]]
            \/ server' = [server EXCEPT ![w].inbox = rest]
        BY <2>2, <3>1 DEF ServerReceives, ServerType
      <4> HIDE DEF rest, t
      <4>3. rest \in Seq(Turns) /\ t \in Turns
        BY <4>1 DEF rest, t
      <4> QED
        BY <2>2, <4>2, <4>3, ServerUpdates
    <3>2. CASE ServerChunk(w) \/ ServerFails(w) \/ ServerTurnEnds(w)
      BY <2>2, <3>2, ServerUpdates DEF ServerChunk, ServerFails, ServerTurnEnds
    <3>3. CASE ServerDone(w)
      <4>1. \A frames \in 1..MaxDone : frames - 1 \in 0..MaxDone
        BY BoundsAssumption
      <4> QED
        BY <2>2, <3>3, <4>1, ServerUpdates DEF ServerDone
    <3>4. CASE ServerDoneAgain(w)
      <4>1. server[w].left - 1 \in 0..MaxDone
        BY <2>3, <3>4, BoundsAssumption DEF ServerDoneAgain
      <4> QED
        BY <2>2, <3>4, <4>1, ServerUpdates DEF ServerDoneAgain
    <3> QED
      BY <1>5, <3>1, <3>2, <3>3, <3>4 DEF ServerNext
  <2> QED
    BY <1>0, <2>1, <2>4, <2>5 DEF TypeOK, ServerType
<1>6. CASE UNCHANGED vars
  BY <1>6 DEF vars, TypeOK
<1> QED
  BY <1>1, <1>2, <1>3, <1>4, <1>5, <1>6 DEF Next

-----------------------------------------------------------------------------
(* What a step may do to the workers, the connections and the screen       *)

\* A worker keeps its session and only moves forward: Selected starts it, it connects,
\* its socket closes, it is cancelled by the next Selected, it ends.
WorkerMoves ==
    \A w \in Workers :
        /\ worker[w].pc # "new" =>
            worker'[w].pc # "new" /\ worker'[w].session = worker[w].session
        /\ worker'[w].pc = "new" =>
            worker[w].pc = "new" /\ worker'[w].session = worker[w].session
        /\ worker[w].pc = "new" => worker'[w].pc \in {"new", "connecting"}
        /\ worker'[w].pc = "connecting" =>
            \/ worker[w].pc = "connecting"
            \/ Selected /\ worker[w].pc = "new" /\ worker'[w].session = app.active
        /\ worker'[w].pc = "open" =>
            worker[w].pc = "open" \/ (worker[w].pc = "connecting" /\ WorkerConnects(w))
        /\ worker'[w].pc = "closed" => worker[w].pc \in {"closed", "open"}
        /\ worker'[w].pc = "cancelled" => worker[w].pc = "cancelled" \/ Selected
        /\ worker'[w].pc = "ended" => worker[w].pc = "ended" \/ WorkerEnds(w)
        /\ worker[w].pc = "cancelled" => worker'[w].pc \in {"cancelled", "ended"}

\* Only three actions of the App's and the workers' own change a worker.
LEMMA WorkerStep ==
    ASSUME TypeOK, [Next]_vars PROVE WorkerMoves
<1>0. worker \in WorkerType
  BY DEF TypeOK, WorkerType
<1>1. CASE Selected
  <2>1. PICK w \in Workers :
            /\ worker[w].pc = "new"
            /\ worker' = [Cancelled EXCEPT ![w] = [pc |-> "connecting", session |-> app.active]]
    BY <1>1 DEF Selected
  <2>2. \A v \in Workers \ {w} :
            worker'[v] = IF worker[v].pc \in {"connecting", "open", "closed"}
                         THEN [worker[v] EXCEPT !.pc = "cancelled"] ELSE worker[v]
    BY <2>1 DEF Cancelled
  <2>3. worker'[w] = [pc |-> "connecting", session |-> app.active]
    BY <2>1 DEF Cancelled
  <2>4. \A v \in Workers \ {w} :
            /\ worker'[v].session = worker[v].session
            /\ worker'[v].pc = IF worker[v].pc \in {"connecting", "open", "closed"}
                               THEN "cancelled" ELSE worker[v].pc
    BY <1>0, <2>2 DEF WorkerType
  <2>5. worker'[w].pc = "connecting" /\ worker'[w].session = app.active
    BY <2>3
  <2> QED
    BY <1>0, <1>1, <2>1, <2>4, <2>5 DEF WorkerMoves
<1>2. ASSUME NEW w \in Workers, WorkerNext(w) PROVE WorkerMoves
  <2>1. \A v \in Workers \ {w} : worker'[v] = worker[v]
    BY <1>0, <1>2 DEF WorkerNext, WorkerConnects, SocketCloses, WorkerEnds, WorkerType
  <2>2. CASE WorkerConnects(w)
    <3>1. worker'[w] = [worker[w] EXCEPT !.pc = "open"] /\ worker[w].pc = "connecting"
      BY <1>0, <2>2 DEF WorkerConnects, WorkerType
    <3> QED
      BY <1>0, <2>1, <2>2, <3>1 DEF WorkerMoves, WorkerType
  <2>3. CASE SocketCloses(w)
    <3>1. worker'[w] = [worker[w] EXCEPT !.pc = "closed"] /\ worker[w].pc = "open"
      BY <1>0, <2>3 DEF SocketCloses, WorkerType
    <3> QED
      BY <1>0, <2>1, <3>1 DEF WorkerMoves, WorkerType
  <2>4. CASE WorkerEnds(w)
    <3>1. worker'[w] = [worker[w] EXCEPT !.pc = "ended"] /\ worker[w].pc # "new"
      BY <1>0, <2>4 DEF WorkerEnds, WorkerType
    <3>2. worker'[w].pc = "ended" /\ worker'[w].session = worker[w].session
      BY <1>0, <3>1 DEF WorkerType
    <3> QED
      BY <1>0, <2>1, <2>4, <3>1, <3>2 DEF WorkerMoves
  <2> QED
    BY <1>2, <2>2, <2>3, <2>4 DEF WorkerNext
<1>3. CASE UNCHANGED worker
  BY <1>3 DEF WorkerMoves
<1>4. Selected \/ (\E w \in Workers : WorkerNext(w)) \/ UNCHANGED worker
  BY DEF Next, vars, UserSubmits, UserClicks, Press, AppNext, HandleSelect, SelectFails,
         HandleNew, Created, HandleDelete, Deleted, DeleteFails, SubmitIgnored, SubmitAccepted,
         FrameSent, FrameNotSent, HandleDropped, HandleConnected, HandleDisconnected,
         HandleChunk, HandleEnd, ServerNext, ServerReceives, ServerChunk, ServerDone,
         ServerDoneAgain, ServerFails, ServerTurnEnds, ServerStep
<1> QED
  BY <1>1, <1>2, <1>3, <1>4

\* Nothing happens at the server on a connection that does not take or deliver frames,
\* and a message gets to it only from _send_message.
LEMMA ServerQuiet ==
    ASSUME TypeOK, [Next]_vars
    PROVE  \A w \in Workers :
            /\ server'[w] # server[w] => Alive(w)
            /\ Len(server'[w].inbox) > Len(server[w].inbox) => FrameSent /\ app.ws = w
<1>0. server \in ServerType
  BY DEF TypeOK, ServerType
<1>1. ASSUME FrameSent, NEW w \in Workers
      PROVE  (server'[w] # server[w] => Alive(w)) /\ (app.ws # w => server'[w] = server[w])
  BY <1>0, <1>1 DEF FrameSent, ServerType
<1>2. ASSUME NEW v \in Workers, ServerNext(v), NEW w \in Workers
      PROVE  /\ server'[w] # server[w] => Alive(w)
             /\ ~(Len(server'[w].inbox) > Len(server[w].inbox))
  <2>1. Alive(v)
    BY <1>2 DEF ServerNext, ServerReceives, ServerChunk, ServerDone, ServerDoneAgain,
                ServerFails, ServerTurnEnds, ServerStep
  <2>2. w # v => server'[w] = server[w]
    BY <1>0, <1>2 DEF ServerNext, ServerReceives, ServerChunk, ServerDone, ServerDoneAgain,
                      ServerFails, ServerTurnEnds, ServerType
  <2>3. Len(server[w].inbox) \in Nat
    BY <1>0, LenProperties DEF ServerType
  <2>4. CASE ServerReceives(v)
    <3>1. server'[v].inbox = Tail(server[v].inbox) /\ server[v].inbox # <<>>
      <4> DEFINE rest == Tail(server[v].inbox)
                 t == Head(server[v].inbox)
      <4>1. \/ server' = [server EXCEPT ![v] = [inbox |-> rest, turn |-> t, phase |-> "llm",
                                                left |-> 0]]
            \/ server' = [server EXCEPT ![v].inbox = rest]
        BY <1>0, <2>4 DEF ServerReceives, ServerType
      <4>2. server[v].inbox # <<>>
        BY <2>4 DEF ServerReceives
      <4> HIDE DEF rest, t
      <4>3. server'[v].inbox = rest
        BY <1>0, <4>1 DEF ServerType
      <4> QED
        BY <4>2, <4>3 DEF rest
    <3>2. Len(Tail(server[v].inbox)) = Len(server[v].inbox) - 1
      BY <1>0, <3>1, HeadTailProperties DEF ServerType
    <3>3. Len(server'[v].inbox) = Len(server[v].inbox) - 1
      BY <3>1, <3>2
    <3>4. w = v => ~(Len(server'[w].inbox) > Len(server[w].inbox))
      BY <2>3, <3>3
    <3>5. w # v => ~(Len(server'[w].inbox) > Len(server[w].inbox))
      BY <2>2, <2>3
    <3> QED
      BY <2>1, <2>2, <3>4, <3>5
  <2>5. CASE ~ServerReceives(v)
    <3>1. server'[v].inbox = server[v].inbox
      BY <1>0, <1>2, <2>5 DEF ServerNext, ServerChunk, ServerDone, ServerDoneAgain,
                              ServerFails, ServerTurnEnds, ServerType
    <3> QED
      BY <2>1, <2>2, <2>3, <3>1
  <2> QED
    BY <2>4, <2>5
<1>3. ASSUME UNCHANGED server, NEW w \in Workers
      PROVE  server'[w] = server[w]
  BY <1>3
<1>4. FrameSent \/ (\E v \in Workers : ServerNext(v)) \/ UNCHANGED server
  BY DEF Next, vars, UserSubmits, UserClicks, Press, AppNext, HandleSelect, Selected,
         SelectFails, HandleNew, Created, HandleDelete, Deleted, DeleteFails, SubmitIgnored,
         SubmitAccepted, FrameNotSent, HandleDropped, HandleConnected, HandleDisconnected,
         HandleChunk, HandleEnd, WorkerNext, WorkerConnects, SocketCloses, WorkerEnds
<1>5. \A w \in Workers : Len(server[w].inbox) \in Nat
  BY <1>0, LenProperties DEF ServerType
<1> QED
  BY <1>1, <1>2, <1>3, <1>4, <1>5

\* Awaits of the App resume with what they read: whoever else runs meanwhile, the
\* session is still the active one, and the bubbles are still there.
LEMMA AppStep ==
    ASSUME TypeOK, Shape, [Next]_vars
    PROVE  /\ app'.pc \in {"get", "delete"} => app'.active \in Sessions
           /\ app'.pc = "mount" => ui'.bubbles # <<>>
<1>1. CASE AppNext
  <2>1. CASE HandleSelect
    <3>1. Head(queue).session \in Sessions
      BY <2>1, TakenFirst DEF HandleSelect, Takes, TypeOK, Shape
    <3> QED
      BY <2>1, <3>1 DEF HandleSelect, Takes, Selecting, TypeOK
  <2>2. CASE SubmitAccepted
    <3>1. PICK t \in Turns : ui'.bubbles = Append(ui.bubbles, [turn |-> t, text |-> {}])
      BY <2>2 DEF SubmitAccepted, TypeOK
    <3> DEFINE b == [turn |-> t, text |-> {}]
    <3>2. b \in Bubble /\ ui.bubbles \in Seq(Bubble)
      BY DEF TypeOK, Bubble
    <3>3. ui'.bubbles # <<>>
      BY <3>1, <3>2, AppendProperties
    <3> QED
      BY <2>2, <3>3 DEF SubmitAccepted, TypeOK
  <2>3. CASE Created \/ HandleDelete
    BY <2>3 DEF Created, Selecting, HandleDelete, TypeOK
  <2>4. CASE ~(HandleSelect \/ SubmitAccepted \/ Created \/ HandleDelete)
    <3>1. app'.pc \notin {"get", "delete", "mount"}
      BY <1>1, <2>4 DEF AppNext, Selected, SelectFails, HandleNew, Deleted, DeleteFails,
          SubmitIgnored, FrameSent, FrameNotSent, HandleDropped, HandleConnected,
          HandleDisconnected, HandleChunk, HandleEnd, TakesActive, Takes, TypeOK
    <3> QED
      BY <3>1
  <2> QED
    BY <2>1, <2>2, <2>3, <2>4
<1>2. CASE ~AppNext
  <2>1. app'.pc = app.pc /\ app'.active = app.active /\ ui'.bubbles = ui.bubbles
    BY <1>2 DEF Next, vars, UserSubmits, UserClicks, Press, WorkerNext, WorkerConnects,
        SocketCloses, WorkerEnds, ServerNext, ServerReceives, ServerChunk, ServerDone,
        ServerDoneAgain, ServerFails, ServerTurnEnds, ServerStep, TypeOK
  <2> QED
    BY <2>1 DEF Shape
<1> QED
  BY <1>1, <1>2

\* The screen changes its session in two handlers.
LEMMA ScreenStep ==
    ASSUME TypeOK, [Next]_vars
    PROVE  \/ Selected /\ ui'.shown = app.active
           \/ Deleted /\ ui'.shown = None
           \/ ~Selected /\ ~Deleted /\ ui'.shown = ui.shown
<1>1. CASE Selected
  BY <1>1 DEF Selected, TypeOK
<1>2. CASE Deleted
  BY <1>2 DEF Deleted, TypeOK
<1>3. CASE ~Selected /\ ~Deleted
  BY <1>3 DEF Next, vars, UserSubmits, UserClicks, Press, AppNext, HandleSelect, SelectFails,
       HandleNew, Created, HandleDelete, DeleteFails, SubmitIgnored, SubmitAccepted,
       FrameSent, FrameNotSent, HandleDropped, HandleConnected, HandleDisconnected,
       HandleChunk, HandleEnd, WorkerNext, WorkerConnects, SocketCloses, WorkerEnds,
       ServerNext, ServerReceives, ServerChunk, ServerDone, ServerDoneAgain, ServerFails,
       ServerTurnEnds, ServerStep, TypeOK
<1> QED
  BY <1>1, <1>2, <1>3

-----------------------------------------------------------------------------
(* A message goes to the session on the screen                             *)

\* The last bubble is the last element of the bubbles.
LEMMA LastBubble ==
    ASSUME TypeOK, ui.bubbles # <<>>
    PROVE  /\ Len(ui.bubbles) \in DOMAIN ui.bubbles
           /\ Last(ui.bubbles) = ui.bubbles[Len(ui.bubbles)]
           /\ Last(ui.bubbles).turn \in Turns
<1>1. ui.bubbles \in Seq(Bubble)
  BY DEF TypeOK
<1>2. Len(ui.bubbles) \in 1..Len(ui.bubbles) /\ DOMAIN ui.bubbles = 1..Len(ui.bubbles)
  BY <1>1, EmptySeq, LenProperties
<1>3. ui.bubbles[Len(ui.bubbles)] \in Bubble
  BY <1>1, <1>2, ElementOfSeq
<1> QED
  BY <1>2, <1>3 DEF Last, Bubble

\* A step keeps what the awaits and the messages rely on.
LEMMA ShapeStep ==
    ASSUME TypeOK, Shape, [Next]_vars PROVE Shape'
<1>1. TypeOK' /\ WorkerMoves /\ QueueSteps
  BY TypeStep, WorkerStep, QueueStep
<1>2. ASSUME NEW i \in DOMAIN queue'
      PROVE  /\ queue'[i].kind \notin Presses \/ queue'[i].kind = "select"
                    => queue'[i].session \in Sessions
             /\ queue'[i].kind = "chunk" => queue'[i].turn \in Turns
  <2>1. CASE Posted(queue'[i])
    BY <2>1, KindFacts DEF Posted, Shape
  <2>2. CASE \E k \in DOMAIN queue : queue'[i] = queue[k]
    BY <2>2 DEF Shape
  <2> QED
    BY <1>1, <1>2, <2>1, <2>2, QueueElements
<1>3. ASSUME NEW w \in Workers
      PROVE  /\ worker'[w].pc # "new" => worker'[w].session \in Sessions
             /\ worker'[w].pc \in {"new", "connecting"} =>
                    server'[w].inbox = <<>> /\ server'[w].turn = None
  <2>1. worker'[w].pc \in {"new", "connecting"} =>
            /\ worker[w].pc \in {"new", "connecting"}
            /\ worker'[w].pc = "connecting" /\ worker[w].pc = "new"
                    => Selected /\ worker'[w].session = app.active
    BY <1>1 DEF WorkerMoves
  <2>2. worker'[w].pc \in {"new", "connecting"} => server'[w] = server[w]
    BY <2>1, ServerQuiet DEF Alive
  <2>3. Selected => app.active \in Sessions
    BY DEF Selected, Shape
  <2>4. worker'[w].pc # "new" =>
            worker[w].pc # "new" \/ worker'[w].pc = "connecting"
    BY <1>1 DEF WorkerMoves, TypeOK
  <2> QED
    BY <1>1, <2>1, <2>2, <2>3, <2>4 DEF WorkerMoves, Shape
<1> QED
  BY <1>2, <1>3, AppStep DEF Shape

\* The worker Selected starts serves the session it has put on the screen, and the
\* others are cancelled.
LEMMA LiveStep ==
    ASSUME IInv, [Next]_vars PROVE LiveWorkerShown'
<1> USE DEF IInv
<1>1. SUFFICES ASSUME NEW w \in Workers, Live(w)'
               PROVE  ui'.shown \in {worker'[w].session, None}
  BY DEF LiveWorkerShown
<1>2. WorkerMoves
  BY WorkerStep
<1>3. CASE Selected
  <2>1. PICK v \in Workers :
            /\ worker[v].pc = "new"
            /\ worker' = [Cancelled EXCEPT ![v] = [pc |-> "connecting", session |-> app.active]]
    BY <1>3 DEF Selected
  <2>2. w = v
    BY <1>1, <2>1 DEF Cancelled, Live, TypeOK
  <2>3. worker'[w].session = app.active
    BY <2>1, <2>2 DEF Cancelled, TypeOK
  <2> QED
    BY <1>3, <2>3, ScreenStep
<1>4. CASE ~Selected
  <2>1. Live(w) /\ worker'[w].session = worker[w].session
    BY <1>1, <1>2, <1>4 DEF Live, WorkerMoves
  <2> QED
    BY <1>4, <2>1, ScreenStep DEF LiveWorkerShown
<1> QED
  BY <1>3, <1>4

\* One answer is a history, and so is none.
LEMMA HistoryTyped ==
    ASSUME NEW a \in [Sessions -> {<<>>} \cup {<<t>> : t \in Turns}]
    PROVE  a \in [Sessions -> Seq(Turns)]
<1>1. \A t \in Turns : <<t>> \in Seq(Turns)
  OBVIOUS
<1>2. <<>> \in Seq(Turns)
  OBVIOUS
<1>3. {<<>>} \cup {<<t>> : t \in Turns} \subseteq Seq(Turns)
  BY <1>1, <1>2, Zenon
<1> QED
  BY <1>3, Zenon

\* The client starts with an empty queue and no worker.
LEMMA InitInv == Init => IInv
<1> SUFFICES ASSUME Init PROVE IInv
  OBVIOUS
<1>0. answered \in [Sessions -> Seq(Turns)]
  BY HistoryTyped DEF Init
<1> USE PcFacts, BoundsAssumption DEF Init
<1>1. <<>> \in Seq(Message) /\ <<>> \in Seq(Bubble) /\ <<>> \in Seq(Turns) /\ DOMAIN <<>> = {}
  OBVIOUS
<1>2. TypeOK
  <2>1. 0 \in 0..MaxDone
    OBVIOUS
  <2> QED
    BY <1>0, <1>1, <2>1 DEF TypeOK
<1>3. Shape
  BY <1>1 DEF Shape
<1>4. LiveWorkerShown
  BY DEF LiveWorkerShown, Live
<1> QED
  BY <1>2, <1>3, <1>4 DEF IInv

\* The inductive invariant holds in every reachable state of the client, whatever may fail.
THEOREM Invariance == Spec => []IInv
<1>1. IInv /\ [Next]_vars => IInv'
  BY TypeStep, ShapeStep, LiveStep DEF IInv
<1> QED
  BY <1>1, InitInv, PTL DEF Spec

\* The variables stay in their types, whatever presses, frames and failures come in
\* whatever order.
THEOREM TypeCorrect == Spec => []TypeOK
<1>1. IInv => TypeOK
  BY DEF IInv
<1> QED
  BY <1>1, Invariance, PTL

\* A message the user sends goes to the session whose history is on the screen, whatever
\* was selected, created, deleted, cancelled or closed while its bubble was mounted.
THEOREM SentToShownHolds == Spec => SentToShown
<1>1. ASSUME IInv, [Next]_vars, NEW w \in Workers,
             Len(server'[w].inbox) > Len(server[w].inbox)
      PROVE  ui.shown \in {worker[w].session, None}
  <2>1. server'[w] # server[w] => Alive(w)
    BY <1>1, ServerQuiet DEF IInv
  <2>2. Len(server[w].inbox) \in Nat
    BY <1>1, LenProperties DEF IInv, TypeOK
  <2>3. Alive(w)
    BY <1>1, <2>1, <2>2
  <2> QED
    BY <1>1, <2>3 DEF Alive, IInv, LiveWorkerShown, Live
<1>2. ASSUME IInv, [Next]_vars
      PROVE  [\A w \in Workers :
                Len(server'[w].inbox) > Len(server[w].inbox) =>
                    ui.shown \in {worker[w].session, None}]_vars
  BY <1>1, <1>2
<1> QED
  BY <1>2, Invariance, PTL DEF Spec, SentToShown

-----------------------------------------------------------------------------
(* Only answers to the session's own messages are on the screen            *)

\* A message that has a session keeps it: _send_message delivers a new one.
LEMMA HomeKept ==
    ASSUME IInv, OwnTurns, [Next]_vars
    PROVE  /\ \A t \in Turns : home[t] # None => home'[t] = home[t]
           /\ \A t \in fresh : home'[t] = None
<1> USE DEF IInv
<1>1. CASE FrameSent
  <2>1. home' = [home EXCEPT ![Last(ui.bubbles).turn] = worker[app.ws].session]
        /\ app.pc = "mount"
    BY <1>1 DEF FrameSent
  <2> QED
    BY <2>1 DEF OwnTurns, TypeOK
<1>2. CASE ~FrameSent
  <2>1. home' = home
    BY <1>2 DEF Next, vars, UserSubmits, UserClicks, Press, AppNext, HandleSelect, Selected,
       SelectFails, HandleNew, Created, HandleDelete, Deleted, DeleteFails, SubmitIgnored,
       SubmitAccepted, FrameNotSent, HandleDropped, HandleConnected, HandleDisconnected,
       HandleChunk, HandleEnd, WorkerNext, WorkerConnects, SocketCloses, WorkerEnds,
       ServerNext, ServerReceives, ServerChunk, ServerDone, ServerDoneAgain, ServerFails,
       ServerTurnEnds, ServerStep
  <2> QED
    BY <2>1 DEF OwnTurns
<1> QED
  BY <1>1, <1>2

\* The message whose bubble is being mounted has not been sent.
LEMMA MountOwn ==
    ASSUME IInv, OwnTurns, [Next]_vars, app'.pc = "mount"
    PROVE  home'[Last(ui'.bubbles).turn] = None /\ Last(ui'.bubbles).turn \notin fresh'
<1> USE DEF IInv
<1>1. CASE SubmitAccepted
  <2>1. PICK t \in fresh : fresh' = fresh \ {t}
                           /\ ui'.bubbles = Append(ui.bubbles, [turn |-> t, text |-> {}])
    BY <1>1 DEF SubmitAccepted, TypeOK
  <2> DEFINE b == [turn |-> t, text |-> {}]
  <2>2. b \in Bubble /\ ui.bubbles \in Seq(Bubble)
    BY DEF TypeOK, Bubble
  <2>3. Last(ui'.bubbles) = b
    BY <2>1, <2>2, AppendProperties DEF Last
  <2> QED
    BY <2>1, <2>3, HomeKept DEF TypeOK
<1>2. CASE ~SubmitAccepted
  <2>1. app.pc = "mount" /\ UNCHANGED <<home, fresh>> /\ ui'.bubbles = ui.bubbles
    BY <1>2 DEF Next, vars, UserSubmits, UserClicks, Press, AppNext, HandleSelect, Selecting,
       Selected, SelectFails, HandleNew, Created, HandleDelete, Deleted, DeleteFails,
       SubmitIgnored, FrameSent, FrameNotSent, HandleDropped, HandleConnected,
       HandleDisconnected, HandleChunk, HandleEnd, TakesActive, Takes, WorkerNext,
       WorkerConnects, SocketCloses, WorkerEnds, ServerNext, ServerReceives, ServerChunk,
       ServerDone, ServerDoneAgain, ServerFails, ServerTurnEnds, ServerStep, TypeOK
  <2> QED
    BY <2>1 DEF OwnTurns
<1> QED
  BY <1>1, <1>2

\* What is on a connection before and after a step.
LEMMA ConnectionStep ==
    ASSUME TypeOK, [Next]_vars, NEW w \in Workers, Alive(w)
    PROVE  \/ UNCHANGED <<server[w].inbox, server[w].turn>>
           \/ server'[w].turn = None /\ server'[w].inbox = server[w].inbox
           \/ /\ FrameSent /\ app.ws = w
              /\ server'[w].inbox = Append(server[w].inbox, Last(ui.bubbles).turn)
              /\ server'[w].turn = server[w].turn
           \/ /\ server[w].inbox # <<>>
              /\ server'[w].inbox = Tail(server[w].inbox)
              /\ server'[w].turn \in {server[w].turn, Head(server[w].inbox)}
<1>0. server \in ServerType
  BY DEF TypeOK, ServerType
<1>1. CASE FrameSent
  BY <1>0, <1>1 DEF FrameSent, ServerType
<1>2. ASSUME NEW v \in Workers, ServerNext(v), v # w
      PROVE  server'[w] = server[w]
  BY <1>0, <1>2 DEF ServerNext, ServerReceives, ServerChunk, ServerDone, ServerDoneAgain,
                    ServerFails, ServerTurnEnds, ServerType
<1>3. CASE ServerReceives(w)
  <2> DEFINE rest == Tail(server[w].inbox)
             t == Head(server[w].inbox)
  <2>1. \/ server' = [server EXCEPT ![w] = [inbox |-> rest, turn |-> t, phase |-> "llm",
                                            left |-> 0]]
        \/ server' = [server EXCEPT ![w].inbox = rest]
    BY <1>0, <1>3 DEF ServerReceives, ServerType
  <2>2. server[w].inbox # <<>>
    BY <1>3 DEF ServerReceives
  <2> HIDE DEF rest, t
  <2>3. server'[w].inbox = rest /\ server'[w].turn \in {server[w].turn, t}
    BY <1>0, <2>1 DEF ServerType
  <2> QED
    BY <2>2, <2>3 DEF rest, t
<1>4. CASE ServerNext(w) /\ ~ServerReceives(w)
  BY <1>0, <1>4 DEF ServerNext, ServerChunk, ServerDone, ServerDoneAgain,
                    ServerFails, ServerTurnEnds, ServerType
<1>5. FrameSent \/ (\E v \in Workers : ServerNext(v)) \/ UNCHANGED server
  BY DEF Next, vars, UserSubmits, UserClicks, Press, AppNext, HandleSelect, Selected,
         SelectFails, HandleNew, Created, HandleDelete, Deleted, DeleteFails, SubmitIgnored,
         SubmitAccepted, FrameNotSent, HandleDropped, HandleConnected, HandleDisconnected,
         HandleChunk, HandleEnd, WorkerNext, WorkerConnects, SocketCloses, WorkerEnds
<1> QED
  BY <1>1, <1>2, <1>3, <1>4, <1>5

\* What is under way on a connection belongs to the session of the connection.
LEMMA ServerOwn ==
    ASSUME IInv, OwnTurns, [Next]_vars, NEW w \in Workers
    PROVE  /\ \A i \in DOMAIN server'[w].inbox :
                home'[server'[w].inbox[i]] = worker'[w].session
           /\ server'[w].turn # None => home'[server'[w].turn] = worker'[w].session
<1> USE DEF IInv
<1>0. WorkerMoves /\ server[w].inbox \in Seq(Turns) /\ server[w].turn \in Turns \cup {None}
  BY WorkerStep DEF TypeOK
<1>a. ASSUME worker[w].pc # "new"
      PROVE  /\ worker'[w].session = worker[w].session
             /\ worker[w].session \in Sessions
             /\ \A i \in DOMAIN server[w].inbox :
                    home'[server[w].inbox[i]] = worker'[w].session
             /\ server[w].turn # None => home'[server[w].turn] = worker'[w].session
  <2>1. worker'[w].session = worker[w].session /\ worker[w].session \in Sessions
        /\ worker[w].session # None
    BY <1>0, <1>a, NoneAssumption DEF WorkerMoves, Shape
  <2>2. \A i \in DOMAIN server[w].inbox : server[w].inbox[i] \in Turns
    BY <1>0, ElementOfSeq, LenProperties
  <2> QED
    BY <1>0, <2>1, <2>2, HomeKept DEF OwnTurns
<1>1. CASE server'[w] = server[w]
  <2>1. CASE worker[w].pc = "new"
    BY <1>1, <2>1 DEF Shape
  <2>2. CASE worker[w].pc # "new"
    BY <1>1, <1>a, <2>2
  <2> QED
    BY <2>1, <2>2
<1>2. CASE server'[w] # server[w]
  <2>1. Alive(w) /\ worker[w].pc # "new"
    BY <1>2, ServerQuiet DEF Alive
  <2>2. CASE server'[w].inbox = server[w].inbox /\ server'[w].turn \in {None, server[w].turn}
    BY <1>a, <2>1, <2>2
  <2>3. CASE /\ FrameSent /\ app.ws = w
             /\ server'[w].inbox = Append(server[w].inbox, Last(ui.bubbles).turn)
             /\ server'[w].turn = server[w].turn
    <3> DEFINE t == Last(ui.bubbles).turn
    <3>1. t \in Turns
      BY <2>3, LastBubble DEF FrameSent, Shape
    <3>2. home'[t] = worker[w].session
      BY <2>3, <3>1 DEF FrameSent, TypeOK
    <3> HIDE DEF t
    <3>3. \A i \in DOMAIN Append(server[w].inbox, t) :
            \/ Append(server[w].inbox, t)[i] = t
            \/ i \in DOMAIN server[w].inbox /\ Append(server[w].inbox, t)[i] = server[w].inbox[i]
      BY <1>0, <3>1, PostedOne
    <3>4. server'[w].inbox = Append(server[w].inbox, t)
      BY <2>3 DEF t
    <3> QED
      BY <1>a, <2>1, <2>3, <3>2, <3>3, <3>4
  <2>4. CASE /\ server[w].inbox # <<>>
             /\ server'[w].inbox = Tail(server[w].inbox)
             /\ server'[w].turn \in {server[w].turn, Head(server[w].inbox)}
    <3>1. \A i \in DOMAIN Tail(server[w].inbox) :
            i + 1 \in DOMAIN server[w].inbox /\ Tail(server[w].inbox)[i] = server[w].inbox[i + 1]
      BY <1>0, <2>4, TakenFirst
    <3>2. 1 \in DOMAIN server[w].inbox /\ Head(server[w].inbox) = server[w].inbox[1]
      BY <1>0, <2>4, TakenFirst
    <3> QED
      BY <1>a, <2>1, <2>4, <3>1, <3>2
  <2> QED
    BY <2>1, <2>2, <2>3, <2>4, ConnectionStep
<1> QED
  BY <1>1, <1>2

\* A chunk in the queue names the session its message was sent on.
LEMMA ChunksOwn ==
    ASSUME IInv, OwnTurns, [Next]_vars, NEW i \in DOMAIN queue', queue'[i].kind = "chunk"
    PROVE  home'[queue'[i].turn] = queue'[i].session
<1> USE DEF IInv
<1>1. CASE Posted(queue'[i])
  <2>1. PICK w \in Workers :
            /\ worker[w].pc # "new"
            /\ queue'[i].session = worker[w].session
            /\ queue'[i].turn \in Turns /\ queue'[i].turn = server[w].turn
    BY <1>1, KindFacts DEF Posted
  <2>2. worker[w].session # None /\ server[w].turn # None
    BY <2>1, NoneAssumption DEF Shape
  <2>3. home[server[w].turn] = worker[w].session
    BY <2>2 DEF OwnTurns
  <2> QED
    BY <2>1, <2>2, <2>3, HomeKept
<1>2. ASSUME NEW k \in DOMAIN queue, queue'[i] = queue[k]
      PROVE  home'[queue'[i].turn] = queue'[i].session
  <2>1. queue[k].session \in Sessions /\ queue[k].turn \in Turns
    BY <1>2, KindFacts DEF Shape
  <2> QED
    BY <1>2, <2>1, HomeKept, NoneAssumption DEF OwnTurns
<1> QED
  BY <1>1, <1>2, QueueStep, QueueElements

\* The recorded answers of a session are answers to its messages.
LEMMA AnswersOwn ==
    ASSUME IInv, OwnTurns, [Next]_vars, NEW s \in Sessions, NEW i \in DOMAIN answered'[s]
    PROVE  home'[answered'[s][i]] = s
<1> USE DEF IInv
<1>1. ASSUME NEW k \in DOMAIN answered[s] PROVE home'[answered[s][k]] = s
  <2>1. answered[s][k] \in Turns
    BY <1>1, ElementOfSeq, LenProperties DEF TypeOK
  <2> QED
    BY <1>1, <2>1, HomeKept, NoneAssumption DEF OwnTurns
<1>2. ASSUME NEW w \in Workers, ServerDone(w) PROVE home'[answered'[s][i]] = s
  <2>1. server[w].turn \in Turns /\ server[w].turn # None /\ answered[s] \in Seq(Turns)
    BY <1>2 DEF ServerDone, TypeOK
  <2>2. worker[w].session \in Sessions /\ worker[w].session # None
    BY <1>2, NoneAssumption DEF ServerDone, ServerStep, Alive, Shape
  <2>3. answered'[s] = IF s = worker[w].session THEN Append(answered[s], server[w].turn)
                       ELSE answered[s]
    BY <1>2, <2>2 DEF ServerDone, TypeOK
  <2>4. home'[server[w].turn] = worker[w].session
    BY <2>1, <2>2, HomeKept DEF OwnTurns
  <2>5. CASE s = worker[w].session
    <3>1. answered'[s][i] = server[w].turn
          \/ (i \in DOMAIN answered[s] /\ answered'[s][i] = answered[s][i])
      BY <2>1, <2>3, <2>5, PostedOne
    <3> QED
      BY <1>1, <2>4, <2>5, <3>1
  <2> QED
    BY <1>1, <2>3, <2>5
<1>3. CASE \A w \in Workers : ~ServerDone(w)
  <2>1. answered' = answered
    BY <1>3 DEF Next, vars, UserSubmits, UserClicks, Press, AppNext, HandleSelect, Selected,
       SelectFails, HandleNew, Created, HandleDelete, Deleted, DeleteFails, SubmitIgnored,
       SubmitAccepted, FrameSent, FrameNotSent, HandleDropped, HandleConnected,
       HandleDisconnected, HandleChunk, HandleEnd, WorkerNext, WorkerConnects, SocketCloses,
       WorkerEnds, ServerNext, ServerReceives, ServerChunk, ServerDoneAgain, ServerFails,
       ServerTurnEnds, ServerStep
  <2> QED
    BY <1>1, <2>1
<1> QED
  BY <1>2, <1>3

\* What a step does to the text accumulated for the last bubble.
LEMMA TextStep ==
    ASSUME TypeOK, [Next]_vars
    PROVE  \/ app'.text = {}
           \/ app'.text = app.text /\ app'.active \in {app.active, None}
           \/ /\ HandleChunk
              /\ app'.text = app.text \cup {Head(queue).turn}
              /\ app'.active = app.active /\ app.active = Head(queue).session
<1>1. CASE HandleChunk
  BY <1>1 DEF HandleChunk, TakesActive, TypeOK
<1>2. CASE ~HandleChunk
  BY <1>2 DEF Next, vars, UserSubmits, UserClicks, Press, AppNext, HandleSelect, Selecting,
     Selected, SelectFails, HandleNew, Created, HandleDelete, Deleted, DeleteFails,
     SubmitIgnored, SubmitAccepted, FrameSent, FrameNotSent, HandleDropped, HandleConnected,
     HandleDisconnected, HandleEnd, TakesActive, Takes, WorkerNext,
     WorkerConnects, SocketCloses, WorkerEnds, ServerNext, ServerReceives, ServerChunk,
     ServerDone, ServerDoneAgain, ServerFails, ServerTurnEnds, ServerStep, TypeOK
<1> QED
  BY <1>1, <1>2

\* What a step does to the bubbles: the history is rendered or removed, a bubble is
\* appended, or the text of the last one is rewritten.
LEMMA BubbleStep ==
    ASSUME TypeOK, [Next]_vars
    PROVE  \/ ui'.bubbles = ui.bubbles
           \/ Selected /\ ui'.bubbles = [i \in DOMAIN answered[app.active] |->
                  [turn |-> answered[app.active][i], text |-> {answered[app.active][i]}]]
           \/ Deleted /\ ui'.bubbles = <<>>
           \/ /\ SubmitAccepted
              /\ \E t \in fresh : ui'.bubbles = Append(ui.bubbles, [turn |-> t, text |-> {}])
           \/ /\ HandleChunk
              /\ ui.bubbles # <<>>
              /\ ui'.bubbles = [ui.bubbles EXCEPT ![Len(ui.bubbles)].text = app'.text]
<1>1. CASE HandleChunk
  <2> DEFINE text == app.text \cup {Head(queue).turn}
  <2>1. app'.text = text
    BY <1>1 DEF HandleChunk, TypeOK
  <2>2. ui' = IF ui.bubbles = <<>> THEN ui
              ELSE [ui EXCEPT !.bubbles = [ui.bubbles EXCEPT ![Len(ui.bubbles)].text = text]]
    BY <1>1 DEF HandleChunk
  <2> HIDE DEF text
  <2> QED
    BY <1>1, <2>1, <2>2 DEF TypeOK
<1>2. CASE Selected
  BY <1>2 DEF Selected, TypeOK
<1>3. CASE SubmitAccepted
  BY <1>3 DEF SubmitAccepted, TypeOK
<1>4. CASE Deleted
  BY <1>4 DEF Deleted, TypeOK
<1>5. CASE ~(HandleChunk \/ Selected \/ SubmitAccepted \/ Deleted)
  BY <1>5 DEF Next, vars, UserSubmits, UserClicks, Press, AppNext, HandleSelect, SelectFails,
     HandleNew, Created, HandleDelete, DeleteFails, SubmitIgnored, FrameSent, FrameNotSent,
     HandleDropped, HandleConnected, HandleDisconnected, HandleEnd, WorkerNext,
     WorkerConnects, SocketCloses, WorkerEnds, ServerNext, ServerReceives, ServerChunk,
     ServerDone, ServerDoneAgain, ServerFails, ServerTurnEnds, ServerStep, TypeOK
<1> QED
  BY <1>1, <1>2, <1>3, <1>4, <1>5

\* on_stream_chunk takes a chunk of the active session.
LEMMA ChunkTaken ==
    ASSUME IInv, OwnTurns, HandleChunk
    PROVE  /\ Head(queue).turn \in Turns
           /\ app.active \in Sessions /\ Head(queue).session = app.active
           /\ home[Head(queue).turn] = app.active
<1> USE DEF IInv
<1>1. queue # <<>> /\ Head(queue).kind = "chunk" /\ Head(queue).session = app.active
  BY DEF HandleChunk, TakesActive, Takes
<1>2. 1 \in DOMAIN queue /\ Head(queue) = queue[1]
  BY <1>1, TakenFirst DEF TypeOK
<1> QED
  BY <1>1, <1>2, KindFacts DEF Shape, OwnTurns

\* The accumulated text is of the active session.
LEMMA TextOwn ==
    ASSUME IInv, OwnTurns, [Next]_vars, NEW t \in app'.text
    PROVE  home'[t] \in Sessions /\ app'.active \in {home'[t], None}
<1> USE NoneAssumption DEF IInv
<1>1. ASSUME t \in app.text PROVE home'[t] = home[t] /\ home[t] \in Sessions
                                  /\ app.active \in {home[t], None}
  BY <1>1, HomeKept DEF OwnTurns, TypeOK
<1>2. CASE app'.text = app.text /\ app'.active \in {app.active, None}
  BY <1>1, <1>2
<1>3. CASE /\ HandleChunk
           /\ app'.text = app.text \cup {Head(queue).turn}
           /\ app'.active = app.active
  BY <1>1, <1>3, ChunkTaken, HomeKept
<1> QED
  BY <1>2, <1>3, TextStep

\* The texts after a step are those from before it, what has been accumulated, or the
\* history of the session selected.
LEMMA TextsStep ==
    ASSUME TypeOK, [Next]_vars, NEW i \in DOMAIN ui'.bubbles, NEW t \in ui'.bubbles[i].text
    PROVE  \/ i \in DOMAIN ui.bubbles /\ t \in ui.bubbles[i].text /\ ~Selected /\ ~Deleted
           \/ Selected /\ \E k \in DOMAIN answered[app.active] : t = answered[app.active][k]
           \/ HandleChunk /\ t \in app'.text
<1>0. ui.bubbles \in Seq(Bubble)
  BY DEF TypeOK
<1>1. CASE Selected
  BY <1>1 DEF Selected, TypeOK
<1>2. CASE Deleted
  BY <1>2 DEF Deleted, TypeOK
<1>3. CASE ui'.bubbles = ui.bubbles /\ ~Selected /\ ~Deleted
  BY <1>3
<1>4. ASSUME ~Selected, ~Deleted, NEW u \in fresh,
             ui'.bubbles = Append(ui.bubbles, [turn |-> u, text |-> {}])
      PROVE  i \in DOMAIN ui.bubbles /\ t \in ui.bubbles[i].text
  <2> DEFINE b == [turn |-> u, text |-> {}]
  <2>1. b \in Bubble /\ b.text = {}
    BY DEF TypeOK, Bubble
  <2>2. ui'.bubbles = Append(ui.bubbles, b)
    BY <1>4
  <2> HIDE DEF b
  <2>3. ui'.bubbles[i] = b \/ (i \in DOMAIN ui.bubbles /\ ui'.bubbles[i] = ui.bubbles[i])
    BY <1>0, <2>1, <2>2, PostedOne
  <2> QED
    BY <2>1, <2>3
<1>5. CASE /\ ~Selected /\ ~Deleted
           /\ HandleChunk
           /\ ui.bubbles # <<>>
           /\ ui'.bubbles = [ui.bubbles EXCEPT ![Len(ui.bubbles)].text = app'.text]
  <2>1. i \in DOMAIN ui.bubbles
    BY <1>5
  <2>2. ui.bubbles[i] \in Bubble
    BY <1>0, <2>1, ElementOfSeq, LenProperties
  <2>3. ui'.bubbles[i].text = IF i = Len(ui.bubbles) THEN app'.text ELSE ui.bubbles[i].text
    BY <1>5, <2>1, <2>2 DEF Bubble
  <2> QED
    BY <1>5, <2>1, <2>3
<1> QED
  BY <1>1, <1>2, <1>3, <1>4, <1>5, BubbleStep

\* A text is of messages.
LEMMA TextTurns ==
    ASSUME TypeOK, NEW i \in DOMAIN ui.bubbles, NEW t \in ui.bubbles[i].text
    PROVE  t \in Turns
<1>1. ui.bubbles \in Seq(Bubble)
  BY DEF TypeOK
<1>2. ui.bubbles[i] \in Bubble
  BY <1>1, ElementOfSeq, LenProperties
<1> QED
  BY <1>2 DEF Bubble

\* The texts on the screen are of messages that were sent.
LEMMA TextsOwn ==
    ASSUME IInv, OwnTurns, [Next]_vars, NEW i \in DOMAIN ui'.bubbles,
           NEW t \in ui'.bubbles[i].text
    PROVE  home'[t] \in Sessions
<1> USE NoneAssumption DEF IInv
<1>1. CASE i \in DOMAIN ui.bubbles /\ t \in ui.bubbles[i].text
  <2>1. t \in Turns
    BY <1>1, TextTurns
  <2> QED
    BY <1>1, <2>1, HomeKept DEF OwnTurns
<1>2. CASE Selected /\ \E k \in DOMAIN answered[app.active] : t = answered[app.active][k]
  <2>1. app.active \in Sessions
    BY <1>2 DEF Selected, Shape
  <2>2. \A k \in DOMAIN answered[app.active] : answered[app.active][k] \in Turns
    BY <2>1, ElementOfSeq, LenProperties DEF TypeOK
  <2> QED
    BY <1>2, <2>1, <2>2, HomeKept DEF OwnTurns
<1>3. CASE t \in app'.text
  BY <1>3, TextOwn
<1> QED
  BY <1>1, <1>2, <1>3, TextsStep

\* A session is not on the screen any more once its DELETE has returned.
LEMMA ListedStep ==
    ASSUME IInv, ShownListed, [Next]_vars PROVE ShownListed'
<1> USE DEF IInv
<1>1. CASE Selected
  BY <1>1, ScreenStep DEF ShownListed, Selected
<1>2. CASE Deleted
  BY <1>2 DEF ShownListed, Deleted, TypeOK
<1>3. CASE ~Selected /\ ~Deleted
  <2>1. ui'.shown = ui.shown
    BY <1>3, ScreenStep
  <2>2. CASE Created
    BY <2>1, <2>2 DEF Created, ShownListed, TypeOK
  <2>3. CASE ~Created
    <3>1. item' = item
      BY <1>3, <2>3 DEF Next, vars, UserSubmits, UserClicks, Press, AppNext, HandleSelect,
         SelectFails, HandleNew, HandleDelete, DeleteFails, SubmitIgnored, SubmitAccepted,
         FrameSent, FrameNotSent, HandleDropped, HandleConnected, HandleDisconnected,
         HandleChunk, HandleEnd, WorkerNext, WorkerConnects, SocketCloses, WorkerEnds,
         ServerNext, ServerReceives, ServerChunk, ServerDone, ServerDoneAgain, ServerFails,
         ServerTurnEnds, ServerStep
    <3> QED
      BY <2>1, <3>1 DEF ShownListed
  <2> QED
    BY <2>2, <2>3
<1> QED
  BY <1>1, <1>2, <1>3

\* If no GET fails, the active session comes onto the screen, or the two stay apart.
LEMMA ScreenKept ==
    ASSUME IInv, ShownListed, "get" \notin Faults, [Next]_vars, OnScreen'
    PROVE  \/ Selected /\ ui'.shown = app.active
           \/ Deleted
           \/ /\ ~Selected /\ ~Deleted
              /\ OnScreen /\ ui'.shown = ui.shown /\ app'.active = app.active
<1> USE DEF IInv
<1>1. CASE Selected \/ Deleted
  BY <1>1, ScreenStep
<1>2. CASE SelectFails
  <2>1. app.active \in Sessions /\ item[app.active] = "deleted"
    BY <1>2 DEF SelectFails, Shape
  <2>2. app'.active = app.active /\ ui'.shown = ui.shown
    BY <1>2 DEF SelectFails, TypeOK
  <2>3. app.active # ui.shown
    BY <2>1, NoneAssumption DEF ShownListed
  <2> QED
    BY <2>2, <2>3 DEF OnScreen
<1>3. CASE ~Selected /\ ~Deleted /\ ~SelectFails
  <2>1. ui'.shown = ui.shown
    BY <1>3, ScreenStep
  <2>2. app'.pc # "get" => app.pc # "get" /\ app'.active = app.active
    <3>1. CASE AppNext
      BY <1>3, <3>1 DEF AppNext, HandleSelect, Selecting, HandleNew, Created, HandleDelete,
         DeleteFails, SubmitIgnored, SubmitAccepted, FrameSent, FrameNotSent, HandleDropped,
         HandleConnected, HandleDisconnected, HandleChunk, HandleEnd, TakesActive, Takes, TypeOK
    <3>2. CASE ~AppNext
      BY <3>2 DEF Next, vars, UserSubmits, UserClicks, Press, WorkerNext, WorkerConnects,
         SocketCloses, WorkerEnds, ServerNext, ServerReceives, ServerChunk, ServerDone,
         ServerDoneAgain, ServerFails, ServerTurnEnds, ServerStep, TypeOK
    <3> QED
      BY <3>1, <3>2
  <2> QED
    BY <1>3, <2>1, <2>2 DEF OnScreen
<1> QED
  BY <1>1, <1>2, <1>3

\* Each message and answer stays with its session in every step.
LEMMA OwnStep ==
    ASSUME OwnInv, "get" \notin Faults, [Next]_vars PROVE OwnInv'
<1> USE DEF OwnInv
<1>1. TypeOK' /\ Shape' /\ LiveWorkerShown'
  BY TypeStep, ShapeStep, LiveStep DEF IInv
<1>2. OwnTurns'
  <2>1. \A t \in fresh' : home'[t] = None
    <3>1. fresh' \subseteq fresh
      BY DEF Next, vars, UserSubmits, UserClicks, Press, AppNext, HandleSelect, Selected,
       SelectFails, HandleNew, Created, HandleDelete, Deleted, DeleteFails, SubmitIgnored,
       SubmitAccepted, FrameSent, FrameNotSent, HandleDropped, HandleConnected,
       HandleDisconnected, HandleChunk, HandleEnd, WorkerNext, WorkerConnects, SocketCloses,
       WorkerEnds, ServerNext, ServerReceives, ServerChunk, ServerDone, ServerDoneAgain,
       ServerFails, ServerTurnEnds, ServerStep
    <3> QED
      BY <3>1, HomeKept
  <2> QED
    BY <2>1, MountOwn, ServerOwn, ChunksOwn, AnswersOwn, TextOwn, TextsOwn DEF OwnTurns
<1>3. ShownListed'
  BY ListedStep
<1>4. ASSUME OnScreen', NEW i \in DOMAIN ui'.bubbles, NEW t \in ui'.bubbles[i].text
      PROVE  home'[t] = ui'.shown
  <2>1. home'[t] \in Sessions
    BY <1>4, TextsOwn
  <2>2. CASE Selected /\ ui'.shown = app.active
    <3>1. \E k \in DOMAIN answered[app.active] : t = answered[app.active][k]
      BY <1>4, <2>2, TextsStep DEF IInv, HandleChunk, TakesActive, Takes, Selected
    <3>2. app.active \in Sessions
      BY <2>2 DEF Selected, IInv, Shape
    <3>3. \A k \in DOMAIN answered[app.active] : answered[app.active][k] \in Turns
      BY <3>2, ElementOfSeq, LenProperties DEF IInv, TypeOK
    <3> QED
      BY <2>2, <3>1, <3>2, <3>3, HomeKept, NoneAssumption DEF OwnTurns
  <2>3. CASE Deleted
    BY <1>4, <2>3 DEF IInv, Deleted, TypeOK
  <2>4. CASE /\ ~Selected /\ ~Deleted
             /\ OnScreen /\ ui'.shown = ui.shown /\ app'.active = app.active
    <3>1. CASE i \in DOMAIN ui.bubbles /\ t \in ui.bubbles[i].text
      <4>1. t \in Turns
        BY <3>1, TextTurns DEF IInv
      <4> QED
        BY <2>4, <3>1, <4>1, HomeKept, NoneAssumption DEF OnlyOwnAnswers, OwnTurns
    <3>2. CASE HandleChunk /\ t \in app'.text
      <4>1. app.active \in Sessions
        BY <3>2, ChunkTaken
      <4> QED
        BY <2>4, <3>2, <4>1, TextOwn, NoneAssumption DEF OnScreen
    <3> QED
      BY <1>4, <2>4, <3>1, <3>2, TextsStep DEF IInv
  <2> QED
    BY <1>4, <2>2, <2>3, <2>4, ScreenKept
<1>5. OnlyOwnAnswers'
  BY <1>4 DEF OnlyOwnAnswers
<1> QED
  BY <1>1, <1>2, <1>3, <1>5 DEF IInv

\* Nothing is under way or on the screen; an answer is in the history it belongs to.
LEMMA OwnInit == Init => OwnInv
<1> SUFFICES ASSUME Init PROVE OwnInv
  OBVIOUS
<1>1. DOMAIN <<>> = {}
  OBVIOUS
<1>2. OwnTurns
  BY <1>1 DEF Init, OwnTurns
<1>3. ShownListed /\ OnlyOwnAnswers
  BY <1>1 DEF Init, ShownListed, OnlyOwnAnswers
<1> QED
  BY <1>2, <1>3, InitInv DEF OwnInv

\* Wherever the user goes and whatever frames of earlier connections are still in the
\* queue: text on the screen is of answers to messages of the session on the screen.
THEOREM OnlyOwnAnswersHolds ==
    ASSUME "get" \notin Faults
    PROVE  Spec => []OnlyOwnAnswers
<1>1. OwnInv /\ [Next]_vars => OwnInv'
  BY OwnStep
<1>2. OwnInv => OnlyOwnAnswers
  BY DEF OwnInv
<1> QED
  BY <1>1, <1>2, OwnInit, PTL DEF Spec
=============================================================================
