--------------------------- MODULE ChatServerProofs ---------------------------
(***************************************************************************)
(* Proofs about ChatServer, for every set of sessions, connections, turns  *)
(* and DELETE requests and every choice of storage faults.                 *)
(***************************************************************************)
EXTENDS ChatServer, TLAPS

-----------------------------------------------------------------------------
(* Types                                                                   *)

\* The program counters the actions assign are of their types.
LEMMA PcFacts ==
    /\ "loop" \in ConnPcs /\ "replying" \in ConnPcs /\ "cleanup" \in ConnPcs
    /\ "closed" \in ConnPcs
    /\ "created" \in StreamPcs /\ "llm" \in StreamPcs /\ "chunk" \in StreamPcs
    /\ "summary" \in StreamPcs /\ "done" \in StreamPcs /\ "error" \in StreamPcs
    /\ "saved" \in StreamPcs /\ "ended" \in StreamPcs
    /\ "closing" \in DeletePcs /\ "finished" \in DeletePcs
BY DEF ConnPcs, Attached, StreamPcs, Running, DeletePcs

\* A handler's state stays of its type when its fields are assigned.
LEMMA ConnUpdates ==
    ASSUME conn \in [Connections -> ConnType]
    PROVE  /\ \A c \in Connections, pc \in ConnPcs :
                 [conn EXCEPT ![c].pc = pc] \in [Connections -> ConnType]
           /\ \A c \in Connections :
                 [conn EXCEPT ![c].open = FALSE] \in [Connections -> ConnType]
           /\ \A c \in Connections, pc \in ConnPcs :
                 [conn EXCEPT ![c].pc = pc, ![c].open = FALSE] \in [Connections -> ConnType]
BY DEF ConnType

\* A task's state stays of its type when its fields are assigned.
LEMMA StreamUpdates ==
    ASSUME stream \in [Streams -> StreamType]
    PROVE  /\ \A t \in Streams, pc \in StreamPcs :
                 [stream EXCEPT ![t].pc = pc] \in [Streams -> StreamType]
           /\ \A t \in Streams, pc \in StreamPcs, n \in 0..2 :
                 [stream EXCEPT ![t].pc = pc, ![t].frames = n] \in [Streams -> StreamType]
           /\ \A t \in Streams \cup {None} :
                 [stream EXCEPT ![t].cancelled = TRUE] \in [Streams -> StreamType]
BY DEF StreamType

\* An entry stays of its type when its fields are assigned.
LEMMA EntryUpdates ==
    ASSUME sc \in [Entries -> EntryType]
    PROVE  /\ \A e \in Entries \cup {None}, c \in Connections :
                 [sc EXCEPT ![e].ws = c] \in [Entries -> EntryType]
           /\ \A e \in Entries \cup {None}, t \in Streams :
                 [sc EXCEPT ![e].stream_task = t] \in [Entries -> EntryType]
           /\ \A e \in Entries \cup {None} :
                 [sc EXCEPT ![e].ws = None, ![e].stream_task = None]
                    \in [Entries -> EntryType]
BY DEF EntryType

\* Building an entry and appending a record keep the entries' type.
LEMMA EntryHistories ==
    ASSUME sc \in [Entries -> EntryType]
    PROVE  /\ \A e \in Entries, id \in SessionIds, ws \in Connections \cup {None},
                 records \in Seq(Records) :
                 [sc EXCEPT ![e] = [Blank EXCEPT !.id = id, !.ws = ws, !.history = records]]
                    \in [Entries -> EntryType]
           /\ \A e \in Entries, id \in SessionIds, records \in Seq(Records) :
                 [sc EXCEPT ![e] = [Blank EXCEPT !.id = id, !.history = records]]
                    \in [Entries -> EntryType]
           /\ \A e \in Entries, r \in Records :
                 [sc EXCEPT ![e].history = Append(@, r)] \in [Entries -> EntryType]
<1>1. ASSUME NEW e \in Entries, NEW id \in SessionIds, NEW ws \in Connections \cup {None},
             NEW records \in Seq(Records)
      PROVE  /\ [sc EXCEPT ![e] = [Blank EXCEPT !.id = id, !.ws = ws, !.history = records]]
                    \in [Entries -> EntryType]
             /\ [sc EXCEPT ![e] = [Blank EXCEPT !.id = id, !.history = records]]
                    \in [Entries -> EntryType]
  <2>1. [Blank EXCEPT !.id = id, !.ws = ws, !.history = records] \in EntryType
    BY DEF Blank, EntryType
  <2>2. [Blank EXCEPT !.id = id, !.history = records] \in EntryType
    BY DEF Blank, EntryType
  <2> QED
    BY <2>1, <2>2
<1>2. ASSUME NEW e \in Entries, NEW r \in Records
      PROVE  [sc EXCEPT ![e].history = Append(@, r)] \in [Entries -> EntryType]
  <2>1. Append(sc[e].history, r) \in Seq(Records)
    BY DEF EntryType
  <2> QED
    BY <2>1 DEF EntryType
<1> QED
  BY <1>1, <1>2

\* What a send that starts does to the tasks is of their type.
LEMMA StartSendType ==
    ASSUME TypeOK, NEW t \in Streams, NEW pc \in StreamPcs, NEW n \in 0..2,
           StartSend(t, pc, n)
    PROVE  stream' \in [Streams -> StreamType]
<1>1. CASE conn[stream[t].ws].open
  BY <1>1, StreamUpdates DEF TypeOK, StartSend
<1>2. CASE ~conn[stream[t].ws].open
  <2>1. "ended" \in StreamPcs
    BY PcFacts
  <2> QED
    BY <1>2, <2>1, StreamUpdates DEF TypeOK, StartSend
<1> QED
  BY <1>1, <1>2

\* What a removal of a directory can leave is what a disk can hold.
LEMMA LeftoversType ==
    ASSUME TypeOK, NEW id \in SessionIds, NEW left \in Leftovers(disk[id])
    PROVE  [disk EXCEPT ![id] = left]
                \in [SessionIds -> Seq(Records) \cup {NoDir, Unreadable}]
BY DEF TypeOK, Leftovers

\* What a save can leave is what a disk can hold.
LEMMA WrittenType ==
    ASSUME NEW d \in Seq(Records) \cup {NoDir, Unreadable}, NEW records \in Seq(Records)
    PROVE  Written(d, records) \subseteq Seq(Records) \cup {NoDir, Unreadable}
<1>1. Prefixes(records) \subseteq Seq(Records)
  BY DEF Prefixes
<1> QED
  BY <1>1 DEF Written

\* The state space is closed under every step: whatever a route, a handler or a
\* task does keeps each variable in its type.
LEMMA TypeStep ==
    ASSUME TypeOK, References, [Next]_vars PROVE TypeOK'
<1>1. ASSUME NEW id \in SessionIds, CreateSession(id) PROVE TypeOK'
  <2>1. <<>> \in Seq(Records)
    OBVIOUS
  <2>2. PICK e \in Entries :
            sc' = [sc EXCEPT ![e] = [Blank EXCEPT !.id = id, !.history = <<>>]]
    BY <1>1 DEF CreateSession, NewEntry
  <2>3. sc' \in [Entries -> EntryType]
    BY <2>1, <2>2, EntryHistories DEF TypeOK
  <2> QED
    BY <1>1, <2>1, <2>3 DEF TypeOK, CreateSession
<1>2. ASSUME NEW id \in SessionIds, CreateSessionFails(id) PROVE TypeOK'
  BY <1>2 DEF TypeOK, CreateSessionFails
<1>3. ASSUME NEW id \in SessionIds, GetSession(id) PROVE TypeOK'
  <2>1. disk[id] \in Seq(Records)
    BY <1>3 DEF TypeOK, GetSession, Readable
  <2>2. PICK e \in Entries :
            sc' = [sc EXCEPT ![e] = [Blank EXCEPT !.id = id, !.history = disk[id]]]
    BY <1>3 DEF GetSession, NewEntry
  <2>3. sc' \in [Entries -> EntryType]
    BY <2>1, <2>2, EntryHistories DEF TypeOK
  <2> QED
    BY <1>3, <2>1, <2>3 DEF TypeOK, GetSession
<1>4. ASSUME NEW d \in Deletes, NEW id \in SessionIds, DeleteBegin(d, id) PROVE TypeOK'
  <2> DEFINE ws == IF sessions[id] = None THEN None ELSE sc[sessions[id]].ws
  <2>1. ws \in Connections \cup {None}
    BY DEF TypeOK, EntryType
  <2>2. /\ [pc |-> "closing", id |-> id, ws |-> ws] \in DeleteType
        /\ [pc |-> "finished", id |-> id, ws |-> None] \in DeleteType
    BY <2>1, PcFacts DEF DeleteType
  <2>3. sessions' \in [SessionIds -> Entries \cup {None}] /\ UNCHANGED <<sc, stream>>
    BY <1>4 DEF TypeOK, DeleteBegin
  <2>4. conn' \in [Connections -> ConnType]
    <3>1. CASE ws \in Connections /\ conn' = [conn EXCEPT ![ws].open = FALSE]
      BY <3>1, ConnUpdates DEF TypeOK
    <3>2. CASE conn' = conn
      BY <3>2 DEF TypeOK
    <3> QED
      BY <1>4, <2>1, <3>1, <3>2 DEF DeleteBegin
  <2>5. delete' \in [Deletes -> DeleteType]
    BY <1>4, <2>2 DEF TypeOK, DeleteBegin
  <2>6. disk' \in [SessionIds -> Seq(Records) \cup {NoDir, Unreadable}]
    BY <1>4, LeftoversType DEF TypeOK, DeleteBegin
  <2> QED
    BY <2>3, <2>4, <2>5, <2>6 DEF TypeOK
<1>5. ASSUME NEW d \in Deletes, DeleteFinish(d) PROVE TypeOK'
  <2>1. delete[d].id \in SessionIds
    BY <1>5 DEF DeleteFinish, References
  <2>2. disk' \in [SessionIds -> Seq(Records) \cup {NoDir, Unreadable}]
    BY <1>5, <2>1, LeftoversType DEF DeleteFinish
  <2>3. delete' \in [Deletes -> DeleteType]
    BY <1>5, PcFacts DEF TypeOK, DeleteFinish, DeleteType
  <2> QED
    BY <1>5, <2>2, <2>3 DEF TypeOK, DeleteFinish
<1>6. ASSUME NEW c \in Connections, NEW id \in SessionIds, ConnectRefused(c, id) PROVE TypeOK'
  BY <1>6, ConnUpdates, PcFacts DEF TypeOK, ConnectRefused
<1>7. ASSUME NEW c \in Connections, NEW id \in SessionIds, ConnectRegistered(c, id) PROVE TypeOK'
  <2>1. [pc |-> "loop", sc |-> sessions[id], open |-> TRUE] \in ConnType
    BY PcFacts DEF TypeOK, ConnType
  <2> QED
    BY <1>7, <2>1, EntryUpdates DEF TypeOK, ConnectRegistered, Attach
<1>8. ASSUME NEW c \in Connections, NEW id \in SessionIds, ConnectLoaded(c, id) PROVE TypeOK'
  <2>1. PICK e \in Entries :
            /\ sc' = [sc EXCEPT ![e] = [Blank EXCEPT !.id = id, !.ws = c, !.history = disk[id]]]
            /\ sessions' = [sessions EXCEPT ![id] = e]
            /\ Attach(c, e)
    BY <1>8 DEF ConnectLoaded
  <2>2. disk[id] \in Seq(Records)
    BY <1>8 DEF TypeOK, ConnectLoaded, Readable
  <2>3. [pc |-> "loop", sc |-> e, open |-> TRUE] \in ConnType
    BY PcFacts DEF ConnType
  <2>4. sc' \in [Entries -> EntryType]
    BY <2>1, <2>2, EntryHistories DEF TypeOK
  <2> QED
    BY <1>8, <2>1, <2>3, <2>4 DEF TypeOK, ConnectLoaded, Attach
<1>9. ASSUME NEW c \in Connections, ReceiveSend(c) PROVE TypeOK'
  <2>1. PICK t \in Streams :
            /\ stream' = [stream EXCEPT ![t] = [pc |-> "created", sc |-> conn[c].sc, ws |-> c,
                                                frames |-> 0, cancelled |-> FALSE]]
            /\ sc' = [sc EXCEPT ![conn[c].sc].stream_task = t]
    BY <1>9 DEF ReceiveSend
  <2>2. [pc |-> "created", sc |-> conn[c].sc, ws |-> c, frames |-> 0, cancelled |-> FALSE]
            \in StreamType
    BY PcFacts DEF TypeOK, ConnType, StreamType
  <2>3. sc' \in [Entries -> EntryType]
    BY <2>1, EntryUpdates DEF TypeOK
  <2> QED
    BY <1>9, <2>1, <2>2, <2>3 DEF TypeOK, ReceiveSend
<1>10. ASSUME NEW c \in Connections, ReceiveReplied(c) \/ ReplySent(c) PROVE TypeOK'
  <2>1. CASE ReceiveReplied(c)
    BY <2>1, ConnUpdates, PcFacts DEF TypeOK, ReceiveReplied
  <2>2. CASE ReplySent(c)
    BY <2>2, ConnUpdates, PcFacts DEF TypeOK, ReplySent
  <2> QED
    BY <1>10, <2>1, <2>2
<1>11. ASSUME NEW c \in Connections, ReceiveCancel(c) PROVE TypeOK'
  BY <1>11, StreamUpdates, PcFacts DEF TypeOK, ReceiveCancel
<1>12. ASSUME NEW c \in Connections, LeaveLoop(c) PROVE TypeOK'
  <2>1. conn' \in [Connections -> ConnType]
    <3>1. \/ conn' = [conn EXCEPT ![c].pc = "cleanup"]
          \/ conn' = [conn EXCEPT ![c].pc = "closed", ![c].open = FALSE]
      BY <1>12 DEF LeaveLoop, Detach
    <3>2. CASE conn' = [conn EXCEPT ![c].pc = "cleanup"]
      BY <3>2, ConnUpdates, PcFacts DEF TypeOK
    <3>3. CASE conn' = [conn EXCEPT ![c].pc = "closed", ![c].open = FALSE]
      BY <3>3, ConnUpdates, PcFacts DEF TypeOK
    <3> QED
      BY <3>1, <3>2, <3>3
  <2>2. stream' \in [Streams -> StreamType]
    <3>1. CASE InProgress(conn[c].sc) /\ stream' =
                [stream EXCEPT ![sc[conn[c].sc].stream_task].cancelled = TRUE]
      BY <3>1 DEF TypeOK, StreamType
    <3>2. CASE stream' = stream
      BY <3>2 DEF TypeOK
    <3> QED
      BY <1>12, <3>1, <3>2 DEF LeaveLoop
  <2>3. sc' \in [Entries -> EntryType]
    <3>1. \/ sc' = sc
          \/ sc' = [sc EXCEPT ![conn[c].sc].ws = None, ![conn[c].sc].stream_task = None]
      BY <1>12 DEF LeaveLoop, Detach
    <3>2. conn[c].sc \in Entries \cup {None}
      BY DEF TypeOK, ConnType
    <3> QED
      BY <3>1, <3>2, EntryUpdates DEF TypeOK
  <2> QED
    BY <1>12, <2>1, <2>2, <2>3 DEF TypeOK, LeaveLoop
<1>13. ASSUME NEW c \in Connections, CleanupDone(c) PROVE TypeOK'
  <2>1. conn' \in [Connections -> ConnType]
    BY <1>13, ConnUpdates, PcFacts DEF TypeOK, CleanupDone, Detach
  <2>2. sc' \in [Entries -> EntryType]
    BY <1>13, EntryUpdates DEF TypeOK, CleanupDone, Detach
  <2> QED
    BY <1>13, <2>1, <2>2 DEF TypeOK, CleanupDone
<1>14. ASSUME NEW c \in Connections, ClientDisconnects(c) PROVE TypeOK'
  BY <1>14, ConnUpdates, PcFacts DEF TypeOK, ClientDisconnects
<1>15. ASSUME NEW t \in Streams, StreamStart(t) PROVE TypeOK'
  <2>1. [role |-> "user", turn |-> t] \in Records
    BY DEF Records
  <2>2. stream[t].sc \in Entries
    BY <1>15 DEF StreamStart, Resumes, Running, References
  <2>3. sc' \in [Entries -> EntryType]
    BY <1>15, <2>1, <2>2, EntryHistories DEF TypeOK, StreamStart, Append1
  <2> QED
    BY <1>15, <2>3, StreamUpdates, PcFacts DEF TypeOK, StreamStart
<1>16. ASSUME NEW t \in Streams, LlmChunk(t) PROVE TypeOK'
  BY <1>16, StartSendType, PcFacts DEF TypeOK, LlmChunk
<1>17. ASSUME NEW t \in Streams, ChunkSent(t) PROVE TypeOK'
  BY <1>17, StreamUpdates, PcFacts DEF TypeOK, ChunkSent
<1>18. ASSUME NEW t \in Streams, LlmDone(t) PROVE TypeOK'
  <2>1. [role |-> "assistant", turn |-> t] \in Records
    BY DEF Records
  <2>2. stream[t].sc \in Entries
    BY <1>18 DEF LlmDone, Resumes, Running, References
  <2>3. sc' \in [Entries -> EntryType]
    BY <1>18, <2>1, <2>2, EntryHistories DEF TypeOK, LlmDone, Append1
  <2>4. stream' \in [Streams -> StreamType]
    <3>1. CASE stream' = [stream EXCEPT ![t].pc = "summary"]
      BY <3>1, StreamUpdates, PcFacts DEF TypeOK
    <3>2. CASE StartSend(t, "done", 1)
      BY <3>2, StartSendType, PcFacts
    <3> QED
      BY <1>18, <3>1, <3>2 DEF LlmDone
  <2> QED
    BY <1>18, <2>3, <2>4 DEF TypeOK, LlmDone
<1>19. ASSUME NEW t \in Streams, SummaryDone(t) PROVE TypeOK'
  BY <1>19, StartSendType, PcFacts DEF TypeOK, SummaryDone
<1>20. ASSUME NEW t \in Streams, LlmFails(t) PROVE TypeOK'
  <2>1. ASSUME StartSend(t, "error", 0) PROVE stream' \in [Streams -> StreamType]
    BY <2>1, StartSendType, PcFacts
  <2>2. ASSUME stream' = [stream EXCEPT ![t].pc = "ended"]
        PROVE  stream' \in [Streams -> StreamType]
    BY <2>2, StreamUpdates, PcFacts DEF TypeOK
  <2>3. stream' \in [Streams -> StreamType]
    BY <1>20, <2>1, <2>2 DEF LlmFails
  <2> QED
    BY <1>20, <2>3 DEF TypeOK, LlmFails
<1>21. ASSUME NEW t \in Streams, ErrorSent(t) \/ SendFails(t) \/ StreamCancelled(t) PROVE TypeOK'
  <2>1. stream' = [stream EXCEPT ![t].pc = "ended"]
        /\ UNCHANGED <<sessions, sc, disk, conn, delete>>
    BY <1>21 DEF ErrorSent, SendFails, StreamCancelled
  <2> QED
    BY <2>1, StreamUpdates, PcFacts DEF TypeOK
<1>22. ASSUME NEW t \in Streams, DoneSentMore(t) PROVE TypeOK'
  <2>1. stream[t].frames - 1 \in 0..2
    BY <1>22 DEF TypeOK, StreamType, DoneSentMore
  <2> QED
    BY <1>22, <2>1, StartSendType, PcFacts DEF TypeOK, DoneSentMore
<1>23. ASSUME NEW t \in Streams, DoneSentLast(t) PROVE TypeOK'
  <2>1. stream[t].sc \in Entries
    BY <1>23 DEF DoneSentLast, Resumes, Running, References
  <2>2. sc[stream[t].sc].history \in Seq(Records)
    BY <2>1 DEF TypeOK, EntryType
  <2>3. disk' \in [SessionIds -> Seq(Records) \cup {NoDir, Unreadable}]
    <3> DEFINE id == sc[stream[t].sc].id
    <3>1. ASSUME id \in SessionIds
          PROVE  Written(disk[id], sc[stream[t].sc].history)
                     \subseteq Seq(Records) \cup {NoDir, Unreadable}
      BY <3>1, <2>2, WrittenType DEF TypeOK
    <3>2. CASE id \in SessionIds
      BY <1>23, <3>1, <3>2 DEF TypeOK, DoneSentLast
    <3>3. CASE id \notin SessionIds
      BY <1>23, <3>3 DEF TypeOK, DoneSentLast
    <3> QED
      BY <3>2, <3>3
  <2>4. stream' \in [Streams -> StreamType]
    <3>1. \/ stream' = [stream EXCEPT ![t].pc = "ended"]
          \/ stream' = [stream EXCEPT ![t].pc = "saved"]
      BY <1>23 DEF DoneSentLast
    <3>2. CASE stream' = [stream EXCEPT ![t].pc = "ended"]
      BY <3>2, StreamUpdates, PcFacts DEF TypeOK
    <3>3. CASE stream' = [stream EXCEPT ![t].pc = "saved"]
      BY <3>3, StreamUpdates, PcFacts DEF TypeOK
    <3> QED
      BY <3>1, <3>2, <3>3
  <2> QED
    BY <1>23, <2>3, <2>4 DEF TypeOK, DoneSentLast
<1>24. ASSUME Restart PROVE TypeOK'
  <2>1. Blank \in EntryType
    BY DEF Blank, EntryType
  <2>2. conn' \in [Connections -> ConnType]
    BY <1>24, PcFacts DEF TypeOK, Restart, ConnType
  <2>3. stream' \in [Streams -> StreamType]
    <3>1. ASSUME NEW t \in Streams PROVE stream'[t] \in StreamType
      <4>1. stream[t] \in StreamType
        BY DEF TypeOK
      <4> DEFINE pc == IF stream[t].pc \in Running THEN "ended" ELSE stream[t].pc
      <4>2. pc \in StreamPcs
        BY <4>1, PcFacts DEF StreamType
      <4>3. stream'[t] = [pc |-> pc, sc |-> None, ws |-> None, frames |-> 0,
                          cancelled |-> FALSE]
        BY <1>24 DEF Restart
      <4> HIDE DEF pc
      <4> QED
        BY <4>1, <4>2, <4>3 DEF StreamType
    <3> QED
      BY <1>24, <3>1 DEF Restart
  <2>4. delete' \in [Deletes -> DeleteType]
    BY <1>24, PcFacts DEF TypeOK, Restart, DeleteType
  <2> QED
    BY <1>24, <2>1, <2>2, <2>3, <2>4 DEF TypeOK, Restart
<1>25. ASSUME UNCHANGED vars PROVE TypeOK'
  BY <1>25 DEF TypeOK, vars
<1> QED
  BY <1>1, <1>2, <1>3, <1>4, <1>5, <1>6, <1>7, <1>8, <1>9, <1>10, <1>11, <1>12,
     <1>13, <1>14, <1>15, <1>16, <1>17, <1>18, <1>19, <1>20, <1>21, <1>22, <1>23,
     <1>24, <1>25
     DEF Next, RouteStep, ConnectStep, HandlerStep, StreamStep

-----------------------------------------------------------------------------
(* The inductive invariant                                                 *)

StreamAction(t) ==
    \/ StreamStart(t) \/ LlmChunk(t) \/ ChunkSent(t) \/ LlmDone(t)
    \/ SummaryDone(t) \/ LlmFails(t) \/ ErrorSent(t) \/ SendFails(t)
    \/ DoneSentMore(t) \/ DoneSentLast(t) \/ StreamCancelled(t)

\* A step of a task touches neither the registry nor the handlers nor the way
\* entries, handlers and tasks point at each other, and the task does not come any
\* closer to the save than its socket allows: only an open socket lets it start
\* the send of a DoneFrame.
LEMMA StreamFrame ==
    ASSUME TypeOK, NEW t \in Streams, StreamAction(t)
    PROVE  /\ UNCHANGED <<sessions, conn, delete>>
           /\ \A e \in Entries : /\ sc'[e].id = sc[e].id
                                  /\ sc'[e].ws = sc[e].ws
                                  /\ sc'[e].stream_task = sc[e].stream_task
           /\ \A u \in Streams : stream'[u].sc = stream[u].sc
           /\ \A u \in Streams : stream'[u].ws = stream[u].ws
           /\ \A u \in Streams \ {t} : stream'[u] = stream[u]
           /\ stream'[t].pc \in Running => stream[t].pc \in Running
           /\ MaySave(t)' => MaySave(t)
<1> DEFINE Ends == stream' = [stream EXCEPT ![t].pc = "ended"]
<1> DEFINE Goal == /\ \A u \in Streams : stream'[u].sc = stream[u].sc
                   /\ \A u \in Streams : stream'[u].ws = stream[u].ws
                   /\ \A u \in Streams \ {t} : stream'[u] = stream[u]
                   /\ stream'[t].pc \in Running => stream[t].pc \in Running
                   /\ MaySave(t)' => MaySave(t)
<1>1. UNCHANGED <<sessions, conn, delete>>
  BY DEF StreamAction, StreamStart, LlmChunk, ChunkSent, LlmDone, SummaryDone, LlmFails,
         ErrorSent, SendFails, DoneSentMore, DoneSentLast, StreamCancelled
<1>2. \A e \in Entries : /\ sc'[e].id = sc[e].id
                         /\ sc'[e].ws = sc[e].ws
                         /\ sc'[e].stream_task = sc[e].stream_task
  <2>1. ASSUME NEW role, Append1(t, role)
        PROVE  \A e \in Entries : /\ sc'[e].id = sc[e].id
                                  /\ sc'[e].ws = sc[e].ws
                                  /\ sc'[e].stream_task = sc[e].stream_task
    BY <2>1 DEF TypeOK, EntryType, Append1
  <2>2. sc' = sc \/ \E role \in {"user", "assistant"} : Append1(t, role)
    BY DEF StreamAction, StreamStart, LlmChunk, ChunkSent, LlmDone, SummaryDone, LlmFails,
           ErrorSent, SendFails, DoneSentMore, DoneSentLast, StreamCancelled
  <2> QED
    BY <2>1, <2>2
<1>3. "ended" \notin Running /\ "saved" \notin Running
  BY DEF Running
<1>4. ASSUME Ends PROVE Goal
  BY <1>3, <1>4 DEF TypeOK, StreamType, MaySave
<1>5. ASSUME NEW pc, NEW n, stream[t].pc \in Running, ~stream[t].cancelled, StartSend(t, pc, n)
      PROVE  Goal
  <2>1. CASE conn[stream[t].ws].open
    BY <1>1, <1>5, <2>1 DEF TypeOK, StreamType, MaySave, StartSend
  <2>2. CASE ~conn[stream[t].ws].open
    BY <1>4, <1>5, <2>2 DEF StartSend
  <2> QED
    BY <2>1, <2>2
<1>6. ASSUME NEW pc \in {"llm", "summary", "saved"}, stream[t].pc \in Running,
             stream' = [stream EXCEPT ![t].pc = pc]
      PROVE  Goal
  <2>1. /\ \A u \in Streams \ {t} : stream'[u] = stream[u]
        /\ stream'[t] = [stream[t] EXCEPT !.pc = pc]
    BY <1>6 DEF TypeOK
  <2>2. /\ stream'[t].pc = pc /\ stream'[t].sc = stream[t].sc /\ stream'[t].ws = stream[t].ws
        /\ stream'[t].cancelled = stream[t].cancelled
    BY <2>1 DEF TypeOK, StreamType
  <2>3. MaySave(t)' => MaySave(t)
    BY <1>1, <1>3, <1>6, <2>2 DEF MaySave
  <2> QED
    BY <1>6, <2>1, <2>2, <2>3
<1> HIDE DEF Goal, Ends
<1>7. ASSUME StreamStart(t) PROVE Goal
  BY <1>6, <1>7 DEF StreamStart, Resumes, Running
<1>8. ASSUME LlmChunk(t) PROVE Goal
  BY <1>5, <1>8 DEF LlmChunk, Resumes, Running
<1>9. ASSUME ChunkSent(t) PROVE Goal
  BY <1>6, <1>9 DEF ChunkSent, Resumes, Running
<1>10. ASSUME LlmDone(t) PROVE Goal
  <2>1. stream[t].pc \in Running /\ ~stream[t].cancelled
    BY <1>10 DEF LlmDone, Resumes, Running
  <2>2. stream' = [stream EXCEPT ![t].pc = "summary"] \/ StartSend(t, "done", 1)
    BY <1>10 DEF LlmDone
  <2> QED
    BY <1>5, <1>6, <2>1, <2>2
<1>11. ASSUME SummaryDone(t) PROVE Goal
  BY <1>5, <1>11 DEF SummaryDone, Resumes, Running
<1>12. ASSUME LlmFails(t) PROVE Goal
  BY <1>4, <1>5, <1>12 DEF LlmFails, Resumes, Running, Ends
<1>13. ASSUME ErrorSent(t) \/ SendFails(t) \/ StreamCancelled(t) PROVE Goal
  BY <1>4, <1>13 DEF ErrorSent, SendFails, StreamCancelled, Ends
<1>14. ASSUME DoneSentMore(t) PROVE Goal
  BY <1>5, <1>14 DEF DoneSentMore, Resumes, Running
<1>15. ASSUME DoneSentLast(t) PROVE Goal
  <2>1. stream[t].pc \in Running
    BY <1>15 DEF DoneSentLast, Resumes, Running
  <2>2. Ends \/ stream' = [stream EXCEPT ![t].pc = "saved"]
    BY <1>15 DEF DoneSentLast, Ends
  <2> QED
    BY <1>4, <1>6, <2>1, <2>2
<1>16. Goal
  BY <1>7, <1>8, <1>9, <1>10, <1>11, <1>12, <1>13, <1>14, <1>15 DEF StreamAction
<1> QED
  BY <1>1, <1>2, <1>16 DEF Goal

\* So the steps of tasks preserve the invariant.
LEMMA StreamStepInv ==
    ASSUME IInv, NEW t \in Streams, StreamAction(t), TypeOK' PROVE IInv'
<1>0. TypeOK
  BY DEF IInv
<1>1. /\ UNCHANGED <<sessions, conn, delete>>
      /\ \A e \in Entries : /\ sc'[e].id = sc[e].id
                             /\ sc'[e].ws = sc[e].ws
                             /\ sc'[e].stream_task = sc[e].stream_task
  BY <1>0, StreamFrame
<1>2. /\ \A u \in Streams : stream'[u].sc = stream[u].sc
      /\ \A u \in Streams : stream'[u].ws = stream[u].ws
      /\ \A u \in Streams \ {t} : stream'[u] = stream[u]
  BY <1>0, StreamFrame
<1>a. stream'[t].pc \in Running => stream[t].pc \in Running
  BY <1>0, StreamFrame
<1>b. MaySave(t)' => MaySave(t)
  BY <1>0, StreamFrame
<1>c. \A u \in Streams : stream'[u].pc \in Running => stream[u].pc \in Running
  BY <1>2, <1>a
<1>3. ASSUME NEW u \in Streams, MaySave(u)' PROVE MaySave(u)
  <2>1. CASE u = t
    BY <1>3, <1>b, <2>1
  <2>2. CASE u # t
    <3>1. stream'[u] = stream[u] /\ conn' = conn
      BY <1>1, <1>2, <2>2
    <3> QED
      BY <1>3, <3>1 DEF MaySave
  <2> QED
    BY <2>1, <2>2
<1>4. \A id \in SessionIds : sessions[id] # None => sessions[id] \in Entries
  BY DEF IInv, TypeOK
<1>5. References'
  BY <1>1, <1>2, <1>c, <1>4 DEF IInv, References
<1>6. ExclusiveConnection'
  BY <1>1 DEF IInv, ExclusiveConnection, References
<1>7. StreamOwned'
  <2> SUFFICES ASSUME NEW u \in Streams, stream'[u].pc \in Running
               PROVE  /\ conn'[stream'[u].ws].pc \in Attached
                      /\ conn'[stream'[u].ws].sc = stream'[u].sc
                      /\ sc'[stream'[u].sc].stream_task = u
    BY DEF StreamOwned
  <2> QED
    BY <1>1, <1>2, <1>c DEF IInv, StreamOwned, References
<1>8. OpenIsRegistered'
  BY <1>1 DEF IInv, OpenIsRegistered, References
<1>9. SaverIsAwaited'
  <2> SUFFICES ASSUME NEW u \in Streams, MaySave(u)'
               PROVE  LET id == sc'[stream'[u].sc].id
                      IN  \/ sessions'[id] = stream'[u].sc
                          \/ \E d \in Deletes : /\ delete'[d].pc = "closing"
                                                /\ delete'[d].id = id
                                                /\ delete'[d].ws = stream'[u].ws
    BY DEF SaverIsAwaited
  <2>1. MaySave(u)
    BY <1>3
  <2>2. stream[u].sc \in Entries
    BY <2>1 DEF IInv, MaySave, References
  <2> QED
    BY <1>1, <1>2, <2>1, <2>2 DEF IInv, SaverIsAwaited
<1> QED
  BY <1>5, <1>6, <1>7, <1>8, <1>9 DEF IInv

\* What handlers and running tasks point at is neither None nor an unbuilt entry.
LEMMA Pointers ==
    ASSUME IInv
    PROVE  /\ \A id \in SessionIds : sessions[id] # None =>
                 sessions[id] \in Entries /\ sc[sessions[id]].id = id
           /\ \A c \in Connections : conn[c].pc \in Attached =>
                 /\ conn[c].sc \in Entries
                 /\ sc[conn[c].sc].id \in SessionIds
                 /\ sc[conn[c].sc].id # None
                 /\ sc[conn[c].sc].ws = c
           /\ \A t \in Streams : stream[t].pc \in Running =>
                 /\ stream[t].sc \in Entries
                 /\ stream[t].ws \in Connections
                 /\ conn[stream[t].ws].pc \in Attached
                 /\ conn[stream[t].ws].sc = stream[t].sc
                 /\ sc[stream[t].sc].stream_task = t
                 /\ sc[stream[t].sc].id \in SessionIds
                 /\ sc[stream[t].sc].id # None
<1>1. \A id \in SessionIds : sessions[id] # None => sessions[id] \in Entries
  BY DEF IInv, TypeOK
<1>2. \A e \in Entries : sc[e].id \in SessionIds \cup {None}
  BY DEF IInv, TypeOK, EntryType
<1> QED
  BY <1>1, <1>2 DEF IInv, References, ExclusiveConnection, StreamOwned

\* Building an entry from the disk and registering it, with or without the
\* connection that asked for it, preserves the invariant.
LEMMA RegisterInv ==
    ASSUME IInv, TypeOK', NEW e \in Entries, NEW id \in SessionIds,
           sc[e].id = None, sessions[id] = None,
           sc'[e].id = id, \A x \in Entries \ {e} : sc'[x] = sc[x],
           sessions' = [sessions EXCEPT ![id] = e], UNCHANGED <<stream, delete>>,
           \/ conn' = conn
           \/ \E c \in Connections : /\ conn[c].pc = "new"
                                     /\ Attach(c, e)
                                     /\ sc'[e].ws = c
    PROVE  IInv'
<1>1. id # None
  BY NoneAssumption
<1>2. /\ \A c \in Connections : conn[c].pc \in Attached =>
            conn[c].sc # e /\ sc'[conn[c].sc] = sc[conn[c].sc]
      /\ \A t \in Streams : stream[t].pc \in Running =>
            stream[t].sc # e /\ sc'[stream[t].sc] = sc[stream[t].sc]
  BY Pointers
<1>3. /\ sessions'[id] = e
      /\ \A i \in SessionIds \ {id} : sessions'[i] = sessions[i]
      /\ \A i \in SessionIds : sessions[i] # None => sessions'[i] = sessions[i]
  BY DEF IInv, TypeOK
<1>4. \A c \in Connections :
        \/ conn'[c] = conn[c]
        \/ /\ conn[c].pc = "new" /\ conn'[c].pc = "loop" /\ conn'[c].sc = e
           /\ sc'[e].ws = c
  BY DEF IInv, TypeOK, Attach
<1>5. "new" \notin Attached
  BY DEF Attached
<1>6. References'
  <2>1. ASSUME NEW i \in SessionIds, sessions'[i] # None PROVE sc'[sessions'[i]].id = i
    <3>1. CASE i = id
      BY <1>3, <3>1
    <3>2. CASE i # id
      <4>1. sessions'[i] = sessions[i] /\ sc[sessions[i]].id = i /\ sessions[i] \in Entries
        BY <1>3, <2>1, <3>2, Pointers
      <4>2. sessions[i] # e
        BY <1>1, <4>1, NoneAssumption
      <4> QED
        BY <4>1, <4>2
    <3> QED
      BY <3>1, <3>2
  <2>2. ASSUME NEW c \in Connections, conn'[c].pc \in Attached
        PROVE  conn'[c].sc \in Entries /\ sc'[conn'[c].sc].id # None
    <3>1. CASE conn'[c] = conn[c]
      BY <1>2, <2>2, <3>1, Pointers
    <3>2. CASE conn'[c].sc = e
      BY <1>1, <3>2
    <3> QED
      BY <1>4, <3>1, <3>2
  <2>3. /\ \A t \in Streams : stream'[t].pc \in Running =>
              stream'[t].sc \in Entries /\ stream'[t].ws \in Connections
        /\ \A d \in Deletes : delete'[d].pc = "closing" =>
              delete'[d].id \in SessionIds /\ delete'[d].ws \in Connections
    BY DEF IInv, References
  <2> QED
    BY <2>1, <2>2, <2>3 DEF References
<1>7. ExclusiveConnection'
  <2> SUFFICES ASSUME NEW c \in Connections, conn'[c].pc \in Attached
               PROVE  sc'[conn'[c].sc].ws = c
    BY DEF ExclusiveConnection
  <2>1. CASE conn'[c] = conn[c]
    BY <1>2, <2>1, Pointers
  <2>2. CASE conn'[c].sc = e /\ sc'[e].ws = c
    BY <2>2
  <2> QED
    BY <1>4, <2>1, <2>2
<1>8. StreamOwned'
  BY <1>2, <1>4, <1>5, Pointers DEF StreamOwned
<1>9. OpenIsRegistered'
  <2> SUFFICES ASSUME NEW c \in Connections, conn'[c].pc \in Attached, conn'[c].open
               PROVE  sessions'[sc'[conn'[c].sc].id] = conn'[c].sc
    BY DEF OpenIsRegistered
  <2>1. CASE conn'[c] = conn[c]
    <3>1. sessions[sc[conn[c].sc].id] = conn[c].sc
      BY <2>1 DEF IInv, OpenIsRegistered
    <3>2. sc'[conn[c].sc] = sc[conn[c].sc] /\ sc[conn[c].sc].id \in SessionIds
      BY <1>2, <2>1, Pointers
    <3>3. conn[c].sc # None
      BY <2>1, Pointers, NoneAssumption
    <3> QED
      BY <1>3, <2>1, <3>1, <3>2, <3>3
  <2>2. CASE conn'[c].sc = e
    BY <1>3, <2>2
  <2> QED
    BY <1>4, <2>1, <2>2
<1>10. SaverIsAwaited'
  <2> SUFFICES ASSUME NEW t \in Streams, MaySave(t)'
               PROVE  LET i == sc'[stream'[t].sc].id
                      IN  \/ sessions'[i] = stream'[t].sc
                          \/ \E d \in Deletes : /\ delete'[d].pc = "closing"
                                                /\ delete'[d].id = i
                                                /\ delete'[d].ws = stream'[t].ws
    BY DEF SaverIsAwaited
  <2>1. stream[t].pc \in Running
    BY DEF MaySave
  <2>2. conn'[stream[t].ws] = conn[stream[t].ws]
    BY <2>1, <1>4, <1>5, Pointers
  <2>3. MaySave(t)
    BY <2>2 DEF MaySave
  <2>4. sessions[sc[stream[t].sc].id] = stream[t].sc =>
            sessions'[sc[stream[t].sc].id] = stream[t].sc
    BY <2>1, <1>3, Pointers, NoneAssumption
  <2> QED
    BY <2>1, <2>3, <2>4, <1>2 DEF IInv, SaverIsAwaited
<1> QED
  BY <1>6, <1>7, <1>8, <1>9, <1>10 DEF IInv

\* Steps that change no pointer, attach and detach nobody, open no socket and clear
\* no cancellation preserve the invariant: frames received and sent, cancellation,
\* refused connections, disconnections.
LEMMA QuietInv ==
    ASSUME IInv, TypeOK', UNCHANGED <<sessions, sc, delete>>,
           \A c \in Connections : conn'[c].pc \in Attached <=> conn[c].pc \in Attached,
           \A c \in Connections : conn'[c].sc = conn[c].sc,
           \A c \in Connections : conn'[c].open => conn[c].open,
           \A t \in Streams : stream'[t].pc = stream[t].pc,
           \A t \in Streams : stream'[t].sc = stream[t].sc,
           \A t \in Streams : stream'[t].ws = stream[t].ws,
           \A t \in Streams : stream'[t].frames = stream[t].frames,
           \A t \in Streams : stream[t].cancelled => stream'[t].cancelled
    PROVE  IInv'
<1>1. References'
  BY DEF IInv, References
<1>2. ExclusiveConnection'
  BY DEF IInv, ExclusiveConnection
<1>3. StreamOwned'
  BY Pointers DEF StreamOwned
<1>4. OpenIsRegistered'
  BY DEF IInv, OpenIsRegistered
<1>5. SaverIsAwaited'
  <2> SUFFICES ASSUME NEW t \in Streams, MaySave(t)'
               PROVE  LET i == sc'[stream'[t].sc].id
                      IN  \/ sessions'[i] = stream'[t].sc
                          \/ \E d \in Deletes : /\ delete'[d].pc = "closing"
                                                /\ delete'[d].id = i
                                                /\ delete'[d].ws = stream'[t].ws
    BY DEF SaverIsAwaited
  <2>1. MaySave(t)
    BY Pointers DEF MaySave
  <2> QED
    BY <2>1 DEF IInv, SaverIsAwaited
<1> QED
  BY <1>1, <1>2, <1>3, <1>4, <1>5 DEF IInv

\* A handler that leaves when no stream of its entry is in progress takes nothing
\* from anybody else.
LEMMA DetachInv ==
    ASSUME IInv, TypeOK', NEW c \in Connections, conn[c].pc \in Attached,
           ~InProgress(conn[c].sc), Detach(c), UNCHANGED <<sessions, stream, delete>>
    PROVE  IInv'
<1> DEFINE e == conn[c].sc
<1>1. e \in Entries
  BY Pointers
<1>2. /\ conn'[c].pc = "closed"
      /\ \A x \in Connections \ {c} : conn'[x] = conn[x]
  BY DEF IInv, TypeOK, ConnType, Detach
<1>3. /\ sc'[e].id = sc[e].id
      /\ \A x \in Entries \ {e} : sc'[x] = sc[x]
  BY <1>1 DEF IInv, TypeOK, EntryType, Detach
<1>4. "closed" \notin Attached
  BY DEF Attached
<1>5. \A x \in Connections : conn'[x].pc \in Attached =>
            x # c /\ conn'[x] = conn[x] /\ conn[x].sc # e /\ sc'[conn[x].sc] = sc[conn[x].sc]
  BY <1>1, <1>2, <1>3, <1>4, Pointers
<1>6. \A t \in Streams : stream[t].pc \in Running => stream[t].sc # e
  BY <1>1, Pointers, NoneAssumption DEF InProgress
<1>7. \A t \in Streams : stream[t].pc \in Running =>
            /\ sc'[stream[t].sc] = sc[stream[t].sc]
            /\ stream[t].ws # c
            /\ conn'[stream[t].ws] = conn[stream[t].ws]
  BY <1>2, <1>3, <1>6, Pointers
<1>8. References'
  <2>1. \A id \in SessionIds : sessions[id] # None => sc'[sessions[id]].id = id
    BY <1>3, Pointers
  <2> QED
    BY <2>1, <1>5, Pointers DEF IInv, References
<1>9. ExclusiveConnection'
  BY <1>5, Pointers DEF ExclusiveConnection
<1>10. StreamOwned'
  BY <1>7, Pointers DEF StreamOwned
<1>11. OpenIsRegistered'
  BY <1>5 DEF IInv, OpenIsRegistered
<1>12. SaverIsAwaited'
  <2> SUFFICES ASSUME NEW t \in Streams, MaySave(t)'
               PROVE  LET i == sc'[stream'[t].sc].id
                      IN  \/ sessions'[i] = stream'[t].sc
                          \/ \E d \in Deletes : /\ delete'[d].pc = "closing"
                                                /\ delete'[d].id = i
                                                /\ delete'[d].ws = stream'[t].ws
    BY DEF SaverIsAwaited
  <2>1. stream[t].pc \in Running
    BY DEF MaySave
  <2>2. MaySave(t)
    BY <1>7, <2>1 DEF MaySave
  <2> QED
    BY <1>7, <2>1, <2>2 DEF IInv, SaverIsAwaited
<1> QED
  BY <1>8, <1>9, <1>10, <1>11, <1>12 DEF IInv

\* The 4409 check: a connection takes the slot of an entry that nobody serves.
LEMMA ConnectRegisteredInv ==
    ASSUME IInv, TypeOK', NEW c \in Connections, NEW id \in SessionIds,
           ConnectRegistered(c, id)
    PROVE  IInv'
<1> DEFINE e == sessions[id]
<1>1. e \in Entries /\ sc[e].id = id /\ sc[e].ws = None
  BY Pointers DEF ConnectRegistered
<1>2. /\ conn[c].pc = "new"
      /\ conn'[c].sc = e /\ conn'[c].pc = "loop"
      /\ \A x \in Connections \ {c} : conn'[x] = conn[x]
      /\ UNCHANGED <<sessions, stream, delete>>
  BY DEF IInv, TypeOK, ConnectRegistered, Attach
<1>3. /\ sc'[e].id = sc[e].id /\ sc'[e].ws = c /\ sc'[e].stream_task = sc[e].stream_task
      /\ \A x \in Entries \ {e} : sc'[x] = sc[x]
  BY <1>1 DEF IInv, TypeOK, EntryType, ConnectRegistered
<1>4. "new" \notin Attached
  BY DEF Attached
<1>5. \A x \in Connections : conn[x].pc \in Attached =>
            x # c /\ conn'[x] = conn[x] /\ conn[x].sc # e /\ sc'[conn[x].sc] = sc[conn[x].sc]
  BY <1>1, <1>2, <1>3, <1>4, Pointers, NoneAssumption
<1>6. \A t \in Streams : stream[t].pc \in Running =>
            /\ stream[t].ws # c
            /\ conn'[stream[t].ws] = conn[stream[t].ws]
            /\ sc'[stream[t].sc] = sc[stream[t].sc]
  BY <1>5, Pointers
<1>7. References'
  <2>1. \A i \in SessionIds : sessions'[i] # None => sc'[sessions'[i]].id = i
    BY <1>2, <1>3, Pointers
  <2>2. \A x \in Connections : conn'[x].pc \in Attached =>
            conn'[x].sc \in Entries /\ sc'[conn'[x].sc].id # None
    BY <1>1, <1>2, <1>3, <1>5, Pointers, NoneAssumption
  <2> QED
    BY <2>1, <2>2, <1>2 DEF IInv, References
<1>8. ExclusiveConnection'
  BY <1>2, <1>3, <1>5, Pointers DEF ExclusiveConnection
<1>9. StreamOwned'
  BY <1>2, <1>6, Pointers DEF StreamOwned
<1>10. OpenIsRegistered'
  <2> SUFFICES ASSUME NEW x \in Connections, conn'[x].pc \in Attached, conn'[x].open
               PROVE  sessions'[sc'[conn'[x].sc].id] = conn'[x].sc
    BY DEF OpenIsRegistered
  <2>1. CASE x = c
    BY <1>1, <1>2, <1>3, <2>1
  <2>2. CASE x # c
    BY <1>2, <1>5, <2>2 DEF IInv, OpenIsRegistered
  <2> QED
    BY <2>1, <2>2
<1>11. SaverIsAwaited'
  <2> SUFFICES ASSUME NEW t \in Streams, MaySave(t)'
               PROVE  LET i == sc'[stream'[t].sc].id
                      IN  \/ sessions'[i] = stream'[t].sc
                          \/ \E d \in Deletes : /\ delete'[d].pc = "closing"
                                                /\ delete'[d].id = i
                                                /\ delete'[d].ws = stream'[t].ws
    BY DEF SaverIsAwaited
  <2>1. stream[t].pc \in Running
    BY <1>2 DEF MaySave
  <2>2. MaySave(t)
    BY <1>2, <1>6, <2>1 DEF MaySave
  <2> QED
    BY <1>2, <1>6, <2>1, <2>2 DEF IInv, SaverIsAwaited
<1> QED
  BY <1>7, <1>8, <1>9, <1>10, <1>11 DEF IInv

\* A new stream task belongs to the handler that starts it, and it is the only
\* one of its entry that runs.
LEMMA ReceiveSendInv ==
    ASSUME IInv, TypeOK', NEW c \in Connections, ReceiveSend(c)
    PROVE  IInv'
<1> DEFINE e == conn[c].sc
<1>1. PICK t \in Streams :
        /\ stream[t].pc = "new"
        /\ stream' = [stream EXCEPT ![t] = [pc |-> "created", sc |-> e, ws |-> c,
                                            frames |-> 0, cancelled |-> FALSE]]
        /\ sc' = [sc EXCEPT ![e].stream_task = t]
  BY DEF ReceiveSend
<1>2. c \in Connections /\ conn[c].pc \in Attached /\ ~InProgress(e)
      /\ UNCHANGED <<sessions, disk, conn, delete>>
  BY DEF ReceiveSend, Attached
<1>3. /\ stream'[t].pc = "created" /\ stream'[t].sc = e /\ stream'[t].ws = c
      /\ \A u \in Streams \ {t} : stream'[u] = stream[u]
  BY <1>1 DEF IInv, TypeOK
<1>4. e \in Entries
  BY <1>2, Pointers
<1>5. /\ \A x \in Entries : sc'[x].id = sc[x].id
      /\ \A x \in Entries : sc'[x].ws = sc[x].ws
      /\ \A x \in Entries \ {e} : sc'[x] = sc[x]
      /\ sc'[e].stream_task = t
  BY <1>1, <1>4 DEF IInv, TypeOK, EntryType
<1>6. "new" \notin Running
  BY DEF Running
<1>7. \A u \in Streams : stream[u].pc \in Running => stream[u].sc # e /\ u # t
  BY <1>1, <1>2, <1>6, Pointers, NoneAssumption DEF InProgress
<1>8. References'
  <2>1. \A id \in SessionIds : sessions'[id] # None => sc'[sessions'[id]].id = id
    BY <1>2, <1>5, Pointers
  <2>2. \A x \in Connections : conn'[x].pc \in Attached =>
            conn'[x].sc \in Entries /\ sc'[conn'[x].sc].id # None
    BY <1>2, <1>5, Pointers
  <2>3. \A u \in Streams : stream'[u].pc \in Running =>
            stream'[u].sc \in Entries /\ stream'[u].ws \in Connections
    BY <1>3, <1>4, Pointers
  <2> QED
    BY <2>1, <2>2, <2>3, <1>2 DEF IInv, References
<1>9. ExclusiveConnection'
  BY <1>2, <1>5, Pointers DEF ExclusiveConnection
<1>10. StreamOwned'
  <2> SUFFICES ASSUME NEW u \in Streams, stream'[u].pc \in Running
               PROVE  /\ conn'[stream'[u].ws].pc \in Attached
                      /\ conn'[stream'[u].ws].sc = stream'[u].sc
                      /\ sc'[stream'[u].sc].stream_task = u
    BY DEF StreamOwned
  <2>1. CASE u = t
    BY <1>2, <1>3, <1>5, <2>1
  <2>2. CASE u # t
    BY <1>2, <1>3, <1>5, <1>7, <2>2, Pointers
  <2> QED
    BY <2>1, <2>2
<1>11. OpenIsRegistered'
  BY <1>2, <1>5, Pointers DEF IInv, OpenIsRegistered
<1>12. SaverIsAwaited'
  <2> SUFFICES ASSUME NEW u \in Streams, MaySave(u)'
               PROVE  LET i == sc'[stream'[u].sc].id
                      IN  \/ sessions'[i] = stream'[u].sc
                          \/ \E d \in Deletes : /\ delete'[d].pc = "closing"
                                                /\ delete'[d].id = i
                                                /\ delete'[d].ws = stream'[u].ws
    BY DEF SaverIsAwaited
  <2>1. CASE u = t
    <3>1. conn[c].open
      BY <1>2, <1>3, <2>1 DEF MaySave
    <3> QED
      BY <1>2, <1>3, <1>4, <1>5, <2>1, <3>1 DEF IInv, OpenIsRegistered
  <2>2. CASE u # t
    <3>1. MaySave(u)
      BY <1>2, <1>3, <2>2 DEF MaySave
    <3>2. stream[u].sc \in Entries
      BY <3>1, Pointers DEF MaySave
    <3> QED
      BY <1>2, <1>3, <1>5, <2>2, <3>1, <3>2 DEF IInv, SaverIsAwaited
  <2> QED
    BY <2>1, <2>2
<1> QED
  BY <1>8, <1>9, <1>10, <1>11, <1>12 DEF IInv

\* DELETE unregisters an entry and, when the entry is served, closes the socket of
\* the handler that serves it before it suspends.
LEMMA DeleteBeginInv ==
    ASSUME IInv, TypeOK', NEW d \in Deletes, NEW id \in SessionIds, DeleteBegin(d, id)
    PROVE  IInv'
<1> DEFINE e == sessions[id]
           ws == IF e = None THEN None ELSE sc[e].ws
<1>1. UNCHANGED <<sc, stream>> /\ delete[d].pc = "new"
  BY DEF DeleteBegin
<1>2. \A i \in SessionIds \ {id} : sessions'[i] = sessions[i]
  BY DEF IInv, TypeOK, DeleteBegin
<1>3. sessions'[id] = None
  BY DEF IInv, TypeOK, DeleteBegin
<1>4. ws \in Connections \cup {None}
  BY Pointers DEF IInv, TypeOK, EntryType
<1>5. /\ \A c \in Connections : conn'[c].pc = conn[c].pc
      /\ \A c \in Connections : conn'[c].sc = conn[c].sc
      /\ \A c \in Connections : conn'[c].open => conn[c].open /\ c # ws
  <2>1. CASE ws # None /\ conn' = [conn EXCEPT ![ws].open = FALSE]
    BY <2>1, <1>4 DEF IInv, TypeOK, ConnType
  <2>2. CASE ws = None /\ conn' = conn
    BY <2>2, NoneAssumption
  <2> QED
    BY <2>1, <2>2 DEF DeleteBegin
<1>6. /\ \A x \in Deletes \ {d} : delete'[x] = delete[x]
      /\ \/ /\ ws # None
            /\ delete'[d] = [pc |-> "closing", id |-> id, ws |-> ws]
         \/ ws = None /\ delete'[d].pc = "finished"
  BY DEF IInv, TypeOK, DeleteBegin
<1>7. \A c \in Connections : conn[c].pc \in Attached /\ conn[c].sc = e => c = ws
  BY Pointers, NoneAssumption
<1>8. References'
  <2>1. \A i \in SessionIds : sessions'[i] # None => sc'[sessions'[i]].id = i
    BY <1>1, <1>2, <1>3, Pointers
  <2>2. \A c \in Connections : conn'[c].pc \in Attached =>
            conn'[c].sc \in Entries /\ sc'[conn'[c].sc].id # None
    BY <1>1, <1>5, Pointers
  <2>3. \A u \in Streams : stream'[u].pc \in Running =>
            stream'[u].sc \in Entries /\ stream'[u].ws \in Connections
    BY <1>1, Pointers
  <2>4. \A x \in Deletes : delete'[x].pc = "closing" =>
            delete'[x].id \in SessionIds /\ delete'[x].ws \in Connections
    BY <1>4, <1>6 DEF IInv, References
  <2> QED
    BY <2>1, <2>2, <2>3, <2>4 DEF References
<1>9. ExclusiveConnection'
  BY <1>1, <1>5, Pointers DEF ExclusiveConnection
<1>10. StreamOwned'
  BY <1>1, <1>5, Pointers DEF StreamOwned
<1>11. OpenIsRegistered'
  <2> SUFFICES ASSUME NEW c \in Connections, conn'[c].pc \in Attached, conn'[c].open
               PROVE  sessions'[sc'[conn'[c].sc].id] = conn'[c].sc
    BY DEF OpenIsRegistered
  <2>1. conn[c].pc \in Attached /\ conn[c].open /\ c # ws /\ conn'[c].sc = conn[c].sc
    BY <1>5
  <2>2. sessions[sc[conn[c].sc].id] = conn[c].sc /\ sc[conn[c].sc].id \in SessionIds
    BY <2>1, Pointers DEF IInv, OpenIsRegistered
  <2>3. sc[conn[c].sc].id # id
    BY <2>1, <2>2, <1>7
  <2> QED
    BY <1>1, <1>2, <2>1, <2>2, <2>3
<1>12. SaverIsAwaited'
  <2> SUFFICES ASSUME NEW t \in Streams, MaySave(t)'
               PROVE  LET i == sc'[stream'[t].sc].id
                      IN  \/ sessions'[i] = stream'[t].sc
                          \/ \E x \in Deletes : /\ delete'[x].pc = "closing"
                                                /\ delete'[x].id = i
                                                /\ delete'[x].ws = stream'[t].ws
    BY DEF SaverIsAwaited
  <2>1. MaySave(t)
    BY <1>1, <1>5, Pointers DEF MaySave
  <2>2. stream[t].pc \in Running
    BY <2>1 DEF MaySave
  <2>3. CASE \E x \in Deletes : /\ delete[x].pc = "closing"
                               /\ delete[x].id = sc[stream[t].sc].id
                               /\ delete[x].ws = stream[t].ws
    BY <1>1, <1>6, <2>3
  <2>4. CASE sessions[sc[stream[t].sc].id] = stream[t].sc
    <3>1. CASE sc[stream[t].sc].id = id
      <4>1. stream[t].sc = e /\ stream[t].ws = ws /\ ws # None
        BY <2>2, <2>4, <3>1, <1>7, Pointers, NoneAssumption
      <4> QED
        BY <1>1, <1>6, <3>1, <4>1
    <3>2. CASE sc[stream[t].sc].id # id
      BY <1>1, <1>2, <2>2, <2>4, <3>2, Pointers
    <3> QED
      BY <3>1, <3>2
  <2> QED
    BY <2>1, <2>3, <2>4 DEF IInv, SaverIsAwaited
<1> QED
  BY <1>8, <1>9, <1>10, <1>11, <1>12 DEF IInv

\* DELETE removes the directory only when no frame is on its way on the socket it
\* closed: the stream it waited for has saved or never will.
LEMMA DeleteFinishInv ==
    ASSUME IInv, TypeOK', NEW d \in Deletes, DeleteFinish(d)
    PROVE  IInv'
<1>1. UNCHANGED <<sessions, sc, conn, stream>> /\ ~SendInFlight(delete[d].ws)
  BY DEF DeleteFinish
<1>2. /\ \A x \in Deletes \ {d} : delete'[x] = delete[x]
      /\ delete'[d].pc = "finished"
  BY DEF IInv, TypeOK, DeleteType, DeleteFinish
<1>3. References' /\ ExclusiveConnection' /\ StreamOwned' /\ OpenIsRegistered'
  <2>1. References'
    BY <1>1, <1>2 DEF IInv, References
  <2>2. ExclusiveConnection' /\ StreamOwned' /\ OpenIsRegistered'
    BY <1>1 DEF IInv, ExclusiveConnection, StreamOwned, OpenIsRegistered
  <2> QED
    BY <2>1, <2>2
<1>4. SaverIsAwaited'
  <2> SUFFICES ASSUME NEW t \in Streams, MaySave(t)'
               PROVE  LET i == sc'[stream'[t].sc].id
                      IN  \/ sessions'[i] = stream'[t].sc
                          \/ \E x \in Deletes : /\ delete'[x].pc = "closing"
                                                /\ delete'[x].id = i
                                                /\ delete'[x].ws = stream'[t].ws
    BY DEF SaverIsAwaited
  <2>1. MaySave(t) /\ stream[t].pc \in Running
    BY <1>1 DEF MaySave
  <2>2. CASE sessions[sc[stream[t].sc].id] = stream[t].sc
    BY <1>1, <2>2
  <2>3. CASE sessions[sc[stream[t].sc].id] # stream[t].sc
    <3>1. ~conn[stream[t].ws].open
      BY <2>1, <2>3, Pointers DEF IInv, OpenIsRegistered
    <3>2. stream[t].pc \in Sending
      BY <2>1, <3>1 DEF MaySave, Sending
    <3>3. stream[t].ws # delete[d].ws
      BY <1>1, <3>2 DEF SendInFlight
    <3>4. PICK x \in Deletes : /\ delete[x].pc = "closing"
                               /\ delete[x].id = sc[stream[t].sc].id
                               /\ delete[x].ws = stream[t].ws
      BY <2>1, <2>3 DEF IInv, SaverIsAwaited
    <3>5. x # d
      BY <3>3, <3>4
    <3> QED
      BY <1>1, <1>2, <3>4, <3>5
  <2> QED
    BY <2>2, <2>3
<1> QED
  BY <1>3, <1>4 DEF IInv

\* A restart leaves no handler, no task and no pending DELETE.
LEMMA RestartInv ==
    ASSUME TypeOK, TypeOK', Restart PROVE IInv'
<1>1. \A id \in SessionIds : sessions'[id] = None
  BY DEF Restart
<1>2. \A c \in Connections : conn'[c].pc \notin Attached
  BY DEF Restart, TypeOK, ConnType, Attached
<1>3. \A t \in Streams : stream'[t].pc \notin Running
  BY DEF Restart, Running
<1>4. \A d \in Deletes : delete'[d].pc # "closing"
  BY DEF Restart
<1> QED
  BY <1>1, <1>2, <1>3, <1>4
     DEF IInv, References, ExclusiveConnection, StreamOwned, OpenIsRegistered, SaverIsAwaited,
         MaySave

-----------------------------------------------------------------------------
(* Initial states, steps, theorems                                         *)

\* A freshly started server with an empty sessions directory.
LEMMA InitInv == Init => IInv
<1> SUFFICES ASSUME Init PROVE IInv
  OBVIOUS
<1>1. TypeOK
  <2>1. Blank \in EntryType
    BY DEF Blank, EntryType
  <2> QED
    BY <2>1 DEF Init, TypeOK, ConnType, StreamType, DeleteType, ConnPcs, StreamPcs, DeletePcs
<1>2. /\ \A id \in SessionIds : sessions[id] = None
      /\ \A c \in Connections : conn[c].pc \notin Attached
      /\ \A t \in Streams : stream[t].pc \notin Running
      /\ \A d \in Deletes : delete[d].pc # "closing"
  BY DEF Init, Attached, Running
<1> QED
  BY <1>1, <1>2
     DEF IInv, References, ExclusiveConnection, StreamOwned, OpenIsRegistered, SaverIsAwaited,
         MaySave

\* Every step of the server preserves the invariant, one step per operation.
LEMMA StepInv == IInv /\ [Next]_vars => IInv'
<1> SUFFICES ASSUME IInv, [Next]_vars PROVE IInv'
  OBVIOUS
<1> TypeOK'
  BY TypeStep DEF IInv
<1>1. ASSUME NEW id \in SessionIds, CreateSession(id) PROVE IInv'
  <2>1. PICK e \in Entries : NewEntry(e, id, <<>>) /\ sessions' = [sessions EXCEPT ![id] = e]
    BY <1>1 DEF CreateSession
  <2>2. sc'[e].id = id /\ \A x \in Entries \ {e} : sc'[x] = sc[x]
    BY <2>1 DEF IInv, TypeOK, EntryType, NewEntry, Blank
  <2> QED
    BY <1>1, <2>1, <2>2, RegisterInv DEF CreateSession, NewEntry
<1>2. ASSUME NEW id \in SessionIds, CreateSessionFails(id) PROVE IInv'
  BY <1>2, QuietInv DEF CreateSessionFails
<1>3. ASSUME NEW id \in SessionIds, GetSession(id) PROVE IInv'
  <2>1. PICK e \in Entries : NewEntry(e, id, disk[id]) /\ sessions' = [sessions EXCEPT ![id] = e]
    BY <1>3 DEF GetSession
  <2>2. sc'[e].id = id /\ \A x \in Entries \ {e} : sc'[x] = sc[x]
    BY <2>1 DEF IInv, TypeOK, EntryType, NewEntry, Blank
  <2> QED
    BY <1>3, <2>1, <2>2, RegisterInv DEF GetSession, NewEntry
<1>4. ASSUME NEW d \in Deletes, NEW id \in SessionIds, DeleteBegin(d, id) PROVE IInv'
  BY <1>4, DeleteBeginInv
<1>5. ASSUME NEW d \in Deletes, DeleteFinish(d) PROVE IInv'
  BY <1>5, DeleteFinishInv
<1>6. ASSUME NEW c \in Connections, NEW id \in SessionIds, ConnectRefused(c, id) PROVE IInv'
  <2>1. \A x \in Connections : conn'[x].pc \in Attached <=> conn[x].pc \in Attached
    BY <1>6 DEF IInv, TypeOK, ConnType, ConnectRefused, Attached
  <2>2. \A x \in Connections : conn'[x].sc = conn[x].sc
    BY <1>6 DEF IInv, TypeOK, ConnType, ConnectRefused
  <2>3. \A x \in Connections : conn'[x].open => conn[x].open
    BY <1>6 DEF IInv, TypeOK, ConnType, ConnectRefused
  <2> QED
    BY <1>6, <2>1, <2>2, <2>3, QuietInv DEF ConnectRefused
<1>7. ASSUME NEW c \in Connections, NEW id \in SessionIds, ConnectRegistered(c, id) PROVE IInv'
  BY <1>7, ConnectRegisteredInv
<1>8. ASSUME NEW c \in Connections, NEW id \in SessionIds, ConnectLoaded(c, id) PROVE IInv'
  <2>1. PICK e \in Entries :
            /\ sc[e].id = None
            /\ sc' = [sc EXCEPT ![e] = [Blank EXCEPT !.id = id, !.ws = c, !.history = disk[id]]]
            /\ sessions' = [sessions EXCEPT ![id] = e]
            /\ Attach(c, e)
    BY <1>8 DEF ConnectLoaded
  <2>2. sc'[e].id = id /\ sc'[e].ws = c /\ \A x \in Entries \ {e} : sc'[x] = sc[x]
    BY <2>1 DEF IInv, TypeOK, EntryType, Blank
  <2> QED
    BY <1>8, <2>1, <2>2, RegisterInv DEF ConnectLoaded
<1>9. ASSUME NEW c \in Connections, ReceiveSend(c) PROVE IInv'
  BY <1>9, ReceiveSendInv
<1>10. ASSUME NEW c \in Connections,
              ReceiveReplied(c) \/ ReplySent(c) \/ ClientDisconnects(c)
       PROVE  IInv'
  <2>1. \A x \in Connections : conn'[x].pc \in Attached <=> conn[x].pc \in Attached
    BY <1>10 DEF IInv, TypeOK, ConnType, ReceiveReplied, ReplySent, ClientDisconnects, Attached
  <2>2. \A x \in Connections : conn'[x].sc = conn[x].sc
    BY <1>10 DEF IInv, TypeOK, ConnType, ReceiveReplied, ReplySent, ClientDisconnects
  <2>3. \A x \in Connections : conn'[x].open => conn[x].open
    BY <1>10 DEF IInv, TypeOK, ConnType, ReceiveReplied, ReplySent, ClientDisconnects
  <2> QED
    BY <1>10, <2>1, <2>2, <2>3, QuietInv DEF ReceiveReplied, ReplySent, ClientDisconnects
<1>11. ASSUME NEW t, stream' = [stream EXCEPT ![t].cancelled = TRUE]
       PROVE  /\ \A u \in Streams : stream'[u].pc = stream[u].pc
              /\ \A u \in Streams : stream'[u].sc = stream[u].sc
              /\ \A u \in Streams : stream'[u].ws = stream[u].ws
              /\ \A u \in Streams : stream'[u].frames = stream[u].frames
              /\ \A u \in Streams : stream[u].cancelled => stream'[u].cancelled
  BY <1>11 DEF IInv, TypeOK, StreamType
<1>12. ASSUME NEW c \in Connections, ReceiveCancel(c) PROVE IInv'
  BY <1>11, <1>12, QuietInv DEF ReceiveCancel
<1>13. ASSUME NEW c \in Connections, LeaveLoop(c) PROVE IInv'
  <2>1. CASE /\ stream' = [stream EXCEPT ![sc[conn[c].sc].stream_task].cancelled = TRUE]
             /\ conn' = [conn EXCEPT ![c].pc = "cleanup"]
             /\ UNCHANGED sc
    <3>1. \A x \in Connections : conn'[x].pc \in Attached <=> conn[x].pc \in Attached
      BY <1>13, <2>1 DEF IInv, TypeOK, ConnType, LeaveLoop, Attached
    <3>2. \A x \in Connections : conn'[x].sc = conn[x].sc
      BY <2>1 DEF IInv, TypeOK, ConnType
    <3>3. \A x \in Connections : conn'[x].open => conn[x].open
      BY <2>1 DEF IInv, TypeOK, ConnType
    <3> QED
      BY <1>11, <1>13, <2>1, <3>1, <3>2, <3>3, QuietInv DEF LeaveLoop
  <2>2. CASE ~InProgress(conn[c].sc) /\ Detach(c) /\ UNCHANGED stream
    BY <1>13, <2>2, DetachInv DEF LeaveLoop, Attached
  <2> QED
    BY <1>13, <2>1, <2>2 DEF LeaveLoop
<1>14. ASSUME NEW c \in Connections, CleanupDone(c) PROVE IInv'
  BY <1>14, DetachInv DEF CleanupDone, Attached
<1>15. ASSUME NEW t \in Streams, StreamAction(t) PROVE IInv'
  BY <1>15, StreamStepInv
<1>16. ASSUME Restart PROVE IInv'
  BY <1>16, RestartInv DEF IInv
<1>17. ASSUME UNCHANGED vars PROVE IInv'
  BY <1>17, QuietInv DEF vars
<1> QED
  BY <1>1, <1>2, <1>3, <1>4, <1>5, <1>6, <1>7, <1>8, <1>9, <1>10, <1>12, <1>13, <1>14,
     <1>15, <1>16, <1>17
     DEF Next, RouteStep, ConnectStep, HandlerStep, StreamStep, StreamAction

\* The inductive invariant holds in every reachable state of the server.
THEOREM Invariance == Spec => []IInv
BY InitInv, StepInv, PTL DEF Spec

\* The variables stay in their types, whatever requests, frames, LLM outcomes,
\* storage faults and restarts come in whatever order.
THEOREM TypeCorrect == Spec => []TypeOK
<1>1. IInv => TypeOK
  BY DEF IInv
<1> QED
  BY <1>1, Invariance, PTL

\* The 4409 check and the finally block of handle_ws give an entry to one handler
\* at a time: no two handlers ever serve the same SessionConnections.
THEOREM ExclusiveConnectionHolds == Spec => []ExclusiveConnection
<1>1. IInv => ExclusiveConnection
  BY DEF IInv
<1> QED
  BY <1>1, Invariance, PTL

\* Every running stream task is the stream_task of its entry and has a handler that
\* will cancel and await it: streams do not overlap and do not outlive connections.
THEOREM StreamOwnedHolds == Spec => []StreamOwned
<1>1. IInv => StreamOwned
  BY DEF IInv
<1> QED
  BY <1>1, Invariance, PTL

\* Only streams of the registered object of a session get to update_session, except
\* while a DELETE that waits for their last frame is about to remove the directory.
THEOREM OnlyRegisteredSavesHolds == Spec => []OnlyRegisteredSaves
<1>1. IInv => OnlyRegisteredSaves
  BY DEF IInv, SaverIsAwaited, OnlyRegisteredSaves, DeletePending
<1> QED
  BY <1>1, Invariance, PTL
=============================================================================
