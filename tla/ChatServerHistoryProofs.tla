------------------------ MODULE ChatServerHistoryProofs ------------------------
(***************************************************************************)
(* Proofs about what ChatServer remembers and saves: turns that do not     *)
(* interleave, and records that, once saved, stay saved.  They rest on the *)
(* invariant of ChatServerProofs: a turn has its entry to itself, and only *)
(* the registered entry of a session writes its directory.                 *)
(***************************************************************************)
EXTENDS ChatServerProofs, SequenceTheorems

-----------------------------------------------------------------------------
(* Sequences of records                                                    *)

\* What add_user_query and add_model_response do to a history.
LEMMA AppendRecord ==
    ASSUME NEW records \in Seq(Records), NEW r \in Records
    PROVE  /\ Append(records, r) \in Seq(Records)
           /\ Append(records, r) # <<>>
           /\ Last(Append(records, r)) = r
           /\ Len(records) \in Nat
           /\ Len(Append(records, r)) = Len(records) + 1
           /\ \A i \in 1..Len(records) : Append(records, r)[i] = records[i]
           /\ Append(records, r)[Len(records) + 1] = r
<1>1. /\ Append(records, r) \in Seq(Records)
      /\ Len(Append(records, r)) = Len(records) + 1
      /\ \A i \in 1..Len(records) : Append(records, r)[i] = records[i]
      /\ Append(records, r)[Len(records) + 1] = r
  BY AppendProperties
<1>2. Len(records) \in Nat
  BY LenProperties
<1>3. Append(records, r) # <<>>
  BY <1>1, <1>2, EmptySeq
<1> QED
  BY <1>1, <1>2, <1>3 DEF Last

\* A prefix, element by element.
LEMMA PrefixElements ==
    ASSUME NEW p \in Seq(Records), NEW s \in Seq(Records)
    PROVE  IsPrefix(p, s) <=>
               Len(p) <= Len(s) /\ \A i \in 1..Len(p) : p[i] = s[i]
<1>1. Len(p) \in Nat /\ Len(s) \in Nat
  BY LenProperties
<1>2. ASSUME Len(p) <= Len(s)
      PROVE  SubSeq(p, 1, Len(p)) = SubSeq(s, 1, Len(p))
                <=> \A i \in 1..Len(p) : p[i] = s[i]
  <2>1. /\ SubSeq(p, 1, Len(p)) \in Seq(Records) /\ Len(SubSeq(p, 1, Len(p))) = Len(p)
        /\ \A i \in 1..Len(p) : SubSeq(p, 1, Len(p))[i] = p[i]
    <3>1. \A i \in 1..Len(p) : p[i] \in Records
      BY ElementOfSeq
    <3> QED
      BY <1>1, <3>1, SubSeqProperties
  <2>2. /\ SubSeq(s, 1, Len(p)) \in Seq(Records) /\ Len(SubSeq(s, 1, Len(p))) = Len(p)
        /\ \A i \in 1..Len(p) : SubSeq(s, 1, Len(p))[i] = s[i]
    <3>1. \A i \in 1..Len(p) : s[i] \in Records
      BY <1>1, <1>2, ElementOfSeq
    <3> QED
      BY <1>1, <3>1, SubSeqProperties
  <2>3. ASSUME \A i \in 1..Len(p) : p[i] = s[i]
        PROVE  SubSeq(p, 1, Len(p)) = SubSeq(s, 1, Len(p))
    BY <2>1, <2>2, <2>3, SeqEqual
  <2>4. ASSUME SubSeq(p, 1, Len(p)) = SubSeq(s, 1, Len(p))
        PROVE  \A i \in 1..Len(p) : p[i] = s[i]
    BY <2>1, <2>2, <2>4
  <2> QED
    BY <2>3, <2>4
<1> QED
  BY <1>2 DEF IsPrefix

\* A history begins with itself, and with whatever it began with before a record
\* was appended.
LEMMA PrefixFacts ==
    ASSUME NEW s \in Seq(Records)
    PROVE  /\ IsPrefix(s, s)
           /\ \A p \in Seq(Records), r \in Records :
                 IsPrefix(p, s) => IsPrefix(p, Append(s, r))
<1>1. Len(s) \in Nat
  BY LenProperties
<1>2. IsPrefix(s, s)
  BY <1>1, PrefixElements
<1>3. ASSUME NEW p \in Seq(Records), NEW r \in Records, IsPrefix(p, s)
      PROVE  IsPrefix(p, Append(s, r))
  <2>1. Len(p) \in Nat /\ Len(p) <= Len(s) /\ \A i \in 1..Len(p) : p[i] = s[i]
    BY <1>3, PrefixElements, LenProperties
  <2>2. /\ Append(s, r) \in Seq(Records) /\ Len(Append(s, r)) = Len(s) + 1
        /\ \A i \in 1..Len(s) : Append(s, r)[i] = s[i]
    BY AppendRecord
  <2>3. Len(p) <= Len(Append(s, r)) /\ \A i \in 1..Len(p) : p[i] = Append(s, r)[i]
    BY <1>1, <2>1, <2>2
  <2> QED
    BY <2>2, <2>3, PrefixElements
<1> QED
  BY <1>2, <1>3

\* An element of Prefixes is a sequence of records and a prefix.
LEMMA PrefixesFacts ==
    ASSUME NEW s \in Seq(Records), NEW p \in Prefixes(s)
    PROVE  p \in Seq(Records) /\ IsPrefix(p, s)
<1>1. Len(s) \in Nat
  BY LenProperties
<1>2. PICK l \in 0..Len(s) : p = SubSeq(s, 1, l)
  BY DEF Prefixes
<1>3. \A i \in 1..l : s[i] \in Records
  BY <1>1, <1>2, ElementOfSeq
<1>4. /\ p \in Seq(Records) /\ Len(p) = l
      /\ \A i \in 1..l : p[i] = s[i]
  BY <1>1, <1>2, <1>3, SubSeqProperties
<1> QED
  BY <1>1, <1>4, PrefixElements

-----------------------------------------------------------------------------
(* Answers and their questions                                             *)

\* A new question cannot come between an older question and its answer.
LEMMA QuestionAppended ==
    ASSUME NEW records \in Seq(Records), AnswersFollowQuestions(records),
           NEW t \in Streams
    PROVE  AnswersFollowQuestions(Append(records, [role |-> "user", turn |-> t]))
<1> DEFINE r == [role |-> "user", turn |-> t]
           longer == Append(records, r)
<1>1. r \in Records /\ r.role = "user"
  BY DEF Records
<1>2. /\ Len(records) \in Nat /\ Len(longer) = Len(records) + 1
      /\ \A i \in 1..Len(records) : longer[i] = records[i]
      /\ longer[Len(records) + 1] = r
  BY <1>1, AppendRecord
<1> HIDE DEF longer, r
<1>3. ASSUME NEW i \in 1..Len(longer), longer[i].role = "assistant"
      PROVE  i > 1 /\ longer[i - 1] = [role |-> "user", turn |-> longer[i].turn]
  <2>1. i \in 1..Len(records)
    BY <1>1, <1>2, <1>3
  <2>2. i > 1 /\ records[i - 1] = [role |-> "user", turn |-> records[i].turn]
    BY <1>2, <1>3, <2>1 DEF AnswersFollowQuestions
  <2> QED
    BY <1>2, <2>1, <2>2
<1> QED
  BY <1>3 DEF AnswersFollowQuestions, longer, r

\* An answer appended right after its question keeps the history in order.
LEMMA AnswerAppended ==
    ASSUME NEW records \in Seq(Records), AnswersFollowQuestions(records),
           NEW t \in Streams, records # <<>>,
           Last(records) = [role |-> "user", turn |-> t]
    PROVE  AnswersFollowQuestions(Append(records, [role |-> "assistant", turn |-> t]))
<1> DEFINE r == [role |-> "assistant", turn |-> t]
           longer == Append(records, r)
<1>1. r \in Records /\ r.turn = t
  BY DEF Records
<1>2. /\ Len(records) \in Nat \ {0} /\ Len(longer) = Len(records) + 1
      /\ \A i \in 1..Len(records) : longer[i] = records[i]
      /\ longer[Len(records) + 1] = r
  BY <1>1, AppendRecord, EmptySeq
<1>3. records[Len(records)] = [role |-> "user", turn |-> t]
  BY DEF Last
<1> HIDE DEF longer, r
<1>4. ASSUME NEW i \in 1..Len(longer), longer[i].role = "assistant"
      PROVE  i > 1 /\ longer[i - 1] = [role |-> "user", turn |-> longer[i].turn]
  <2>1. ASSUME i \in 1..Len(records)
        PROVE  i > 1 /\ longer[i - 1] = [role |-> "user", turn |-> longer[i].turn]
    <3>1. i > 1 /\ records[i - 1] = [role |-> "user", turn |-> records[i].turn]
      BY <1>2, <1>4, <2>1 DEF AnswersFollowQuestions
    <3> QED
      BY <1>2, <2>1, <3>1
  <2>2. ASSUME i = Len(records) + 1
        PROVE  i > 1 /\ longer[i - 1] = [role |-> "user", turn |-> longer[i].turn]
    <3>1. i > 1 /\ i - 1 = Len(records) /\ longer[i - 1] = records[Len(records)]
      BY <1>2, <2>2
    <3> QED
      BY <1>1, <1>2, <1>3, <2>2, <3>1
  <2> QED
    BY <1>2, <2>1, <2>2
<1> QED
  BY <1>4 DEF AnswersFollowQuestions, longer, r

\* So does leaving out the end of a history.
LEMMA PrefixInOrder ==
    ASSUME NEW s \in Seq(Records), NEW p \in Seq(Records), IsPrefix(p, s),
           AnswersFollowQuestions(s)
    PROVE  AnswersFollowQuestions(p)
<1>1. /\ Len(p) \in Nat /\ Len(s) \in Nat /\ Len(p) <= Len(s)
      /\ \A i \in 1..Len(p) : p[i] = s[i]
  BY PrefixElements, LenProperties
<1>2. ASSUME NEW i \in 1..Len(p), p[i].role = "assistant"
      PROVE  i > 1 /\ p[i - 1] = [role |-> "user", turn |-> p[i].turn]
  <2>1. p[i] = s[i] /\ i \in 1..Len(s)
    BY <1>1
  <2>2. i > 1 /\ s[i - 1] = [role |-> "user", turn |-> s[i].turn]
    BY <1>2, <2>1 DEF AnswersFollowQuestions
  <2>3. p[i - 1] = s[i - 1]
    BY <1>1, <2>2
  <2> QED
    BY <2>1, <2>2, <2>3
<1> QED
  BY <1>2 DEF AnswersFollowQuestions

\* What update_session can leave of a directory that exists: the history it was
\* given, what was there before, nothing loadable, or, in place of files that could
\* not be loaded, the beginning of that history.
LEMMA WrittenKinds ==
    ASSUME NEW d \in Seq(Records) \cup {NoDir, Unreadable}, NEW records \in Seq(Records),
           NEW left \in Written(d, records)
    PROVE  \/ left = records
           \/ left = d
           \/ left = Unreadable
           \/ d = Unreadable /\ left \in Seq(Records) /\ IsPrefix(left, records)
<1>1. CASE left \in {r \in Prefixes(records) : d = Unreadable /\ Answered(r)}
  BY <1>1, PrefixesFacts
<1>2. CASE left \notin {r \in Prefixes(records) : d = Unreadable /\ Answered(r)}
  BY <1>2 DEF Written
<1> QED
  BY <1>1, <1>2

-----------------------------------------------------------------------------
(* Turns do not interleave                                                 *)

Awaits(t) == stream[t].pc \in {"llm", "chunk"}

\* Histories and files stay in order in a step that only sets histories and files to
\* others that are in order, of entries for which no task awaits an answer.
LEMMA OrderKept ==
    ASSUME TurnsInv,
           \A e \in Entries :
              \/ sc'[e].history = sc[e].history
              \/ /\ AnswersFollowQuestions(sc'[e].history)
                 /\ \A t \in Streams : Awaits(t)' => stream[t].sc # e,
           \A id \in SessionIds :
              \/ disk'[id] \in {disk[id], NoDir, Unreadable}
              \/ AnswersFollowQuestions(disk'[id]),
           \A t \in Streams : Awaits(t)' => Awaits(t) /\ stream'[t].sc = stream[t].sc
    PROVE  TurnsNotInterleaved' /\ QuestionPending'
<1>1. TurnsNotInterleaved'
  <2>1. \A e \in Entries : AnswersFollowQuestions(sc'[e].history)
    BY DEF TurnsInv, TurnsNotInterleaved
  <2>2. ASSUME NEW id \in SessionIds, Readable(id)'
        PROVE  AnswersFollowQuestions(disk'[id])
    <3>1. CASE disk'[id] = disk[id]
      BY <2>2, <3>1 DEF TurnsInv, TurnsNotInterleaved, Readable
    <3>2. CASE disk'[id] # disk[id]
      BY <2>2, <3>2 DEF Readable
    <3> QED
      BY <3>1, <3>2
  <2> QED
    BY <2>1, <2>2 DEF TurnsNotInterleaved, AnswersFollowQuestions
<1>2. QuestionPending'
  <2> SUFFICES ASSUME NEW t \in Streams, Awaits(t)'
               PROVE  LET records == sc'[stream'[t].sc].history
                      IN  /\ records # <<>>
                          /\ Last(records) = [role |-> "user", turn |-> t]
    BY DEF QuestionPending, Awaits, Last
  <2>1. Awaits(t) /\ stream'[t].sc = stream[t].sc
    OBVIOUS
  <2>2. stream[t].sc \in Entries
    BY <2>1, Pointers DEF TurnsInv, Awaits, Running
  <2>3. sc'[stream[t].sc].history = sc[stream[t].sc].history
    BY <2>1, <2>2
  <2> QED
    BY <2>1, <2>3 DEF TurnsInv, QuestionPending, Awaits
<1> QED
  BY <1>1, <1>2

\* A new entry, empty or loaded from disk, is in order and nobody's yet.
LEMMA NewEntryInOrder ==
    ASSUME TurnsInv, NEW e \in Entries, sc[e].id = None,
           AnswersFollowQuestions(sc'[e].history),
           \A x \in Entries \ {e} : sc'[x] = sc[x],
           \A id \in SessionIds :
              \/ disk'[id] \in {disk[id], NoDir, Unreadable}
              \/ AnswersFollowQuestions(disk'[id]),
           UNCHANGED stream
    PROVE  TurnsNotInterleaved' /\ QuestionPending'
<1>1. \A t \in Streams : Awaits(t)' => stream[t].sc # e
  BY Pointers DEF TurnsInv, Awaits, Running
<1>2. \A t \in Streams : Awaits(t)' => Awaits(t) /\ stream'[t].sc = stream[t].sc
  BY DEF Awaits
<1> QED
  BY <1>1, <1>2, OrderKept

\* A removal leaves what was there, unreadable files or nothing.
LEMMA LeftoversKinds ==
    ASSUME NEW d, NEW left \in Leftovers(d) PROVE left \in {d, NoDir, Unreadable}
BY DEF Leftovers

\* The steps of routes and connecting handlers.
LEMMA RoutesInOrder ==
    ASSUME TurnsInv, RouteStep \/ ConnectStep
    PROVE  TurnsNotInterleaved' /\ QuestionPending'
<1> USE DEF TurnsInv
<1>0. AnswersFollowQuestions(<<>>)
  BY DEF AnswersFollowQuestions
<1>1. ASSUME NEW id \in SessionIds, CreateSession(id)
      PROVE  TurnsNotInterleaved' /\ QuestionPending'
  <2>1. PICK e \in Entries : NewEntry(e, id, <<>>)
    BY <1>1 DEF CreateSession
  <2>2. sc'[e].history = <<>> /\ \A x \in Entries \ {e} : sc'[x] = sc[x]
    BY <2>1 DEF NewEntry, Blank, IInv, TypeOK
  <2>3. disk'[id] = <<>> /\ \A i \in SessionIds \ {id} : disk'[i] = disk[i]
    BY <1>1 DEF CreateSession, IInv, TypeOK
  <2> QED
    BY <1>0, <1>1, <2>1, <2>2, <2>3, NewEntryInOrder DEF NewEntry, CreateSession
<1>2. ASSUME \A e \in Entries : sc'[e].history = sc[e].history,
             \A id \in SessionIds : disk'[id] \in {disk[id], NoDir, Unreadable},
             UNCHANGED stream
      PROVE  TurnsNotInterleaved' /\ QuestionPending'
  BY <1>2, OrderKept DEF Awaits
<1>3. ASSUME NEW id \in SessionIds, NEW left \in Leftovers(disk[id]),
             disk' = [disk EXCEPT ![id] = left]
      PROVE  \A i \in SessionIds : disk'[i] \in {disk[i], NoDir, Unreadable}
  BY <1>3, LeftoversKinds DEF IInv, TypeOK
<1>4. ASSUME NEW id \in SessionIds, CreateSessionFails(id)
      PROVE  TurnsNotInterleaved' /\ QuestionPending'
  BY <1>2, <1>4 DEF CreateSessionFails, IInv, TypeOK
<1>5. ASSUME NEW id \in SessionIds, GetSession(id)
      PROVE  TurnsNotInterleaved' /\ QuestionPending'
  <2>1. PICK e \in Entries : NewEntry(e, id, disk[id])
    BY <1>5 DEF GetSession
  <2>2. sc'[e].history = disk[id] /\ \A x \in Entries \ {e} : sc'[x] = sc[x]
    BY <2>1 DEF NewEntry, Blank, IInv, TypeOK
  <2>3. AnswersFollowQuestions(disk[id])
    BY <1>5 DEF GetSession, TurnsNotInterleaved
  <2> QED
    BY <1>5, <2>1, <2>2, <2>3, NewEntryInOrder DEF NewEntry, GetSession
<1>6. ASSUME NEW d \in Deletes, NEW id \in SessionIds, DeleteBegin(d, id)
      PROVE  TurnsNotInterleaved' /\ QuestionPending'
  <2>1. /\ UNCHANGED <<sc, stream>>
        /\ \/ UNCHANGED disk
           \/ \E left \in Leftovers(disk[id]) : disk' = [disk EXCEPT ![id] = left]
    BY <1>6 DEF DeleteBegin
  <2> QED
    BY <1>2, <1>3, <2>1
<1>7. ASSUME NEW d \in Deletes, DeleteFinish(d)
      PROVE  TurnsNotInterleaved' /\ QuestionPending'
  <2>1. delete[d].id \in SessionIds
    BY <1>7 DEF DeleteFinish, IInv, References
  <2> QED
    BY <1>2, <1>3, <1>7, <2>1 DEF DeleteFinish
<1>8. ASSUME NEW c \in Connections, NEW id \in SessionIds, ConnectRefused(c, id)
      PROVE  TurnsNotInterleaved' /\ QuestionPending'
  BY <1>2, <1>8 DEF ConnectRefused
<1>9. ASSUME NEW c \in Connections, NEW id \in SessionIds, ConnectRegistered(c, id)
      PROVE  TurnsNotInterleaved' /\ QuestionPending'
  <2>1. \A e \in Entries : sc'[e].history = sc[e].history
    BY <1>9 DEF ConnectRegistered, IInv, TypeOK, EntryType
  <2> QED
    BY <1>2, <1>9, <2>1 DEF ConnectRegistered
<1>10. ASSUME NEW c \in Connections, NEW id \in SessionIds, ConnectLoaded(c, id)
       PROVE  TurnsNotInterleaved' /\ QuestionPending'
  <2>1. PICK e \in Entries :
            /\ sc[e].id = None
            /\ sc' = [sc EXCEPT ![e] = [Blank EXCEPT !.id = id, !.ws = c, !.history = disk[id]]]
    BY <1>10 DEF ConnectLoaded
  <2>2. sc'[e].history = disk[id] /\ \A x \in Entries \ {e} : sc'[x] = sc[x]
    BY <2>1 DEF Blank, IInv, TypeOK
  <2>3. AnswersFollowQuestions(disk[id])
    BY <1>10 DEF ConnectLoaded, TurnsNotInterleaved
  <2> QED
    BY <1>10, <2>1, <2>2, <2>3, NewEntryInOrder DEF ConnectLoaded
<1> QED
  BY <1>1, <1>4, <1>5, <1>6, <1>7, <1>8, <1>9, <1>10 DEF RouteStep, ConnectStep

\* The steps of handlers: none of them touches a history or a file.
LEMMA HandlerFrame ==
    ASSUME TypeOK, HandlerStep
    PROVE  /\ \A e \in Entries : sc'[e].history = sc[e].history
           /\ \A e \in Entries : sc'[e].id = sc[e].id
           /\ UNCHANGED <<sessions, disk, delete>>
           /\ \A t \in Streams : Awaits(t)' => Awaits(t) /\ stream'[t].sc = stream[t].sc
<1> DEFINE Same == /\ \A e \in Entries : sc'[e].history = sc[e].history
                   /\ \A e \in Entries : sc'[e].id = sc[e].id
           Wait == \A t \in Streams : Awaits(t)' => Awaits(t) /\ stream'[t].sc = stream[t].sc
<1>1. ASSUME NEW c \in Connections, ReceiveSend(c) PROVE Same /\ Wait
  <2>1. PICK t \in Streams :
            /\ stream' = [stream EXCEPT ![t] = [pc |-> "created", sc |-> conn[c].sc, ws |-> c,
                                                frames |-> 0, cancelled |-> FALSE]]
            /\ sc' = [sc EXCEPT ![conn[c].sc].stream_task = t]
    BY <1>1 DEF ReceiveSend
  <2>2. Same
    BY <2>1 DEF TypeOK, EntryType
  <2>3. \A u \in Streams : stream'[u] = stream[u] \/ stream'[u].pc = "created"
    BY <2>1 DEF TypeOK
  <2> QED
    BY <2>2, <2>3 DEF Awaits
<1>2. ASSUME NEW c \in Connections, Detach(c) PROVE Same
  BY <1>2 DEF Detach, TypeOK, EntryType
<1>3. ASSUME NEW t, stream' = [stream EXCEPT ![t].cancelled = TRUE] PROVE Wait
  BY <1>3 DEF TypeOK, StreamType, Awaits
<1>4. ASSUME UNCHANGED sc PROVE Same
  BY <1>4
<1>5. ASSUME UNCHANGED stream PROVE Wait
  BY <1>5 DEF Awaits
<1> HIDE DEF Same, Wait
<1>6. Same /\ Wait
  BY <1>1, <1>2, <1>3, <1>4, <1>5
     DEF HandlerStep, ReceiveReplied, ReplySent, ReceiveCancel, LeaveLoop, CleanupDone,
         ClientDisconnects
<1>7. UNCHANGED <<sessions, disk, delete>>
  BY DEF HandlerStep, ReceiveSend, ReceiveReplied, ReplySent, ReceiveCancel, LeaveLoop,
         CleanupDone, ClientDisconnects
<1> QED
  BY <1>6, <1>7 DEF Same, Wait

\* The steps of tasks.  A task appends its question first and its answer when it has
\* waited for it; in between the entry is its own.
LEMMA StreamsInOrder ==
    ASSUME TurnsInv, NEW t \in Streams, StreamAction(t)
    PROVE  TurnsNotInterleaved' /\ QuestionPending'
<1> DEFINE e == stream[t].sc
           records == sc[e].history
<1>0. IInv /\ TypeOK /\ TurnsNotInterleaved /\ QuestionPending
  BY DEF TurnsInv, IInv
<1>1. /\ \A u \in Streams : stream'[u].sc = stream[u].sc
      /\ \A u \in Streams \ {t} : stream'[u] = stream[u]
  BY <1>0, StreamFrame
<1>2. stream[t].pc \in Running
  BY DEF StreamAction, StreamStart, LlmChunk, ChunkSent, LlmDone, SummaryDone, LlmFails,
         ErrorSent, SendFails, DoneSentMore, DoneSentLast, StreamCancelled, Resumes, Running
<1>3. e \in Entries /\ records \in Seq(Records) /\ sc[e].id \in SessionIds
  BY <1>0, <1>2, Pointers DEF TypeOK, EntryType
<1>4. \A u \in Streams \ {t} : stream[u].pc \in Running => stream[u].sc # e
  BY <1>0, <1>2, Pointers
<1>5. \A u \in Streams \ {t} : Awaits(u)' => Awaits(u) /\ stream[u].sc # e
  BY <1>1, <1>4 DEF Awaits, Running
<1>6. ASSUME NEW role \in {"user", "assistant"}, Append1(t, role)
      PROVE  /\ sc'[e].history = Append(records, [role |-> role, turn |-> t])
             /\ \A x \in Entries \ {e} : sc'[x] = sc[x]
  BY <1>0, <1>3, <1>6 DEF Append1, TypeOK, EntryType
<1>7. ASSUME StreamStart(t) PROVE TurnsNotInterleaved' /\ QuestionPending'
  <2> DEFINE question == [role |-> "user", turn |-> t]
  <2>1. /\ sc'[e].history = Append(records, question)
        /\ \A x \in Entries \ {e} : sc'[x] = sc[x]
        /\ UNCHANGED disk
    BY <1>6, <1>7 DEF StreamStart
  <2>2. AnswersFollowQuestions(records)
    BY <1>0, <1>3 DEF TurnsNotInterleaved
  <2>3. AnswersFollowQuestions(Append(records, question))
    BY <1>3, <2>2, QuestionAppended
  <2>4. TurnsNotInterleaved'
    <3>1. \A x \in Entries : AnswersFollowQuestions(sc'[x].history)
      BY <1>0, <2>1, <2>3 DEF TurnsNotInterleaved
    <3>2. \A id \in SessionIds : Readable(id)' => AnswersFollowQuestions(disk'[id])
      BY <1>0, <2>1 DEF TurnsNotInterleaved, Readable
    <3> QED
      BY <3>1, <3>2 DEF TurnsNotInterleaved, AnswersFollowQuestions
  <2>5. Append(records, question) # <<>> /\ Last(Append(records, question)) = question
    <3>1. question \in Records
      BY DEF Records
    <3> QED
      BY <1>3, <3>1, AppendRecord
  <2>6. ASSUME NEW u \in Streams, Awaits(u)'
        PROVE  /\ sc'[stream'[u].sc].history # <<>>
               /\ Last(sc'[stream'[u].sc].history) = [role |-> "user", turn |-> u]
    <3>1. CASE u = t
      BY <1>1, <2>1, <2>5, <3>1
    <3>2. CASE u # t
      <4>1. Awaits(u) /\ stream[u].sc # e /\ stream'[u].sc = stream[u].sc
        BY <1>1, <1>5, <2>6, <3>2
      <4>2. stream[u].sc \in Entries
        BY <1>0, <4>1, Pointers DEF Awaits, Running
      <4> QED
        BY <1>0, <2>1, <4>1, <4>2 DEF QuestionPending, Awaits
    <3> QED
      BY <3>1, <3>2
  <2>7. QuestionPending'
    BY <2>6 DEF QuestionPending, Awaits, Last
  <2> QED
    BY <2>4, <2>7
<1>8. ASSUME LlmDone(t) PROVE TurnsNotInterleaved' /\ QuestionPending'
  <2>1. /\ sc'[e].history = Append(records, [role |-> "assistant", turn |-> t])
        /\ \A x \in Entries \ {e} : sc'[x] = sc[x]
        /\ UNCHANGED disk
    BY <1>6, <1>8 DEF LlmDone
  <2>2. AnswersFollowQuestions(records)
    BY <1>0, <1>3 DEF TurnsNotInterleaved
  <2>3. records # <<>> /\ Last(records) = [role |-> "user", turn |-> t]
    BY <1>0, <1>8 DEF LlmDone, Resumes, QuestionPending
  <2>4. AnswersFollowQuestions(sc'[e].history)
    BY <1>3, <2>1, <2>2, <2>3, AnswerAppended
  <2>5. ~Awaits(t)'
    <3>1. stream'[t].pc \in {"summary", "done", "ended"}
      BY <1>0, <1>8 DEF LlmDone, StartSend, TypeOK, StreamType
    <3> QED
      BY <3>1 DEF Awaits
  <2> QED
    BY <1>1, <1>5, <2>1, <2>4, <2>5, OrderKept
<1>9. ASSUME DoneSentLast(t) PROVE TurnsNotInterleaved' /\ QuestionPending'
  <2> DEFINE id == sc[e].id
  <2>1. ~Awaits(t)'
    <3>1. stream'[t].pc \in {"saved", "ended"}
      BY <1>0, <1>9 DEF DoneSentLast, TypeOK, StreamType
    <3> QED
      BY <3>1 DEF Awaits
  <2>2. UNCHANGED sc /\ \A i \in SessionIds \ {id} : disk'[i] = disk[i]
    BY <1>0, <1>9 DEF DoneSentLast, TypeOK
  <2>3. AnswersFollowQuestions(records)
    BY <1>0, <1>3 DEF TurnsNotInterleaved
  <2>4. disk'[id] \in {disk[id], Unreadable} \/ AnswersFollowQuestions(disk'[id])
    <3>1. disk'[id] = disk[id] \/ disk'[id] \in Written(disk[id], records)
      BY <1>0, <1>3, <1>9 DEF DoneSentLast, TypeOK
    <3>2. disk[id] \in Seq(Records) \cup {NoDir, Unreadable}
      BY <1>0, <1>3 DEF TypeOK
    <3>3. ASSUME disk'[id] \in Written(disk[id], records)
          PROVE  disk'[id] \in {disk[id], Unreadable} \/ AnswersFollowQuestions(disk'[id])
      <4> DEFINE left == disk'[id]
      <4>1. \/ left = records
            \/ left \in {disk[id], Unreadable}
            \/ left \in Seq(Records) /\ IsPrefix(left, records)
        BY <1>3, <3>2, <3>3, WrittenKinds
      <4> HIDE DEF left
      <4>2. ASSUME left \in Seq(Records) /\ IsPrefix(left, records)
            PROVE  AnswersFollowQuestions(left)
        BY <1>3, <2>3, <4>2, PrefixInOrder
      <4>3. left \in {disk[id], Unreadable} \/ AnswersFollowQuestions(left)
        BY <2>3, <4>1, <4>2
      <4> QED
        BY <4>3 DEF left
    <3> QED
      BY <3>1, <3>3
  <2> QED
    BY <1>1, <1>3, <1>5, <2>1, <2>2, <2>4, OrderKept
<1>10. ASSUME ~StreamStart(t), ~LlmDone(t), ~DoneSentLast(t)
       PROVE  TurnsNotInterleaved' /\ QuestionPending'
  <2>1. UNCHANGED <<sc, disk>>
    BY <1>10 DEF StreamAction, LlmChunk, ChunkSent, SummaryDone, LlmFails, ErrorSent,
                 SendFails, DoneSentMore, StreamCancelled
  <2>2. ASSUME NEW pc \in {"done", "error", "ended"}, NEW n,
               StartSend(t, pc, n) \/ stream' = [stream EXCEPT ![t].pc = "ended"]
        PROVE  ~Awaits(t)'
    BY <1>0, <2>2 DEF StartSend, TypeOK, StreamType, Awaits
  <2>3. Awaits(t)' => Awaits(t)
    <3>1. CASE LlmChunk(t) \/ ChunkSent(t)
      BY <3>1 DEF LlmChunk, ChunkSent, Resumes, Awaits
    <3>2. CASE ~(LlmChunk(t) \/ ChunkSent(t))
      <4>1. \/ \E n : StartSend(t, "done", n) \/ StartSend(t, "error", n)
            \/ stream' = [stream EXCEPT ![t].pc = "ended"]
        BY <1>10, <3>2 DEF StreamAction, SummaryDone, LlmFails, ErrorSent, SendFails,
                           DoneSentMore, StreamCancelled
      <4> QED
        BY <2>2, <4>1
    <3> QED
      BY <3>1, <3>2
  <2> QED
    BY <1>1, <1>5, <2>1, <2>3, OrderKept
<1> QED
  BY <1>7, <1>8, <1>9, <1>10

\* Memory is lost in a restart; what is on disk is as it was.
LEMMA RestartInOrder ==
    ASSUME TurnsInv, Restart PROVE TurnsNotInterleaved' /\ QuestionPending'
<1>1. \A e \in Entries : sc'[e].history = <<>>
  BY DEF Restart, Blank
<1>2. \A t \in Streams : ~Awaits(t)'
  BY DEF Restart, Awaits, Running
<1>3. UNCHANGED disk
  BY DEF Restart
<1>4. AnswersFollowQuestions(<<>>)
  BY DEF AnswersFollowQuestions
<1> QED
  BY <1>1, <1>2, <1>3, <1>4, OrderKept DEF TurnsInv

\* TurnsInv is an inductive invariant.
LEMMA TurnsStep == TurnsInv /\ [Next]_vars => TurnsInv'
<1> SUFFICES ASSUME TurnsInv, [Next]_vars PROVE TurnsInv'
  OBVIOUS
<1>1. IInv'
  BY StepInv DEF TurnsInv
<1>2. ASSUME RouteStep \/ ConnectStep PROVE TurnsNotInterleaved' /\ QuestionPending'
  BY <1>2, RoutesInOrder
<1>3. ASSUME HandlerStep PROVE TurnsNotInterleaved' /\ QuestionPending'
  BY <1>3, HandlerFrame, OrderKept DEF TurnsInv, IInv
<1>4. ASSUME NEW t \in Streams, StreamAction(t)
      PROVE  TurnsNotInterleaved' /\ QuestionPending'
  BY <1>4, StreamsInOrder
<1>5. ASSUME Restart PROVE TurnsNotInterleaved' /\ QuestionPending'
  BY <1>5, RestartInOrder
<1>6. ASSUME UNCHANGED vars PROVE TurnsNotInterleaved' /\ QuestionPending'
  BY <1>6, OrderKept DEF vars, Awaits
<1> QED
  BY <1>1, <1>2, <1>3, <1>4, <1>5, <1>6 DEF TurnsInv, Next, StreamStep, StreamAction

\* A freshly started server over an empty directory has no records out of order.
LEMMA TurnsInit == Init => TurnsInv
<1> SUFFICES ASSUME Init PROVE TurnsInv
  OBVIOUS
<1>1. \A e \in Entries : sc[e].history = <<>>
  BY DEF Init, Blank
<1>2. \A id \in SessionIds : ~Readable(id)
  BY DEF Init, Readable
<1>3. \A t \in Streams : stream[t].pc = "new"
  BY DEF Init
<1>4. AnswersFollowQuestions(<<>>)
  BY DEF AnswersFollowQuestions
<1> QED
  BY <1>1, <1>2, <1>3, <1>4, InitInv DEF TurnsInv, TurnsNotInterleaved, QuestionPending

\* In memory and on disk an answer stands right after the question of its own turn:
\* whatever connections come and go, whatever frames are sent during a stream, and
\* whichever storage operations fail, turns of one session never mix.
THEOREM TurnsNotInterleavedHolds == Spec => []TurnsNotInterleaved
<1>1. TurnsInv => TurnsNotInterleaved
  BY DEF TurnsInv
<1> QED
  BY <1>1, TurnsInit, TurnsStep, PTL DEF Spec

-----------------------------------------------------------------------------
(* Memory covers the disk, and saved records are kept.  Removals that fail *)
(* are left out: after one, a session loaded between the two halves of its *)
(* DELETE keeps running beside files it has not written.                   *)

\* MemoryCoversDisk and SavedRecordsKept, of one session
Covered(id) ==
    sessions[id] # None /\ Readable(id) /\ ~DeletePending(id) =>
        IsPrefix(disk[id], sc[sessions[id]].history)

Kept(id) ==
    Readable(id) /\ Readable(id)' /\ ~DeletePending(id) => IsPrefix(disk[id], disk'[id])

\* A readable directory holds a sequence of records, which is its own prefix.
LEMMA ReadableFacts ==
    ASSUME TypeOK, NEW id \in SessionIds, Readable(id)
    PROVE  disk[id] \in Seq(Records) /\ IsPrefix(disk[id], disk[id])
BY PrefixFacts DEF TypeOK, Readable

\* A session stays covered in a step that leaves its registered entry, or unregisters
\* it, and leaves its directory, or removes it.
LEMMA CoveredKept ==
    ASSUME CoverInv, NEW id \in SessionIds,
           sessions'[id] \in {None, sessions[id]},
           sessions[id] # None => sc'[sessions[id]].history = sc[sessions[id]].history,
           disk'[id] \in {disk[id], NoDir, Unreadable},
           DeletePending(id) => DeletePending(id)'
    PROVE  Covered(id)' /\ Kept(id)
<1>1. ASSUME Readable(id)' PROVE disk'[id] = disk[id] /\ Readable(id)
  BY <1>1 DEF Readable
<1>2. Covered(id)'
  <2> SUFFICES ASSUME sessions'[id] # None, Readable(id)', ~DeletePending(id)'
               PROVE  IsPrefix(disk'[id], sc'[sessions'[id]].history)
    BY DEF Covered
  <2>1. sessions[id] # None /\ sessions'[id] = sessions[id]
    OBVIOUS
  <2>2. IsPrefix(disk[id], sc[sessions[id]].history)
    BY <1>1, <2>1 DEF CoverInv, MemoryCoversDisk
  <2> QED
    BY <1>1, <2>1, <2>2
<1>3. Kept(id)
  BY <1>1, ReadableFacts DEF Kept, CoverInv, IInv
<1> QED
  BY <1>2, <1>3

\* Steps that change neither files, entries' histories nor pending DELETEs.
LEMMA QuietCovered ==
    ASSUME CoverInv, UNCHANGED <<sessions, disk, delete>>,
           \A e \in Entries : sc'[e].history = sc[e].history
    PROVE  \A id \in SessionIds : Covered(id)' /\ Kept(id)
<1> SUFFICES ASSUME NEW id \in SessionIds PROVE Covered(id)' /\ Kept(id)
  OBVIOUS
<1>1. sessions[id] # None => sessions[id] \in Entries
  BY Pointers DEF CoverInv
<1>2. DeletePending(id) => DeletePending(id)'
  BY DEF DeletePending
<1> QED
  BY <1>1, <1>2, CoveredKept

\* A new entry holds what its directory holds, or is created with it.
LEMMA NewEntryCovered ==
    ASSUME CoverInv, NEW e \in Entries, NEW id \in SessionIds, sc[e].id = None,
           sessions' = [sessions EXCEPT ![id] = e], UNCHANGED delete,
           \A x \in Entries \ {e} : sc'[x] = sc[x],
           sc'[e].history = disk'[id], disk'[id] \in Seq(Records),
           Readable(id) => disk'[id] = disk[id],
           \A i \in SessionIds \ {id} : disk'[i] = disk[i]
    PROVE  \A i \in SessionIds : Covered(i)' /\ Kept(i)
<1> SUFFICES ASSUME NEW i \in SessionIds PROVE Covered(i)' /\ Kept(i)
  OBVIOUS
<1>1. CASE i = id
  <2>1. sessions'[i] = e
    BY <1>1 DEF CoverInv, IInv, TypeOK
  <2>2. IsPrefix(disk'[i], sc'[e].history)
    BY <1>1, PrefixFacts
  <2>3. Kept(i)
    BY <1>1, ReadableFacts DEF Kept, CoverInv, IInv
  <2> QED
    BY <2>1, <2>2, <2>3 DEF Covered
<1>2. CASE i # id
  <2>1. sessions'[i] = sessions[i]
    BY <1>2 DEF CoverInv, IInv, TypeOK
  <2>2. sessions[i] # None => sessions[i] \in Entries /\ sessions[i] # e
    BY Pointers, NoneAssumption DEF CoverInv
  <2>3. DeletePending(i) => DeletePending(i)'
    BY DEF DeletePending
  <2> QED
    BY <1>2, <2>1, <2>2, <2>3, CoveredKept
<1> QED
  BY <1>1, <1>2

\* The steps of routes and connecting handlers.  DELETE unregisters the entry before
\* it can close its socket, and when it has removed the directory there is nothing to
\* cover.
LEMMA RoutesCovered ==
    ASSUME "delete" \notin Faults, CoverInv, RouteStep \/ ConnectStep
    PROVE  \A id \in SessionIds : Covered(id)' /\ Kept(id)
<1> DEFINE Goal == \A id \in SessionIds : Covered(id)' /\ Kept(id)
<1> USE DEF CoverInv
<1>1. ASSUME NEW id \in SessionIds, CreateSession(id) PROVE Goal
  <2>1. PICK e \in Entries : NewEntry(e, id, <<>>) /\ sessions' = [sessions EXCEPT ![id] = e]
    BY <1>1 DEF CreateSession
  <2>2. sc'[e].history = <<>> /\ \A x \in Entries \ {e} : sc'[x] = sc[x]
    BY <2>1 DEF NewEntry, Blank, IInv, TypeOK
  <2>3. disk'[id] = <<>> /\ \A i \in SessionIds \ {id} : disk'[i] = disk[i]
    BY <1>1 DEF CreateSession, IInv, TypeOK
  <2>4. ~Readable(id) /\ <<>> \in Seq(Records)
    BY <1>1, EmptySeq DEF CreateSession, Readable
  <2> QED
    BY <1>1, <2>1, <2>2, <2>3, <2>4, NewEntryCovered DEF NewEntry, CreateSession
<1>2. ASSUME NEW id \in SessionIds, CreateSessionFails(id) PROVE Goal
  <2>1. ASSUME NEW i \in SessionIds PROVE Covered(i)' /\ Kept(i)
    <3>1. disk'[i] \in {disk[i], NoDir, Unreadable}
      BY <1>2 DEF CreateSessionFails, IInv, TypeOK
    <3>2. UNCHANGED <<sessions, sc, delete>>
      BY <1>2 DEF CreateSessionFails
    <3> QED
      BY <3>1, <3>2, CoveredKept DEF DeletePending
  <2> QED
    BY <2>1
<1>3. ASSUME NEW id \in SessionIds, GetSession(id) PROVE Goal
  <2>1. PICK e \in Entries :
            NewEntry(e, id, disk[id]) /\ sessions' = [sessions EXCEPT ![id] = e]
    BY <1>3 DEF GetSession
  <2>2. sc'[e].history = disk[id] /\ \A x \in Entries \ {e} : sc'[x] = sc[x]
    BY <2>1 DEF NewEntry, Blank, IInv, TypeOK
  <2>3. disk[id] \in Seq(Records)
    BY <1>3, ReadableFacts DEF GetSession, IInv
  <2> QED
    BY <1>3, <2>1, <2>2, <2>3, NewEntryCovered DEF NewEntry, GetSession
<1>4. ASSUME NEW d \in Deletes, NEW id \in SessionIds, DeleteBegin(d, id) PROVE Goal
  <2> SUFFICES ASSUME NEW i \in SessionIds PROVE Covered(i)' /\ Kept(i)
    OBVIOUS
  <2>1. UNCHANGED sc /\ delete[d].pc = "new"
    BY <1>4 DEF DeleteBegin
  <2>2. sessions'[i] \in {None, sessions[i]}
    BY <1>4 DEF DeleteBegin, IInv, TypeOK
  <2>3. disk'[i] \in {disk[i], NoDir, Unreadable}
    <3>1. disk' = disk \/ \E left \in Leftovers(disk[id]) : disk' = [disk EXCEPT ![id] = left]
      BY <1>4 DEF DeleteBegin
    <3> QED
      BY <3>1, LeftoversKinds DEF IInv, TypeOK
  <2>4. DeletePending(i) => DeletePending(i)'
    <3>1. \A x \in Deletes \ {d} : delete'[x] = delete[x]
      BY <1>4 DEF DeleteBegin, IInv, TypeOK
    <3> QED
      BY <2>1, <3>1 DEF DeletePending
  <2> QED
    BY <2>1, <2>2, <2>3, <2>4, CoveredKept
<1>5. ASSUME NEW d \in Deletes, DeleteFinish(d) PROVE Goal
  <2> SUFFICES ASSUME NEW i \in SessionIds PROVE Covered(i)' /\ Kept(i)
    OBVIOUS
  <2> DEFINE id == delete[d].id
  <2>1. id \in SessionIds /\ UNCHANGED <<sessions, sc>>
    BY <1>5 DEF DeleteFinish, IInv, References
  <2>2. Leftovers(disk[id]) = {NoDir}
    BY DEF Leftovers
  <2>3. disk'[id] = NoDir /\ \A x \in SessionIds \ {id} : disk'[x] = disk[x]
    BY <1>5, <2>1, <2>2 DEF DeleteFinish, IInv, TypeOK
  <2>4. CASE i = id
    BY <2>3, <2>4 DEF Covered, Kept, Readable
  <2>5. CASE i # id
    <3>1. \A x \in Deletes \ {d} : delete'[x] = delete[x]
      BY <1>5 DEF DeleteFinish, IInv, TypeOK
    <3>2. DeletePending(i) => DeletePending(i)'
      BY <2>5, <3>1 DEF DeletePending
    <3> QED
      BY <2>1, <2>3, <2>5, <3>2, CoveredKept
  <2> QED
    BY <2>4, <2>5
<1>6. ASSUME NEW c \in Connections, NEW id \in SessionIds, ConnectRefused(c, id) PROVE Goal
  BY <1>6, QuietCovered DEF ConnectRefused
<1>7. ASSUME NEW c \in Connections, NEW id \in SessionIds, ConnectRegistered(c, id) PROVE Goal
  <2>1. \A e \in Entries : sc'[e].history = sc[e].history
    BY <1>7 DEF ConnectRegistered, IInv, TypeOK, EntryType
  <2> QED
    BY <1>7, <2>1, QuietCovered DEF ConnectRegistered
<1>8. ASSUME NEW c \in Connections, NEW id \in SessionIds, ConnectLoaded(c, id) PROVE Goal
  <2>1. PICK e \in Entries :
            /\ sc[e].id = None
            /\ sc' = [sc EXCEPT ![e] = [Blank EXCEPT !.id = id, !.ws = c, !.history = disk[id]]]
            /\ sessions' = [sessions EXCEPT ![id] = e]
    BY <1>8 DEF ConnectLoaded
  <2>2. sc'[e].history = disk[id] /\ \A x \in Entries \ {e} : sc'[x] = sc[x]
    BY <2>1 DEF Blank, IInv, TypeOK
  <2>3. disk[id] \in Seq(Records)
    BY <1>8, ReadableFacts DEF ConnectLoaded, IInv
  <2> QED
    BY <1>8, <2>1, <2>2, <2>3, NewEntryCovered DEF ConnectLoaded
<1> QED
  BY <1>1, <1>2, <1>3, <1>4, <1>5, <1>6, <1>7, <1>8 DEF RouteStep, ConnectStep

\* The steps of tasks: a history only grows, and the save writes the history of the
\* registered entry, which begins with what was saved before.
LEMMA StreamsCovered ==
    ASSUME CoverInv, NEW t \in Streams, StreamAction(t)
    PROVE  \A id \in SessionIds : Covered(id)' /\ Kept(id)
<1> SUFFICES ASSUME NEW i \in SessionIds PROVE Covered(i)' /\ Kept(i)
  OBVIOUS
<1> DEFINE e == stream[t].sc
           records == sc[e].history
<1>0. IInv /\ TypeOK /\ Covered(i)
  BY DEF CoverInv, IInv, MemoryCoversDisk, Covered
<1>1. UNCHANGED <<sessions, delete>> /\ (DeletePending(i)' <=> DeletePending(i))
  BY <1>0, StreamFrame DEF DeletePending
<1>2. stream[t].pc \in Running
  BY DEF StreamAction, StreamStart, LlmChunk, ChunkSent, LlmDone, SummaryDone, LlmFails,
         ErrorSent, SendFails, DoneSentMore, DoneSentLast, StreamCancelled, Resumes, Running
<1>3. e \in Entries /\ records \in Seq(Records) /\ sc[e].id \in SessionIds
  BY <1>0, <1>2, Pointers DEF TypeOK, EntryType
<1>4. sessions[i] # None => sessions[i] \in Entries /\ sc[sessions[i]].id = i
  BY <1>0, Pointers
<1>5. ASSUME NEW role \in {"user", "assistant"}, Append1(t, role), UNCHANGED disk
      PROVE  Covered(i)' /\ Kept(i)
  <2> DEFINE r == [role |-> role, turn |-> t]
  <2>1. /\ r \in Records
        /\ sc'[e].history = Append(records, r)
        /\ \A x \in Entries \ {e} : sc'[x] = sc[x]
    BY <1>0, <1>3, <1>5 DEF Append1, TypeOK, EntryType, Records
  <2>2. CASE sessions[i] = e
    <3>1. ASSUME Covered(i), Readable(i), ~DeletePending(i)
          PROVE  IsPrefix(disk[i], Append(records, r))
      <4>1. disk[i] \in Seq(Records)
        BY <1>0, <3>1, ReadableFacts
      <4>2. IsPrefix(disk[i], records)
        BY <1>3, <2>2, <3>1, NoneAssumption DEF Covered
      <4> QED
        BY <1>3, <2>1, <4>1, <4>2, PrefixFacts
    <3>2. Covered(i)'
      BY <1>0, <1>1, <1>5, <2>1, <2>2, <3>1 DEF Covered, Readable
    <3>3. Kept(i)
      BY <1>0, <1>5, ReadableFacts DEF Kept
    <3> QED
      BY <3>2, <3>3
  <2>3. CASE sessions[i] # e
    BY <1>1, <1>4, <1>5, <2>1, <2>3, CoveredKept
  <2> QED
    BY <2>2, <2>3
<1>6. ASSUME DoneSentLast(t) PROVE Covered(i)' /\ Kept(i)
  <2>1. UNCHANGED sc /\ \A x \in SessionIds \ {sc[e].id} : disk'[x] = disk[x]
    BY <1>0, <1>6 DEF DoneSentLast, TypeOK
  <2>2. CASE i # sc[e].id
    BY <1>1, <2>1, <2>2, CoveredKept
  <2>3. CASE i = sc[e].id /\ DeletePending(i)
    BY <1>1, <2>3 DEF Covered, Kept
  <2>4. CASE i = sc[e].id /\ ~DeletePending(i)
    <3>1. MaySave(t)
      BY <1>2, <1>6 DEF DoneSentLast, Resumes, MaySave
    <3>2. sessions[i] = e
      BY <1>0, <2>4, <3>1 DEF IInv, SaverIsAwaited, DeletePending
    <3>3. disk'[i] = disk[i] \/ disk'[i] \in Written(disk[i], records)
      BY <1>0, <2>4, <1>6 DEF DoneSentLast, TypeOK
    <3>4. disk[i] \in Seq(Records) \cup {NoDir, Unreadable}
      BY <1>0 DEF TypeOK
    <3>5. Readable(i) => IsPrefix(disk[i], records)
      BY <1>0, <1>3, <2>4, <3>2, NoneAssumption DEF Covered
    <3> DEFINE left == disk'[i]
    <3>6. \/ left = records
          \/ left \in {disk[i], Unreadable}
          \/ disk[i] = Unreadable /\ left \in Seq(Records) /\ IsPrefix(left, records)
      BY <1>3, <3>3, <3>4, WrittenKinds
    <3> HIDE DEF left
    <3>7. ASSUME left \notin {NoDir, Unreadable} PROVE IsPrefix(left, records)
      <4>1. CASE left = records
        BY <1>3, <4>1, PrefixFacts
      <4>2. CASE left = disk[i]
        BY <3>5, <3>7, <4>2 DEF Readable
      <4> QED
        BY <3>6, <3>7, <4>1, <4>2
    <3>8. ASSUME left \notin {NoDir, Unreadable}, Readable(i) PROVE IsPrefix(disk[i], left)
      <4>1. CASE left = records
        BY <3>5, <3>8, <4>1
      <4>2. CASE left = disk[i]
        BY <1>0, <3>8, <4>2, ReadableFacts
      <4> QED
        BY <3>6, <3>8, <4>1, <4>2 DEF Readable
    <3>9. Covered(i)'
      BY <1>1, <2>1, <3>2, <3>7 DEF Covered, Readable, left
    <3>10. Kept(i)
      BY <3>8 DEF Kept, Readable, left
    <3> QED
      BY <3>9, <3>10
  <2> QED
    BY <2>2, <2>3, <2>4
<1>7. ASSUME UNCHANGED <<sc, disk>> PROVE Covered(i)' /\ Kept(i)
  BY <1>1, <1>7, CoveredKept
<1>8. \/ UNCHANGED <<sc, disk>>
      \/ DoneSentLast(t)
      \/ UNCHANGED disk /\ \E role \in {"user", "assistant"} : Append1(t, role)
  BY DEF StreamAction, StreamStart, LlmChunk, ChunkSent, LlmDone, SummaryDone, LlmFails,
         ErrorSent, SendFails, DoneSentMore, StreamCancelled
<1> QED
  BY <1>5, <1>6, <1>7, <1>8

\* After a restart nothing is registered, and the files are as they were.
LEMMA RestartCovered ==
    ASSUME CoverInv, Restart PROVE \A id \in SessionIds : Covered(id)' /\ Kept(id)
<1> SUFFICES ASSUME NEW id \in SessionIds PROVE Covered(id)' /\ Kept(id)
  OBVIOUS
<1>1. sessions'[id] = None /\ UNCHANGED disk
  BY DEF Restart
<1> QED
  BY <1>1, ReadableFacts DEF Covered, Kept, CoverInv, IInv

\* Unless removals fail, every step keeps the disk covered and the saved records.
LEMMA CoverStep ==
    ASSUME "delete" \notin Faults, CoverInv, [Next]_vars
    PROVE  CoverInv' /\ \A id \in SessionIds : Kept(id)
<1>1. IInv'
  BY StepInv DEF CoverInv
<1>2. ASSUME RouteStep \/ ConnectStep PROVE \A id \in SessionIds : Covered(id)' /\ Kept(id)
  BY <1>2, RoutesCovered
<1>3. ASSUME HandlerStep PROVE \A id \in SessionIds : Covered(id)' /\ Kept(id)
  BY <1>3, HandlerFrame, QuietCovered DEF CoverInv, IInv
<1>4. ASSUME NEW t \in Streams, StreamAction(t)
      PROVE  \A id \in SessionIds : Covered(id)' /\ Kept(id)
  BY <1>4, StreamsCovered
<1>5. ASSUME Restart PROVE \A id \in SessionIds : Covered(id)' /\ Kept(id)
  BY <1>5, RestartCovered
<1>6. ASSUME UNCHANGED vars PROVE \A id \in SessionIds : Covered(id)' /\ Kept(id)
  BY <1>6, QuietCovered DEF vars
<1>7. \A id \in SessionIds : Covered(id)' /\ Kept(id)
  BY <1>2, <1>3, <1>4, <1>5, <1>6 DEF Next, StreamStep, StreamAction
<1>8. MemoryCoversDisk'
  BY <1>7 DEF MemoryCoversDisk, Covered
<1> QED
  BY <1>1, <1>7, <1>8 DEF CoverInv

\* In a freshly started server nothing is registered.
LEMMA CoverInit == Init => CoverInv
BY InitInv DEF Init, CoverInv, MemoryCoversDisk

\* Outside a pending DELETE the registered session remembers everything its directory
\* holds, in the same order: no save can drop a saved record.  Assumes that directories
\* can be removed; saves and creations may fail.
THEOREM MemoryCoversDiskHolds ==
    ASSUME "delete" \notin Faults
    PROVE  Spec => []MemoryCoversDisk
<1>1. CoverInv /\ [Next]_vars => CoverInv'
  BY CoverStep
<1>2. CoverInv => MemoryCoversDisk
  BY DEF CoverInv
<1> QED
  BY <1>1, <1>2, CoverInit, PTL DEF Spec

\* Saved records of a session that nobody is deleting are never dropped, changed or
\* reordered: a step adds to them, or the directory as a whole is lost.  Assumes that
\* directories can be removed.
THEOREM SavedRecordsKeptHolds ==
    ASSUME "delete" \notin Faults
    PROVE  Spec => SavedRecordsKept
<1>1. CoverInv /\ [Next]_vars => CoverInv'
  BY CoverStep
<1>2. CoverInv /\ [Next]_vars =>
        \A id \in SessionIds :
            Readable(id) /\ Readable(id)' /\ ~DeletePending(id) => IsPrefix(disk[id], disk'[id])
  BY CoverStep DEF Kept
<1> QED
  BY <1>1, <1>2, CoverInit, PTL DEF Spec, SavedRecordsKept
=============================================================================
