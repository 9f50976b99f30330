------------------------- MODULE ChatSessionProofs -------------------------
(***************************************************************************)
(* For every value of the constants of ChatSession: its invariants, and    *)
(* that it implements SessionHistory.                                      *)
(***************************************************************************)
EXTENDS ChatSession, SequenceTheorems, FiniteSetTheorems, TLAPS

-----------------------------------------------------------------------------
(* Sequences of records                                                    *)

\* One record more
LEMMA AppendFacts ==
    ASSUME NEW recs \in Seq(Record), NEW r \in Record
    PROVE  /\ Append(recs, r) \in Seq(Record) /\ Append(recs, r) # <<>>
           /\ Len(Append(recs, r)) = Len(recs) + 1 /\ Len(recs) \in Nat
           /\ DOMAIN recs = 1..Len(recs)
           /\ DOMAIN Append(recs, r) = 1..(Len(recs) + 1)
           /\ \A i \in 1..Len(recs) : Append(recs, r)[i] = recs[i]
           /\ Append(recs, r)[Len(recs) + 1] = r
           /\ Last(Append(recs, r)) = r
<1>1. Len(recs) \in Nat /\ DOMAIN recs = 1..Len(recs)
  BY LenProperties
<1>2. /\ Append(recs, r) \in Seq(Record) /\ Len(Append(recs, r)) = Len(recs) + 1
      /\ \A i \in 1..Len(recs) : Append(recs, r)[i] = recs[i]
      /\ Append(recs, r)[Len(recs) + 1] = r
  BY AppendProperties
<1>3. DOMAIN Append(recs, r) = 1..(Len(recs) + 1)
  BY <1>2, LenProperties
<1>4. Append(recs, r) # <<>>
  BY <1>1, <1>2, EmptySeq
<1> QED BY <1>1, <1>2, <1>3, <1>4 DEF Last

\* The records after the first k
LEMMA SuffixFacts ==
    ASSUME NEW recs \in Seq(Record), NEW k \in 0..Len(recs)
    PROVE  LET suffix == SubSeq(recs, k + 1, Len(recs))
           IN  /\ suffix \in Seq(Record) /\ Len(suffix) = Len(recs) - k
               /\ \A i \in (k + 1)..Len(recs) : recs[i].id \in RecordIds(suffix)
<1> DEFINE suffix == SubSeq(recs, k + 1, Len(recs))
<1>1. Len(recs) \in Nat /\ \A i \in 1..Len(recs) : recs[i] \in Record
  BY LenProperties, ElementOfSeq
<1>2. k \in Nat /\ \A i \in (k + 1)..Len(recs) : recs[i] \in Record
  BY <1>1
<1>3. /\ suffix \in Seq(Record)
      /\ Len(suffix) = IF k + 1 <= Len(recs) THEN Len(recs) - (k + 1) + 1 ELSE 0
      /\ \A i \in 1..(Len(recs) - (k + 1) + 1) : suffix[i] = recs[k + 1 + i - 1]
  BY <1>1, <1>2, SubSeqProperties
<1>4. Len(suffix) = Len(recs) - k
  BY <1>1, <1>2, <1>3
<1>5. ASSUME NEW i \in (k + 1)..Len(recs) PROVE recs[i].id \in RecordIds(suffix)
  <2>1. i - k \in 1..Len(suffix) /\ suffix[i - k] = recs[i]
    BY <1>1, <1>2, <1>3, <1>4
  <2>2. DOMAIN suffix = 1..Len(suffix)
    BY <1>3, LenProperties
  <2> QED BY <2>1, <2>2 DEF RecordIds
<1> QED BY <1>3, <1>4, <1>5

LEMMA IndexOfFacts ==
    ASSUME NEW recs \in Seq(Record), NEW id
    PROVE  /\ IndexOf(recs, id) \in 0..Len(recs)
           /\ IndexOf(recs, id) = 0 => \A i \in DOMAIN recs : recs[i].id # id
           /\ IndexOf(recs, id) > 0 => recs[IndexOf(recs, id)].id = id
<1>1. Len(recs) \in Nat /\ DOMAIN recs = 1..Len(recs)
  BY LenProperties
<1> QED BY <1>1 DEF IndexOf

\* The position of an older record stays the same
LEMMA IndexOfAppend ==
    ASSUME NEW recs \in Seq(Record), NEW r \in Record, NEW id, r.id # id,
           NEW n \in Nat, InOrder(recs, n)
    PROVE  IndexOf(Append(recs, r), id) = IndexOf(recs, id)
<1> DEFINE more == Append(recs, r)
<1>1. /\ DOMAIN recs = 1..Len(recs) /\ DOMAIN more = 1..(Len(recs) + 1) /\ Len(recs) \in Nat
      /\ \A i \in 1..Len(recs) : more[i] = recs[i] /\ more[Len(recs) + 1] = r
  BY AppendFacts
<1>2. \A i : i \in DOMAIN more /\ more[i].id = id <=> i \in DOMAIN recs /\ recs[i].id = id
  BY <1>1
<1> HIDE DEF more
<1>3. (\E i \in DOMAIN more : more[i].id = id) <=> (\E i \in DOMAIN recs : recs[i].id = id)
  BY <1>2
<1>4. (CHOOSE i \in DOMAIN more : more[i].id = id) = (CHOOSE i \in DOMAIN recs : recs[i].id = id)
  BY <1>2
<1>5. IndexOf(more, id) = IndexOf(recs, id)
  BY <1>3, <1>4 DEF IndexOf
<1> QED BY <1>5 DEF more

\* No record has the id None
LEMMA NoneNotFound ==
    ASSUME NEW recs \in Seq(Record) PROVE IndexOf(recs, None) = 0
<1>1. \A i \in DOMAIN recs : recs[i].id \in Nat
  <2>1. \A i \in 1..Len(recs) : recs[i] \in Record
    BY ElementOfSeq
  <2> QED BY <2>1, LenProperties DEF Record, Ids
<1>2. None \notin Nat
  BY DistinctAssumption
<1> QED BY <1>1, <1>2 DEF IndexOf

\* In a prefix that holds it, a record has the same position, as ids do not repeat
LEMMA IndexOfPrefix ==
    ASSUME NEW recs \in Seq(Record), NEW old \in Seq(Record), NEW n \in Nat, InOrder(recs, n),
           Len(old) <= Len(recs), \A i \in DOMAIN old : old[i] = recs[i],
           NEW id \in RecordIds(old)
    PROVE  IndexOf(old, id) = IndexOf(recs, id)
<1> DEFINE k == IndexOf(old, id)
           l == IndexOf(recs, id)
<1>1. /\ Len(old) \in Nat /\ DOMAIN old = 1..Len(old)
      /\ Len(recs) \in Nat /\ DOMAIN recs = 1..Len(recs)
  BY LenProperties
<1>2. \A i \in 1..Len(recs) : recs[i].id \in Nat
  <2>1. \A i \in 1..Len(recs) : recs[i] \in Record
    BY ElementOfSeq
  <2> QED BY <2>1 DEF Record, Ids
<1>3. k \in 1..Len(old) /\ old[k].id = id
  <2>1. \E i \in DOMAIN old : old[i].id = id
    BY DEF RecordIds
  <2> QED BY <1>1, <2>1, IndexOfFacts
<1>4. k \in 1..Len(recs) /\ recs[k].id = id
  BY <1>1, <1>3
<1>5. l \in 1..Len(recs) /\ recs[l].id = id
  BY <1>1, <1>4, IndexOfFacts
<1> HIDE DEF k, l
<1>6. recs[k].id = recs[l].id /\ recs[k].id \in Nat
  BY <1>2, <1>4, <1>5
<1>7. \A i, j \in 1..Len(recs) : i < j => recs[i].id < recs[j].id
  BY <1>1 DEF InOrder
<1>8. k = l
  <2>1. ~(k < l)
    BY <1>4, <1>5, <1>6, <1>7
  <2>2. ~(l < k)
    BY <1>4, <1>5, <1>6, <1>7
  <2> QED BY <1>1, <1>4, <1>5, <2>1, <2>2
<1> QED BY <1>8 DEF k, l

\* The last record is found at the end, as ids do not repeat
LEMMA IndexOfLast ==
    ASSUME NEW recs \in Seq(Record), recs # <<>>, NEW n \in Nat, InOrder(recs, n)
    PROVE  IndexOf(recs, Last(recs).id) = Len(recs)
<1> DEFINE k == IndexOf(recs, Last(recs).id)
<1>1. /\ Len(recs) \in Nat /\ Len(recs) # 0 /\ DOMAIN recs = 1..Len(recs)
      /\ \A i \in 1..Len(recs) : recs[i].id \in Nat
  <2>1. Len(recs) \in Nat /\ Len(recs) # 0 /\ DOMAIN recs = 1..Len(recs)
    BY LenProperties, EmptySeq
  <2>2. \A i \in 1..Len(recs) : recs[i] \in Record
    BY ElementOfSeq
  <2> QED BY <2>1, <2>2 DEF Record, Ids
<1>2. Last(recs) = recs[Len(recs)]
  BY DEF Last
<1>3. k \in 0..Len(recs) /\ k # 0 /\ recs[k].id = recs[Len(recs)].id
  BY <1>1, <1>2, IndexOfFacts
<1> QED BY <1>1, <1>3 DEF InOrder

LEMMA InOrderAppend ==
    ASSUME NEW recs \in Seq(Record), NEW r \in Record, NEW n \in Nat,
           InOrder(recs, n), r.id = n + 1
    PROVE  InOrder(Append(recs, r), n + 1)
<1> DEFINE more == Append(recs, r)
<1>1. /\ DOMAIN recs = 1..Len(recs) /\ DOMAIN more = 1..(Len(recs) + 1) /\ Len(recs) \in Nat
      /\ \A i \in 1..Len(recs) : more[i] = recs[i] /\ more[Len(recs) + 1] = r
  BY AppendFacts
<1>2. \A i \in 1..Len(recs) : recs[i].id \in Nat
  <2>1. \A i \in 1..Len(recs) : recs[i] \in Record
    BY ElementOfSeq
  <2> QED BY <2>1 DEF Record, Ids
<1>3. ASSUME NEW i \in DOMAIN more
      PROVE  more[i].id <= n + 1 /\ \A j \in 1..(i - 1) : more[j].id < more[i].id
  <2>1. CASE i \in 1..Len(recs)
    BY <1>1, <1>2, <2>1 DEF InOrder
  <2>2. CASE i = Len(recs) + 1
    BY <1>1, <1>2, <2>2 DEF InOrder
  <2> QED BY <1>1, <2>1, <2>2
<1> QED BY <1>3 DEF InOrder

\* A later bound is as good
LEMMA InOrderLater ==
    ASSUME NEW recs \in Seq(Record), NEW n \in Nat, InOrder(recs, n)
    PROVE  InOrder(recs, n + 1)
<1>1. \A i \in DOMAIN recs : recs[i].id \in Nat
  <2>1. \A i \in 1..Len(recs) : recs[i] \in Record
    BY ElementOfSeq
  <2> QED BY <2>1, LenProperties DEF Record, Ids
<1> QED BY <1>1 DEF InOrder

\* An older record's coverage is not touched by a new one
LEMMA CoversAppend ==
    ASSUME NEW recs \in Seq(Record), NEW r \in Record, NEW sum, Covers(sum, recs),
           r.id # sum.anchor
    PROVE  Covers(sum, Append(recs, r))
<1>1. /\ DOMAIN recs = 1..Len(recs) /\ DOMAIN Append(recs, r) = 1..(Len(recs) + 1)
      /\ Len(recs) \in Nat
      /\ \A i \in 1..Len(recs) : Append(recs, r)[i] = recs[i]
      /\ Append(recs, r)[Len(recs) + 1] = r
  BY AppendFacts
<1> QED BY <1>1 DEF Covers

LEMMA CoversPrefix ==
    ASSUME NEW recs \in Seq(Record), NEW old \in Seq(Record), NEW sum, Covers(sum, recs),
           Len(old) <= Len(recs), \A i \in DOMAIN old : old[i] = recs[i]
    PROVE  Covers(sum, old)
<1>1. /\ DOMAIN recs = 1..Len(recs) /\ DOMAIN old = 1..Len(old)
      /\ Len(recs) \in Nat /\ Len(old) \in Nat
  BY LenProperties
<1>2. ASSUME NEW i \in DOMAIN old, old[i].id = sum.anchor, NEW j \in 1..i
      PROVE  old[j].id \in sum.covers
  <2>1. i \in DOMAIN recs /\ j \in DOMAIN old /\ recs[i] = old[i] /\ recs[j] = old[j]
    BY <1>1
  <2> QED BY <1>2, <2>1 DEF Covers
<1> QED BY <1>2 DEF Covers

-----------------------------------------------------------------------------
(* Counting answers                                                        *)

AnswerIndexes(recs) == {i \in DOMAIN recs : recs[i].role = "assistant"}

LEMMA AnswersType ==
    ASSUME NEW recs \in Seq(Record)
    PROVE  IsFiniteSet(AnswerIndexes(recs)) /\ Answers(recs) \in Nat
<1>1. Len(recs) \in Nat /\ DOMAIN recs = 1..Len(recs)
  BY LenProperties
<1>2. IsFiniteSet(1..Len(recs))
  BY <1>1, FS_Interval
<1>3. AnswerIndexes(recs) \in SUBSET (1..Len(recs))
  BY <1>1 DEF AnswerIndexes
<1>4. IsFiniteSet(AnswerIndexes(recs))
  BY <1>2, <1>3, FS_Subset
<1> QED BY <1>4, FS_CardinalityType DEF Answers, AnswerIndexes

LEMMA AnswersAppend ==
    ASSUME NEW recs \in Seq(Record), NEW r \in Record
    PROVE  Answers(Append(recs, r)) =
               IF r.role = "assistant" THEN Answers(recs) + 1 ELSE Answers(recs)
<1> DEFINE more == Append(recs, r)
           k == Len(recs) + 1
<1>1. /\ DOMAIN recs = 1..Len(recs) /\ DOMAIN more = 1..k /\ Len(recs) \in Nat
      /\ \A i \in 1..Len(recs) : more[i] = recs[i] /\ more[k] = r
  BY AppendFacts
<1>2. CASE r.role = "assistant"
  <2>1. AnswerIndexes(more) = AnswerIndexes(recs) \cup {k} /\ k \notin AnswerIndexes(recs)
    BY <1>1, <1>2 DEF AnswerIndexes
  <2>2. Cardinality(AnswerIndexes(more)) = Cardinality(AnswerIndexes(recs)) + 1
    BY <2>1, AnswersType, FS_AddElement
  <2> QED BY <1>2, <2>2 DEF Answers, AnswerIndexes
<1>3. CASE r.role # "assistant"
  <2>1. AnswerIndexes(more) = AnswerIndexes(recs)
    BY <1>1, <1>3 DEF AnswerIndexes
  <2> QED BY <1>3, <2>1 DEF Answers, AnswerIndexes
<1> QED BY <1>2, <1>3

LEMMA AnswersPrefix ==
    ASSUME NEW recs \in Seq(Record), NEW old \in Seq(Record),
           Len(old) <= Len(recs), \A i \in DOMAIN old : old[i] = recs[i]
    PROVE  Answers(old) <= Answers(recs)
<1>1. /\ DOMAIN recs = 1..Len(recs) /\ DOMAIN old = 1..Len(old)
      /\ Len(recs) \in Nat /\ Len(old) \in Nat
  BY LenProperties
<1>2. AnswerIndexes(old) \in SUBSET AnswerIndexes(recs)
  BY <1>1 DEF AnswerIndexes
<1>3. Cardinality(AnswerIndexes(old)) <= Cardinality(AnswerIndexes(recs))
  BY <1>2, AnswersType, FS_Subset
<1> QED BY <1>3 DEF Answers, AnswerIndexes

LEMMA AnswersEmpty == <<>> \in Seq(Record) /\ Answers(<<>>) = 0
<1>1. <<>> \in Seq(Record) /\ DOMAIN <<>> = {}
  BY EmptySeq
<1>2. {i \in DOMAIN <<>> : <<>>[i].role = "assistant"} = {}
  BY <1>1
<1> QED BY <1>1, <1>2, FS_EmptySet DEF Answers

-----------------------------------------------------------------------------
(* Types                                                                   *)

LEMMA Constants ==
    /\ NoUsage \in Usage /\ NoSummary \in SummaryType /\ NoContext \in ContextType
    /\ WindowSize \in Nat /\ WindowSize > 0 /\ MaxRecords \in Nat
    /\ NoSummary.anchor = None /\ NoUsage[ChatModel] = 0
<1>1. <<>> \in Seq(Record)
  BY EmptySeq
<1> QED BY <1>1, WindowAssumption
        DEF NoUsage, Usage, NoSummary, SummaryType, NoContext, ContextType, Models

\* What a load finds
LEMMA DiskFacts ==
    ASSUME TypeOK
    PROVE  /\ files.dir \in BOOLEAN
           /\ files.info \in InfoType \cup {Missing, Torn}
           /\ files.messages \in Seq(Record) \cup {Missing, Torn}
           /\ Loadable => files.info \in InfoType /\ files.messages \in Seq(Record)
           /\ files.info \in InfoType /\ files.messages \in Seq(Record) => Loadable
BY DistinctAssumption DEF TypeOK, FilesType, Loadable

LEMMA NewRecordFacts ==
    ASSUME TypeOK, issued < MaxRecords, NEW role \in {"user", "assistant"}
    PROVE  /\ NewRecord(role) \in Record /\ NewRecord(role).id = issued + 1
           /\ NewRecord(role).role = role
           /\ issued \in Nat /\ issued + 1 \in 0..MaxRecords
BY Constants DEF TypeOK, NewRecord, Record, Ids

LEMMA LastRecordsFacts ==
    ASSUME NEW recs \in Seq(Record)
    PROVE  LastRecords(recs) \in Seq(Record) /\ Len(LastRecords(recs)) <= WindowSize
<1> DEFINE k == IF Len(recs) > WindowSize THEN Len(recs) - WindowSize ELSE 0
<1>1. k \in 0..Len(recs) /\ Len(recs) \in Nat /\ Len(recs) - k <= WindowSize
  BY Constants, LenProperties
<1>2. LastRecords(recs) = SubSeq(recs, k + 1, Len(recs))
  <2>1. CASE Len(recs) > WindowSize
    BY <2>1 DEF LastRecords
  <2>2. CASE ~(Len(recs) > WindowSize)
    BY <2>2 DEF LastRecords
  <2> QED BY <2>1, <2>2
<1> HIDE DEF k
<1>3. SubSeq(recs, k + 1, Len(recs)) \in Seq(Record) /\ Len(SubSeq(recs, k + 1, Len(recs))) = Len(recs) - k
  BY <1>1, SuffixFacts
<1> QED BY <1>1, <1>2, <1>3

\* The context of the records and a new one
LEMMA GetContextFacts ==
    ASSUME TypeOK, strategy \in Strategies, NEW r \in Record
    PROVE  /\ GetContext(Append(records, r)) \in ContextType
           /\ strategy = "sliding_window" =>
                Len(GetContext(Append(records, r)).records) <= WindowSize
           /\ strategy = "summary" =>
                Len(GetContext(Append(records, r)).records) =
                    Waiting(records, summary.anchor) + 1
<1> DEFINE more == Append(records, r)
<1>1. more \in Seq(Record) /\ records \in Seq(Record) /\ summary \in SummaryType
  BY AppendFacts DEF TypeOK
<1>2. AnchorIndex \in 0..Len(more)
  <2>1. AnchorIndex \in 0..Len(records)
    BY <1>1, IndexOfFacts DEF AnchorIndex
  <2> QED BY <1>1, <2>1, AppendFacts
<1>3. /\ AfterAnchor(more) \in Seq(Record)
      /\ Len(AfterAnchor(more)) = Waiting(records, summary.anchor) + 1
  <2>1. AfterAnchor(more) \in Seq(Record) /\ Len(AfterAnchor(more)) = Len(more) - AnchorIndex
    BY <1>1, <1>2, SuffixFacts DEF AfterAnchor
  <2>2. Len(more) = Len(records) + 1 /\ Len(records) \in Nat /\ AnchorIndex \in 0..Len(records)
    BY <1>1, AppendFacts, IndexOfFacts DEF AnchorIndex
  <2>3. Len(more) - AnchorIndex = (Len(records) - AnchorIndex) + 1
    BY <2>2
  <2> QED BY <2>1, <2>3 DEF Waiting, AnchorIndex
<1>4. LastRecords(more) \in Seq(Record) /\ Len(LastRecords(more)) <= WindowSize
  BY <1>1, LastRecordsFacts
<1> HIDE DEF more
<1>5. strategy \in {"dummy", "sliding_window", "summary"}
  BY StrategiesAssumption
<1> DEFINE c == GetContext(more)
           goal == /\ c \in ContextType
                   /\ strategy = "sliding_window" => Len(c.records) <= WindowSize
                   /\ strategy = "summary" =>
                        Len(c.records) = Waiting(records, summary.anchor) + 1
<1>6. ASSUME strategy = "dummy" PROVE goal
  <2>1. c = [summary |-> FALSE, records |-> more]
    BY <1>6 DEF GetContext
  <2> QED BY <1>1, <1>6, <2>1 DEF ContextType
<1>7. ASSUME strategy = "sliding_window" PROVE goal
  <2>1. c = [summary |-> FALSE, records |-> LastRecords(more)]
    BY <1>7 DEF GetContext
  <2> QED BY <1>4, <1>7, <2>1 DEF ContextType
<1>8. ASSUME strategy = "summary" PROVE goal
  <2>1. c = [summary |-> summary.covers # {}, records |-> AfterAnchor(more)]
    BY <1>8 DEF GetContext
  <2> QED BY <1>3, <1>8, <2>1 DEF ContextType
<1>9. goal
  BY <1>5, <1>6, <1>7, <1>8
<1> QED BY <1>9 DEF more

-----------------------------------------------------------------------------
(* The inductive invariant                                                 *)

LEMMA InitIInv == Init => IInv
<1> SUFFICES ASSUME Init PROVE IInv
  OBVIOUS
<1> USE DEF Init
<1>1. <<>> \in Seq(Record) /\ DOMAIN <<>> = {} /\ Answers(<<>>) = 0
  BY EmptySeq, AnswersEmpty
<1>2. Missing \notin InfoType /\ Missing \notin Seq(Record)
  BY DistinctAssumption
<1>3. TypeOK
  BY <1>1, Constants DEF TypeOK, Pcs, FilesType
<1>4. Phases /\ MemoryExtendsDisk /\ ContextBounded /\ DoneReportsTurn
  BY DEF Phases, MemoryExtendsDisk, ContextBounded, DoneReportsTurn
<1>5. IdsInOrder
  BY <1>1, <1>2, Constants DEF IdsInOrder, InOrder
<1>6. AnswersCounted /\ WaitingBounded
  BY <1>1, Constants DEF AnswersCounted, WaitingBounded, Loadable
<1> QED BY <1>3, <1>4, <1>5, <1>6 DEF IInv

\* A new record waits for a summary
LEMMA WaitingAppend ==
    ASSUME TypeOK, IdsInOrder, NEW r \in Record, r.id = issued + 1
    PROVE  /\ Waiting(Append(records, r), summary.anchor) = Waiting(records, summary.anchor) + 1
           /\ Waiting(records, summary.anchor) \in Nat
           /\ IndexOf(Append(records, r), summary.anchor) = AnchorIndex
<1> DEFINE k == IndexOf(records, summary.anchor)
<1>1. /\ records \in Seq(Record) /\ issued \in Nat
      /\ summary \in SummaryType
  BY Constants DEF TypeOK
<1>2. r.id # summary.anchor
  BY <1>1, DistinctAssumption DEF IdsInOrder
<1>3. IndexOf(Append(records, r), summary.anchor) = k
  BY <1>1, <1>2, IndexOfAppend DEF IdsInOrder
<1>4. Len(Append(records, r)) = Len(records) + 1 /\ Len(records) \in Nat /\ k \in 0..Len(records)
  BY <1>1, AppendFacts, IndexOfFacts
<1>5. k = AnchorIndex
  BY DEF AnchorIndex
<1> HIDE DEF k
<1>6. (Len(records) + 1) - k = (Len(records) - k) + 1 /\ Len(records) - k \in Nat
  BY <1>4
<1> QED BY <1>3, <1>4, <1>5, <1>6 DEF Waiting, k

LEMMA AskStep == IInv /\ Ask => IInv'
<1> SUFFICES ASSUME IInv, Ask PROVE IInv'
  OBVIOUS
<1> USE DEF Ask
<1> DEFINE r == NewRecord("user")
<1>1. /\ TypeOK /\ Phases /\ IdsInOrder /\ MemoryExtendsDisk /\ AnswersCounted
      /\ WaitingBounded /\ records \in Seq(Record) /\ issued \in Nat
  BY Constants DEF IInv, TypeOK
<1>2. r \in Record /\ r.id = issued + 1 /\ r.role = "user" /\ issued' \in 0..MaxRecords
  BY <1>1, NewRecordFacts
<1> HIDE DEF r
<1>3. records' = Append(records, r)
  BY DEF r
<1>4. /\ records' \in Seq(Record) /\ records' # <<>> /\ Last(records') = r
      /\ Len(records') = Len(records) + 1 /\ Len(records) \in Nat
      /\ \A i \in 1..Len(records) : records'[i] = records[i]
  BY <1>1, <1>2, <1>3, AppendFacts
<1>5. strategy \in Strategies /\ files.dir
  BY <1>1 DEF Phases
<1>6. /\ context' \in ContextType
      /\ strategy = "sliding_window" => Len(context'.records) <= WindowSize
      /\ strategy = "summary" => Len(context'.records) = Waiting(records, summary.anchor) + 1
  BY <1>1, <1>2, <1>3, <1>5, GetContextFacts
<1>7. TypeOK'
  BY <1>1, <1>2, <1>4, <1>6, Constants DEF TypeOK, Pcs
<1>8. Phases'
  BY <1>1, <1>2, <1>4 DEF Phases
<1>9. IdsInOrder'
  <2>1. InOrder(records', issued')
    BY <1>1, <1>2, <1>3, InOrderAppend DEF IdsInOrder
  <2>2. files.messages \in Seq(Record) => InOrder(files.messages, issued')
    BY <1>1, InOrderLater DEF IdsInOrder
  <2>3. summary.anchor # None => summary.anchor <= issued'
    BY <1>1 DEF IdsInOrder, TypeOK, SummaryType, Ids
  <2>4. files.info \in InfoType /\ files.info.summary.anchor # None =>
          files.info.summary.anchor <= issued'
    BY <1>1 DEF IdsInOrder, InfoType, SummaryType, Ids
  <2> QED BY <2>1, <2>2, <2>3, <2>4 DEF IdsInOrder
<1>10. MemoryExtendsDisk'
  <2>1. files.messages \in Seq(Record) =>
            Len(files.messages) \in Nat /\ DOMAIN files.messages = 1..Len(files.messages)
    BY LenProperties
  <2> QED BY <1>1, <1>4, <2>1 DEF MemoryExtendsDisk
<1>11. ContextBounded' /\ WaitingBounded'
  <2>1. Waiting(records', summary.anchor) = Waiting(records, summary.anchor) + 1
        /\ Waiting(records, summary.anchor) \in Nat
    BY <1>1, <1>2, <1>3, WaitingAppend
  <2>2. strategy = "summary" => Waiting(records, summary.anchor) < WindowSize + overdue
    BY <1>1 DEF WaitingBounded
  <2>3. overdue \in Nat
    BY <1>1 DEF TypeOK
  <2>4. strategy = "summary" => Waiting(records, summary.anchor) + 1 <= WindowSize + overdue
    BY <2>1, <2>2, <2>3, Constants
  <2>5. ContextBounded'
    BY <1>6, <2>4 DEF ContextBounded
  <2>6. WaitingBounded'
    BY <1>1, <2>1, <2>4 DEF WaitingBounded, Loadable
  <2> QED BY <2>5, <2>6
<1>12. AnswersCounted'
  <2>1. Answers(records') = Answers(records)
    BY <1>1, <1>2, <1>3, AnswersAppend
  <2> QED BY <1>1, <2>1 DEF AnswersCounted, Loadable
<1>13. DoneReportsTurn'
  BY DEF DoneReportsTurn
<1> QED BY <1>7, <1>8, <1>9, <1>10, <1>11, <1>12, <1>13 DEF IInv

\* An answer and its statistics
LEMMA AddStatsFacts ==
    ASSUME TypeOK, NEW model \in Models, AddStats(model)
    PROVE  /\ total' \in Usage /\ current' \in Usage
           /\ \A m \in Models : total'[m] = IF m = model THEN total[m] + 1 ELSE total[m]
           /\ \A m \in Models : total[m] \in Nat
           /\ current' = [current EXCEPT ![model] = @ + 1]
BY DEF TypeOK, AddStats, Usage

LEMMA AnswerStep == IInv /\ Answer => IInv'
<1> SUFFICES ASSUME IInv, Answer PROVE IInv'
  OBVIOUS
<1> USE DEF Answer
<1> DEFINE r == NewRecord("assistant")
<1>1. /\ TypeOK /\ Phases /\ IdsInOrder /\ MemoryExtendsDisk /\ AnswersCounted
      /\ WaitingBounded /\ overdue \in Nat /\ records \in Seq(Record) /\ issued \in Nat /\ summary \in SummaryType
  BY Constants DEF IInv, TypeOK
<1>2. r \in Record /\ r.id = issued + 1 /\ r.role = "assistant" /\ issued' \in 0..MaxRecords
  BY <1>1, NewRecordFacts
<1> HIDE DEF r
<1>3. records' = Append(records, r)
  BY DEF r
<1>4. /\ records' \in Seq(Record) /\ records' # <<>> /\ Last(records') = r
      /\ Len(records') = Len(records) + 1 /\ Len(records) \in Nat
      /\ \A i \in 1..Len(records) : records'[i] = records[i]
  BY <1>1, <1>2, <1>3, AppendFacts
<1>5. ChatModel \in Models /\ SummaryModel \in Models
  BY DEF Models
<1>6. /\ total' \in Usage /\ current' \in Usage
      /\ total'[ChatModel] = total[ChatModel] + 1 /\ total[ChatModel] \in Nat
      /\ current' = [NoUsage EXCEPT ![ChatModel] = 1]
  <2>1. current = NoUsage
    BY <1>1 DEF Phases
  <2>2. current' = [NoUsage EXCEPT ![ChatModel] = NoUsage[ChatModel] + 1]
    BY <1>1, <1>5, <2>1, AddStatsFacts
  <2>3. NoUsage[ChatModel] + 1 = 1
    BY Constants
  <2> QED BY <1>1, <1>5, <2>2, <2>3, AddStatsFacts
<1>7. r.id # summary.anchor
  BY <1>1, <1>2, DistinctAssumption DEF IdsInOrder
<1>8. TypeOK'
  BY <1>1, <1>2, <1>4, <1>6 DEF TypeOK, Pcs
<1>9. Phases'
  BY <1>1, <1>2, <1>4, <1>6, <1>7 DEF Phases
<1>10. IdsInOrder'
  <2>1. InOrder(records', issued')
    BY <1>1, <1>2, <1>3, InOrderAppend DEF IdsInOrder
  <2>2. files.messages \in Seq(Record) => InOrder(files.messages, issued')
    BY <1>1, InOrderLater DEF IdsInOrder
  <2>3. summary.anchor # None => summary.anchor <= issued'
    BY <1>1 DEF IdsInOrder, TypeOK, SummaryType, Ids
  <2>4. files.info \in InfoType /\ files.info.summary.anchor # None =>
          files.info.summary.anchor <= issued'
    BY <1>1 DEF IdsInOrder, InfoType, SummaryType, Ids
  <2> QED BY <2>1, <2>2, <2>3, <2>4 DEF IdsInOrder
<1>11. MemoryExtendsDisk'
  <2>1. files.messages \in Seq(Record) =>
            Len(files.messages) \in Nat /\ DOMAIN files.messages = 1..Len(files.messages)
    BY LenProperties
  <2> QED BY <1>1, <1>4, <2>1 DEF MemoryExtendsDisk
<1>12. ContextBounded'
  <2> SUFFICES ASSUME pc' = "done", strategy = "summary"
               PROVE  Len(AfterAnchor(records)') < WindowSize
    BY DEF ContextBounded
  <2>1. IndexOf(records', summary.anchor) = AnchorIndex
    BY <1>1, <1>2, <1>3, WaitingAppend
  <2>2. AfterAnchor(records)' = AfterAnchor(records')
    BY <2>1 DEF AfterAnchor, AnchorIndex
  <2>3. ~(Len(AfterAnchor(records')) >= WindowSize)
    BY DEF Summarises
  <2>4. AnchorIndex \in 0..Len(records')
    BY <1>4, <2>1, IndexOfFacts
  <2>5. Len(AfterAnchor(records')) \in Nat
    BY <1>4, <2>4, SuffixFacts, LenProperties DEF AfterAnchor
  <2> QED BY <2>2, <2>3, <2>5, Constants
<1>13. AnswersCounted'
  <2>1. Answers(records') = Answers(records) + 1 /\ Answers(records) \in Nat
    BY <1>1, <1>2, <1>3, AnswersAppend, AnswersType
  <2>2. ASSUME Loadable PROVE Answers(files.messages) <= files.info.total[ChatModel]
    BY <1>1, <2>2 DEF AnswersCounted
  <2> QED BY <1>1, <1>6, <2>1, <2>2 DEF AnswersCounted, Loadable
<1>14. DoneReportsTurn'
  <2> SUFFICES ASSUME pc' = "done" PROVE DoneReportsTurn'
    BY DEF DoneReportsTurn
  <2>1. summary'.anchor # Last(records').id
    BY <1>4, <1>7
  <2>2. /\ current'[ChatModel] = 1
        /\ ChatModel # SummaryModel => current'[SummaryModel] = 0
    BY <1>5, <1>6 DEF NoUsage
  <2> QED BY <2>1, <2>2 DEF DoneReportsTurn
<1>15. WaitingBounded'
  <2>1. Waiting(records', summary.anchor) = Waiting(records, summary.anchor) + 1
        /\ Waiting(records, summary.anchor) \in Nat
    BY <1>1, <1>2, <1>3, WaitingAppend
  <2>2. strategy = "summary" => Waiting(records, summary.anchor) <= WindowSize + overdue
    BY <1>1 DEF WaitingBounded
  <2>3. pc' = "summary" /\ strategy = "summary" =>
            Waiting(records', summary.anchor) <= WindowSize + overdue' + 1
    BY <1>1, <2>1, <2>2, Constants
  <2> QED BY <1>1, <2>3 DEF WaitingBounded, Loadable
<1> QED BY <1>8, <1>9, <1>10, <1>11, <1>12, <1>13, <1>14, <1>15 DEF IInv

LEMMA SummariseStep == IInv /\ Summarise => IInv'
<1> SUFFICES ASSUME IInv, Summarise PROVE IInv'
  OBVIOUS
<1> USE DEF Summarise
<1>1. /\ TypeOK /\ Phases /\ IdsInOrder /\ MemoryExtendsDisk /\ AnswersCounted
      /\ records \in Seq(Record) /\ issued \in Nat /\ summary \in SummaryType
      /\ records # <<>> /\ Last(records).role = "assistant"
      /\ current = [NoUsage EXCEPT ![ChatModel] = 1]
  BY Constants DEF IInv, TypeOK, Phases
<1>2. /\ Len(records) \in Nat /\ Len(records) # 0 /\ DOMAIN records = 1..Len(records)
      /\ \A i \in 1..Len(records) : records[i] \in Record
  BY <1>1, LenProperties, EmptySeq, ElementOfSeq
<1>3. Last(records).id \in Ids /\ Last(records).id <= issued
  BY <1>1, <1>2 DEF Last, Record, IdsInOrder, InOrder
<1>4. RecordIds(AfterAnchor(records)) \subseteq Ids
  <2>1. AfterAnchor(records) \in Seq(Record)
    BY <1>1, IndexOfFacts, SuffixFacts DEF AfterAnchor, AnchorIndex
  <2>2. \A i \in DOMAIN AfterAnchor(records) : AfterAnchor(records)[i] \in Record
    BY <2>1, LenProperties, ElementOfSeq
  <2> QED BY <2>2 DEF RecordIds, Record
<1>5. summary' \in SummaryType /\ summary'.anchor = Last(records).id
  BY <1>1, <1>3, <1>4 DEF SummaryType
<1>6. ChatModel \in Models /\ SummaryModel \in Models
  BY DEF Models
<1>7. /\ total' \in Usage /\ current' \in Usage
      /\ total[ChatModel] \in Nat /\ total'[ChatModel] \in Nat
      /\ total[ChatModel] <= total'[ChatModel]
  BY <1>1, <1>6, AddStatsFacts
<1>8. TypeOK'
  BY <1>1, <1>5, <1>7 DEF TypeOK, Pcs
<1>9. Phases'
  BY <1>1 DEF Phases
<1>10. IdsInOrder'
  BY <1>1, <1>3, <1>5 DEF IdsInOrder
<1>11. MemoryExtendsDisk'
  BY <1>1 DEF MemoryExtendsDisk
<1>12. ContextBounded'
  <2>1. IndexOf(records, summary'.anchor) = Len(records)
    BY <1>1, <1>5, IndexOfLast DEF IdsInOrder
  <2>2. AfterAnchor(records)' = SubSeq(records, Len(records) + 1, Len(records))
    BY <2>1 DEF AfterAnchor, AnchorIndex
  <2>3. Len(SubSeq(records, Len(records) + 1, Len(records))) = 0
    BY <1>1, <1>2, SuffixFacts
  <2> QED BY <2>2, <2>3, Constants DEF ContextBounded
<1>13. AnswersCounted'
  <2>1. Answers(records) <= total[ChatModel] /\ Answers(records) \in Nat
    BY <1>1, AnswersType DEF AnswersCounted
  <2>2. Answers(records') <= total'[ChatModel]
    BY <1>7, <2>1
  <2> QED BY <1>1, <2>2 DEF AnswersCounted, Loadable
<1>14. DoneReportsTurn'
  <2>1. current' = [[NoUsage EXCEPT ![ChatModel] = 1] EXCEPT ![SummaryModel] = @ + 1]
    BY <1>1, <1>6, AddStatsFacts
  <2>2. /\ ChatModel = SummaryModel => current'[ChatModel] = 2
        /\ ChatModel # SummaryModel => current'[ChatModel] = 1 /\ current'[SummaryModel] = 1
    BY <1>6, <2>1 DEF NoUsage
  <2> QED BY <1>5, <2>2 DEF DoneReportsTurn
<1>15. WaitingBounded'
  BY DEF WaitingBounded, IInv, Loadable
<1> QED BY <1>8, <1>9, <1>10, <1>11, <1>12, <1>13, <1>14, <1>15 DEF IInv

LEMMA WaitingType ==
    ASSUME NEW recs \in Seq(Record), NEW id
    PROVE  Waiting(recs, id) \in Nat /\ Waiting(recs, id) <= Len(recs) /\ Len(recs) \in Nat
<1>1. IndexOf(recs, id) \in 0..Len(recs) /\ Len(recs) \in Nat
  BY IndexOfFacts, LenProperties
<1> QED BY <1>1 DEF Waiting

\* At the DoneFrame fewer than a window wait for a summary
LEMMA DoneWaiting ==
    ASSUME TypeOK, ContextBounded, pc = "done", strategy = "summary"
    PROVE  Waiting(records, summary.anchor) < WindowSize
<1>1. records \in Seq(Record)
  BY DEF TypeOK
<1>2. AnchorIndex \in 0..Len(records)
  BY <1>1, IndexOfFacts DEF AnchorIndex
<1>3. Len(AfterAnchor(records)) = Len(records) - AnchorIndex
  BY <1>1, <1>2, SuffixFacts DEF AfterAnchor
<1> QED BY <1>3 DEF ContextBounded, Waiting, AnchorIndex

\* Steps that only leave a turn, or do nothing
LEMMA TurnFailsStep == IInv /\ TurnFails => IInv'
<1> SUFFICES ASSUME IInv, TurnFails PROVE IInv'
  OBVIOUS
<1> USE DEF TurnFails, mem, IInv
<1>1. TypeOK'
  BY DEF TypeOK, Pcs
<1>2. Phases' /\ DoneReportsTurn' /\ ContextBounded'
  BY DEF Phases, DoneReportsTurn, ContextBounded
<1>3. IdsInOrder' /\ MemoryExtendsDisk' /\ AnswersCounted'
  BY DEF IdsInOrder, MemoryExtendsDisk, Phases, AnswersCounted, Loadable
<1>4. WaitingBounded'
  <2>1. strategy = "summary" => Waiting(records, summary.anchor) < WindowSize + overdue'
    <3>1. ASSUME strategy = "summary", pc = "done"
          PROVE  Waiting(records, summary.anchor) < WindowSize
      BY <3>1, DoneWaiting
    <3>2. Waiting(records, summary.anchor) \in Nat /\ overdue \in Nat
      BY WaitingType DEF TypeOK
    <3> QED BY <3>1, <3>2, Constants DEF WaitingBounded
  <2> QED BY <2>1 DEF WaitingBounded, Loadable
<1> QED BY <1>1, <1>2, <1>3, <1>4

LEMMA StutterStep == IInv /\ UNCHANGED vars => IInv'
<1> SUFFICES ASSUME IInv, UNCHANGED vars PROVE IInv'
  OBVIOUS
<1> USE DEF vars, mem, IInv
<1>1. TypeOK' /\ Phases' /\ DoneReportsTurn'
  BY DEF TypeOK, Phases, DoneReportsTurn
<1>2. ContextBounded'
  BY DEF ContextBounded, AfterAnchor, AnchorIndex
<1>3. IdsInOrder' /\ MemoryExtendsDisk' /\ AnswersCounted' /\ WaitingBounded'
  BY DEF IdsInOrder, MemoryExtendsDisk, AnswersCounted, WaitingBounded, Loadable
<1> QED BY <1>1, <1>2, <1>3

LEMMA SetStrategyStep == ASSUME NEW s \in Strategies PROVE IInv /\ SetStrategy(s) => IInv'
<1> SUFFICES ASSUME IInv, SetStrategy(s) PROVE IInv'
  OBVIOUS
<1> USE DEF SetStrategy, IInv
<1>1. TypeOK' /\ Len(records) \in Nat
  <2>1. Len(records) \in Nat
    BY LenProperties DEF TypeOK
  <2> QED BY <2>1, Constants DEF TypeOK
<1>2. Phases' /\ DoneReportsTurn' /\ ContextBounded'
  BY DEF Phases, DoneReportsTurn, ContextBounded
<1>3. IdsInOrder'
  BY Constants DEF IdsInOrder
<1>4. MemoryExtendsDisk' /\ AnswersCounted'
  BY DEF MemoryExtendsDisk, AnswersCounted, Loadable
<1>5. WaitingBounded'
  <2>1. Waiting(records, None) < WindowSize + Len(records)
    BY WaitingType, Constants DEF TypeOK
  <2> QED BY <2>1, Constants DEF WaitingBounded, Loadable
<1> QED BY <1>1, <1>2, <1>3, <1>4, <1>5

LEMMA StopStep == IInv /\ Stop => IInv'
<1> SUFFICES ASSUME IInv, Stop PROVE IInv'
  OBVIOUS
<1> USE DEF Stop, Forget, IInv
<1>1. <<>> \in Seq(Record) /\ DOMAIN <<>> = {} /\ Answers(<<>>) = 0
  BY EmptySeq, AnswersEmpty
<1>2. TypeOK'
  BY <1>1, Constants DEF TypeOK, Pcs
<1>3. Phases' /\ DoneReportsTurn' /\ ContextBounded'
  BY DEF Phases, DoneReportsTurn, ContextBounded
<1>4. IdsInOrder'
  BY <1>1, Constants DEF IdsInOrder, InOrder
<1>5. MemoryExtendsDisk'
  BY DEF MemoryExtendsDisk
<1>6. AnswersCounted' /\ WaitingBounded'
  BY <1>1, Constants DEF AnswersCounted, WaitingBounded, Loadable
<1> QED BY <1>2, <1>3, <1>4, <1>5, <1>6

LEMMA LoadStep == IInv /\ Load => IInv'
<1> SUFFICES ASSUME IInv, Load PROVE IInv'
  OBVIOUS
<1> USE DEF Load, IInv
<1>1. files.info \in InfoType /\ files.messages \in Seq(Record)
  BY DiskFacts
<1>2. TypeOK'
  <2>1. overdue' \in Nat
    BY <1>1, LenProperties
  <2> QED BY <1>1, <2>1, Constants DEF TypeOK, Pcs, InfoType
<1>3. files.dir
  BY <1>1, DistinctAssumption DEF MemoryExtendsDisk
<1>4. Phases'
  BY <1>1, <1>3 DEF Phases, InfoType
<1>5. DoneReportsTurn' /\ ContextBounded'
  BY DEF DoneReportsTurn, ContextBounded
<1>6. IdsInOrder'
  BY <1>1 DEF IdsInOrder
<1>7. MemoryExtendsDisk'
  <2>1. Len(files.messages) \in Nat
    BY <1>1, LenProperties
  <2> QED BY <1>3, <2>1 DEF MemoryExtendsDisk
<1>8. AnswersCounted'
  BY <1>1 DEF AnswersCounted, Loadable
<1>9. WaitingBounded'
  <2> DEFINE anchor == files.info.summary.anchor
  <2>1. Waiting(files.messages, anchor) \in Nat /\ Len(files.messages) \in Nat
        /\ Waiting(files.messages, anchor) <= Len(files.messages)
    BY <1>1, WaitingType
  <2>2. strategy' = "summary" => Waiting(files.messages, anchor) < WindowSize + overdue'
    <3>1. CASE Anchored(files.messages, anchor)
      <4>1. strategy' = "summary" => Waiting(files.messages, anchor) < WindowSize
        BY <3>1 DEF WaitingBounded
      <4>2. overdue' = 0
        BY <3>1
      <4> QED BY <2>1, <4>1, <4>2, Constants
    <3>2. CASE ~Anchored(files.messages, anchor)
      <4>1. overdue' = Len(files.messages)
        BY <3>2
      <4> QED BY <2>1, <4>1, Constants
    <3> QED BY <3>1, <3>2
  <2>3. WaitingBounded'
    BY <2>2 DEF WaitingBounded, Loadable
  <2> QED BY <2>3
<1> QED BY <1>2, <1>4, <1>5, <1>6, <1>7, <1>8, <1>9

LEMMA CreateStep == ASSUME NEW s \in Strategies PROVE IInv /\ Create(s) => IInv'
<1> SUFFICES ASSUME IInv, Create(s) PROVE IInv'
  OBVIOUS
<1> USE DEF Create, IInv
<1>1. <<>> \in Seq(Record) /\ DOMAIN <<>> = {} /\ Answers(<<>>) = 0
  BY EmptySeq, AnswersEmpty
<1>2. /\ files'.dir /\ files'.messages = <<>>
      /\ files'.info \in InfoType /\ files'.info.summary = NoSummary
      /\ files'.info.total = NoUsage /\ files' \in FilesType
  BY <1>1, Constants DEF InfoType, FilesType
<1>3. records = <<>>
  BY DEF Phases
<1>4. TypeOK'
  BY <1>2 DEF TypeOK, Pcs
<1>5. Phases'
  BY <1>2 DEF Phases
<1>6. DoneReportsTurn' /\ ContextBounded'
  BY DEF DoneReportsTurn, ContextBounded
<1>7. IdsInOrder'
  BY <1>1, <1>2, Constants DEF IdsInOrder, InOrder
<1>8. MemoryExtendsDisk'
  BY <1>1, <1>2, <1>3 DEF MemoryExtendsDisk
<1>9. AnswersCounted'
  BY <1>1, <1>2, <1>3, Constants DEF AnswersCounted, Loadable
<1>10. WaitingBounded'
  <2>1. Waiting(<<>>, summary.anchor) < WindowSize + overdue /\ Waiting(<<>>, None) < WindowSize
    <3>1. Len(<<>>) = 0 /\ overdue \in Nat
      BY DEF TypeOK
    <3>2. Waiting(<<>>, summary.anchor) <= 0 /\ Waiting(<<>>, None) <= 0
          /\ Waiting(<<>>, summary.anchor) \in Nat /\ Waiting(<<>>, None) \in Nat
      BY <1>1, <3>1, WaitingType
    <3> QED BY <3>1, <3>2, Constants
  <2> QED BY <1>2, <1>3, <2>1, Constants DEF WaitingBounded
<1> QED BY <1>4, <1>5, <1>6, <1>7, <1>8, <1>9, <1>10

LEMMA CreateFailsStep == ASSUME NEW s \in Strategies PROVE IInv /\ CreateFails(s) => IInv'
<1> SUFFICES ASSUME IInv, CreateFails(s) PROVE IInv'
  OBVIOUS
<1> USE DEF CreateFails, mem, IInv
<1> DEFINE info == [strategy |-> s, summary |-> NoSummary, total |-> NoUsage]
<1>1. info \in InfoType /\ info.summary.anchor = None
  BY Constants DEF InfoType
<1> HIDE DEF info
<1>2. PICK steps \in 0..3 :
        files' = [dir      |-> TRUE,
                  info     |-> Content(steps, 2, Missing, info),
                  messages |-> Content(steps, 4, Missing, <<>>)]
  BY DEF info
<1>3. files'.messages \in {Missing, Torn} /\ files'.info \in {Missing, Torn, info} /\ files'.dir
  BY <1>2 DEF Content
<1>4. files' \in FilesType
  BY <1>1, <1>2, <1>3 DEF FilesType
<1>5. files'.messages \notin Seq(Record)
  BY <1>3, DistinctAssumption
<1>6. TypeOK'
  BY <1>4 DEF TypeOK
<1>7. Phases' /\ DoneReportsTurn' /\ ContextBounded'
  BY DEF Phases, DoneReportsTurn, ContextBounded
<1>8. IdsInOrder'
  BY <1>1, <1>3, <1>5, DistinctAssumption DEF IdsInOrder
<1>9. MemoryExtendsDisk'
  BY <1>3, <1>5 DEF MemoryExtendsDisk
<1>10. AnswersCounted' /\ WaitingBounded'
  BY <1>3 DEF AnswersCounted, WaitingBounded, Loadable
<1> QED BY <1>6, <1>7, <1>8, <1>9, <1>10

\* The files after some steps of a save: each is the old one, torn, or the new one, and
\* the messages are only new when the info is
LEMMA WrittenFacts ==
    ASSUME TypeOK, strategy \in Strategies, NEW steps \in 0..4
    PROVE  LET new == [strategy |-> strategy, summary |-> summary, total |-> total]
               f   == Written(steps)
           IN  /\ f \in FilesType /\ f.dir /\ new \in InfoType
               /\ \/ f.info = files.info /\ f.messages = files.messages
                  \/ f.info = Torn /\ f.messages = files.messages
                  \/ f.info = new /\ f.messages \in {files.messages, Torn, records}
<1> DEFINE new == [strategy |-> strategy, summary |-> summary, total |-> total]
           f   == Written(steps)
<1>1. new \in InfoType
  BY DEF TypeOK, InfoType
<1>2. f = [dir      |-> TRUE,
           info     |-> Content(steps, 2, files.info, new),
           messages |-> Content(steps, 4, files.messages, records)]
  BY DEF Written
<1>3. /\ files.info \in InfoType \cup {Missing, Torn} /\ records \in Seq(Record)
      /\ files.messages \in Seq(Record) \cup {Missing, Torn}
  BY DiskFacts DEF TypeOK
<1> HIDE DEF new
<1>4. \/ f.info = files.info /\ f.messages = files.messages
      \/ f.info = Torn /\ f.messages = files.messages
      \/ f.info = new /\ f.messages \in {files.messages, Torn, records}
  BY <1>2 DEF Content
<1>5. f.dir /\ f \in FilesType
  <2>1. /\ Content(steps, 2, files.info, new) \in InfoType \cup {Missing, Torn}
        /\ Content(steps, 4, files.messages, records) \in Seq(Record) \cup {Missing, Torn}
    BY <1>1, <1>3 DEF Content
  <2> QED BY <1>2, <2>1 DEF FilesType
<1> QED BY <1>1, <1>4, <1>5 DEF new

\* A prefix that holds the anchor has no more records after it; without an anchor neither
LEMMA WaitingPrefix ==
    ASSUME NEW recs \in Seq(Record), NEW old \in Seq(Record), NEW n \in Nat, InOrder(recs, n),
           Len(old) <= Len(recs), \A i \in DOMAIN old : old[i] = recs[i],
           NEW id, Anchored(old, id)
    PROVE  Waiting(old, id) <= Waiting(recs, id)
<1>1. Len(old) \in Nat /\ Len(recs) \in Nat
  BY LenProperties
<1>2. IndexOf(old, id) \in 0..Len(old) /\ IndexOf(recs, id) \in 0..Len(recs)
  BY IndexOfFacts
<1>3. IndexOf(old, id) = IndexOf(recs, id)
  <2>1. CASE id \in RecordIds(old)
    BY <2>1, IndexOfPrefix
  <2>2. CASE id = None
    BY <2>2, NoneNotFound
  <2> QED BY <2>1, <2>2 DEF Anchored
<1> QED BY <1>1, <1>2, <1>3 DEF Waiting

LEMMA WriteStep ==
    ASSUME IInv, pc = "done", pc' = "idle", UNCHANGED <<mem, overdue, issued>>,
           NEW steps \in 0..4, files' = Written(steps)
    PROVE  IInv'
<1> USE DEF IInv, mem
<1> DEFINE new == [strategy |-> strategy, summary |-> summary, total |-> total]
<1>1. /\ strategy \in Strategies /\ files.dir /\ records \in Seq(Record)
      /\ summary \in SummaryType
  BY DEF Phases, TypeOK
<1>2. /\ files' \in FilesType /\ files'.dir /\ new \in InfoType
      /\ \/ files'.info = files.info /\ files'.messages = files.messages
         \/ files'.info = Torn /\ files'.messages = files.messages
         \/ files'.info = new /\ files'.messages \in {files.messages, Torn, records}
  BY <1>1, WrittenFacts
<1>3. new.summary = summary /\ new.total = total /\ new.strategy = strategy
  OBVIOUS
<1> HIDE DEF new
<1>4. TypeOK'
  BY <1>2 DEF TypeOK, Pcs
<1>5. Phases' /\ DoneReportsTurn' /\ ContextBounded'
  BY <1>2 DEF Phases, DoneReportsTurn, ContextBounded
<1>6. Torn \notin InfoType /\ Torn \notin Seq(Record) /\ Missing \notin Seq(Record)
  BY DistinctAssumption
<1>7. IdsInOrder'
  BY <1>1, <1>2, <1>3, <1>6 DEF IdsInOrder
<1>8. MemoryExtendsDisk'
  <2> SUFFICES ASSUME files'.messages \in Seq(Record)
               PROVE  /\ Len(files'.messages) <= Len(records)
                      /\ \A i \in DOMAIN files'.messages : files'.messages[i] = records[i]
    BY <1>2 DEF MemoryExtendsDisk
  <2>1. CASE files'.messages = files.messages
    BY <2>1 DEF MemoryExtendsDisk
  <2>2. CASE files'.messages = records
    BY <1>1, <2>2, LenProperties
  <2> QED BY <1>2, <1>6, <2>1, <2>2
<1>9. AnswersCounted'
  <2>1. Answers(records) <= total[ChatModel] /\ Answers(records) \in Nat /\ total[ChatModel] \in Nat
    BY <1>1, AnswersType DEF AnswersCounted, TypeOK, Usage, Models
  <2> SUFFICES ASSUME Loadable'
               PROVE  Answers(files'.messages) <= files'.info.total[ChatModel]
    BY <2>1 DEF AnswersCounted
  <2>2. files'.info # Torn /\ files'.messages \notin {Missing, Torn} /\ files'.info # Missing
    BY DEF Loadable
  <2>3. CASE files'.info = files.info /\ files'.messages = files.messages
    BY <2>2, <2>3 DEF AnswersCounted, Loadable
  <2>4. CASE files'.info = new /\ files'.messages = records
    BY <1>3, <2>1, <2>4
  <2>5. CASE files'.info = new /\ files'.messages = files.messages
    <3>1. files.messages \in Seq(Record)
      BY <2>2, <2>5, DiskFacts
    <3>2. Answers(files.messages) <= Answers(records) /\ Answers(files.messages) \in Nat
      BY <1>1, <3>1, AnswersPrefix, AnswersType DEF MemoryExtendsDisk
    <3> QED BY <1>3, <2>1, <2>5, <3>2
  <2> QED BY <1>2, <2>2, <2>3, <2>4, <2>5
<1>10. WaitingBounded'
  <2>1. strategy = "summary" => Waiting(records, summary.anchor) < WindowSize
    BY DoneWaiting
  <2>2. overdue \in Nat /\ Waiting(records, summary.anchor) \in Nat
    BY <1>1, WaitingType DEF TypeOK
  <2>3. strategy = "summary" => Waiting(records, summary.anchor) < WindowSize + overdue
    BY <2>1, <2>2, Constants
  <2>4. ASSUME Loadable', files'.info.strategy = "summary",
               Anchored(files'.messages, files'.info.summary.anchor)
        PROVE  Waiting(files'.messages, files'.info.summary.anchor) < WindowSize
    <3>1. files'.info # Torn /\ files'.messages \notin {Missing, Torn} /\ files'.info # Missing
      BY <2>4 DEF Loadable
    <3>2. CASE files'.info = files.info /\ files'.messages = files.messages
      BY <2>4, <3>1, <3>2 DEF WaitingBounded, Loadable
    <3>3. CASE files'.info = new /\ files'.messages = records
      BY <1>3, <2>1, <2>4, <3>3
    <3>4. CASE files'.info = new /\ files'.messages = files.messages
      <4>1. files.messages \in Seq(Record) /\ strategy = "summary"
        BY <1>3, <2>4, <3>1, <3>4, DiskFacts
      <4>2. /\ Len(files.messages) <= Len(records)
            /\ \A i \in DOMAIN files.messages : files.messages[i] = records[i]
        BY <4>1 DEF MemoryExtendsDisk
      <4>3. InOrder(records, issued) /\ issued \in Nat
        BY Constants DEF IdsInOrder, TypeOK
      <4>4. Waiting(files.messages, summary.anchor) <= Waiting(records, summary.anchor)
        BY <1>1, <1>3, <2>4, <3>4, <4>1, <4>2, <4>3, WaitingPrefix
      <4>5. Waiting(files.messages, summary.anchor) \in Nat
        BY <4>1, WaitingType
      <4> QED BY <1>3, <2>1, <2>2, <3>4, <4>1, <4>4, <4>5, Constants
    <3> QED BY <1>2, <3>1, <3>2, <3>3, <3>4
  <2> QED BY <2>3, <2>4 DEF WaitingBounded
<1> QED BY <1>4, <1>5, <1>7, <1>8, <1>9, <1>10

LEMMA NextIInv == IInv /\ [Next]_vars => IInv'
<1> SUFFICES ASSUME IInv, [Next]_vars PROVE IInv'
  OBVIOUS
<1>1. ASSUME NEW s \in Strategies, Create(s) \/ CreateFails(s) \/ SetStrategy(s) PROVE IInv'
  BY <1>1, CreateStep, CreateFailsStep, SetStrategyStep
<1>2. CASE Save
  BY <1>2, WriteStep DEF Save
<1>3. CASE SaveFails
  <2>1. PICK steps \in 0..3 : files' = Written(steps)
    BY <1>3 DEF SaveFails
  <2>2. steps \in 0..4
    OBVIOUS
  <2> QED BY <1>3, <2>1, <2>2, WriteStep DEF SaveFails
<1> QED BY <1>1, <1>2, <1>3, AskStep, AnswerStep, SummariseStep, TurnFailsStep, StopStep,
           LoadStep, StutterStep DEF Next

\* The inductive invariant holds in every reachable state of a session and its files.
THEOREM IInvHolds == Spec => []IInv
BY InitIInv, NextIInv, PTL DEF Spec

\* The session and its files keep to their types: whatever a load reads, a whole save or
\* a save cut short wrote it (TypeOK).
THEOREM TypeCorrect == Spec => []TypeOK
<1>1. IInv => TypeOK
  BY DEF IInv
<1> QED BY <1>1, IInvHolds, PTL

\* For every window size: a sliding window bounds what a turn sends to the LLM, a summary
\* bounds it by the window and the records of failed turns that wait for one, and after a
\* turn that came to its DoneFrame fewer than a window wait (ContextBounded).
THEOREM ContextBoundedHolds == Spec => []ContextBounded
<1>1. IInv => ContextBounded
  BY DEF IInv
<1> QED BY <1>1, IInvHolds, PTL

\* No answer is held, in memory or in two files of different saves, whose usage is not
\* in the statistics beside it (AnswersCounted).
THEOREM AnswersCountedHolds == Spec => []AnswersCounted
<1>1. IInv => AnswersCounted
  BY DEF IInv
<1> QED BY <1>1, IInvHolds, PTL

\* The statistics of a DoneFrame are those of its turn (DoneReportsTurn).
THEOREM DoneReportsTurnHolds == Spec => []DoneReportsTurn
<1>1. IInv => DoneReportsTurn
  BY DEF IInv
<1> QED BY <1>1, IInvHolds, PTL

-----------------------------------------------------------------------------
(* Nothing is forgotten, when no summarisation call answers with an empty text *)

\* A summary that covers what is up to its anchor leaves only what is after it
LEMMA CoveredOrAfter ==
    ASSUME NEW recs \in Seq(Record), NEW sum, Covers(sum, recs)
    PROVE  \A i \in DOMAIN recs :
               recs[i].id \in sum.covers \cup
                   RecordIds(SubSeq(recs, IndexOf(recs, sum.anchor) + 1, Len(recs)))
<1> DEFINE k == IndexOf(recs, sum.anchor)
<1>1. /\ k \in 0..Len(recs) /\ Len(recs) \in Nat /\ DOMAIN recs = 1..Len(recs)
      /\ k > 0 => recs[k].id = sum.anchor
  BY IndexOfFacts, LenProperties
<1>2. \A i \in (k + 1)..Len(recs) : recs[i].id \in RecordIds(SubSeq(recs, k + 1, Len(recs)))
  BY <1>1, SuffixFacts
<1> HIDE DEF k
<1>3. ASSUME NEW i \in 1..k PROVE recs[i].id \in sum.covers
  BY <1>1 DEF Covers
<1>4. \A i \in DOMAIN recs : i \in 1..k \/ i \in (k + 1)..Len(recs)
  BY <1>1
<1>5. \A i \in DOMAIN recs :
        recs[i].id \in sum.covers \cup RecordIds(SubSeq(recs, k + 1, Len(recs)))
  BY <1>2, <1>3, <1>4
<1> QED BY <1>5 DEF k

\* No anchor, no covered record to check
LEMMA NoSummaryCovers ==
    ASSUME NEW recs \in Seq(Record) PROVE Covers(NoSummary, recs)
<1>1. \A i \in DOMAIN recs : recs[i].id \in Nat
  <2>1. \A i \in 1..Len(recs) : recs[i] \in Record
    BY ElementOfSeq
  <2> QED BY <2>1, LenProperties DEF Record, Ids
<1>2. NoSummary.anchor \notin Nat
  BY DistinctAssumption DEF NoSummary
<1> QED BY <1>1, <1>2 DEF Covers

Remembered == IInv /\ SummariesCover /\ NothingForgotten

LEMMA AskRemembers == Remembered /\ Ask => SummariesCover' /\ NothingForgotten'
<1> SUFFICES ASSUME Remembered, Ask PROVE SummariesCover' /\ NothingForgotten'
  OBVIOUS
<1> USE DEF Ask, Remembered
<1> DEFINE r == NewRecord("user")
<1>1. /\ TypeOK /\ IdsInOrder /\ records \in Seq(Record) /\ issued \in Nat
      /\ InOrder(records, issued) /\ strategy \in Strategies
  BY Constants DEF IInv, TypeOK, IdsInOrder, Phases
<1>2. r \in Record /\ r.id = issued + 1
  BY <1>1, NewRecordFacts
<1> HIDE DEF r
<1>3. records' = Append(records, r)
  BY DEF r
<1>4. r.id # summary.anchor
  BY <1>1, <1>2, DistinctAssumption DEF IdsInOrder
<1>5. Covers(summary, records') /\ records' \in Seq(Record)
  BY <1>1, <1>2, <1>3, <1>4, CoversAppend, AppendFacts DEF SummariesCover
<1>6. SummariesCover'
  BY <1>5 DEF SummariesCover
<1>7. ASSUME strategy = "dummy" PROVE NothingForgotten'
  <2>1. context' = [summary |-> FALSE, records |-> records']
    BY <1>7 DEF GetContext
  <2>2. context'.records = records'
    BY <2>1
  <2>3. RecordIds(records') \subseteq RecordIds(context'.records) \cup IF context'.summary THEN summary'.covers ELSE {}
    BY <2>2
  <2> QED BY <2>3 DEF NothingForgotten
<1>8. ASSUME strategy = "summary" PROVE NothingForgotten'
  <2>1. context' = [summary |-> summary.covers # {}, records |-> AfterAnchor(records')]
    BY <1>8 DEF GetContext
  <2>2. IndexOf(records', summary.anchor) = AnchorIndex
    BY <1>1, <1>2, <1>3, <1>4, IndexOfAppend DEF AnchorIndex
  <2>3. \A i \in DOMAIN records' :
            records'[i].id \in summary.covers \cup RecordIds(AfterAnchor(records'))
    BY <1>5, <2>2, CoveredOrAfter DEF AfterAnchor
  <2>4. RecordIds(records') \subseteq summary.covers \cup RecordIds(AfterAnchor(records'))
    BY <2>3 DEF RecordIds
  <2>5. /\ context'.records = AfterAnchor(records') /\ summary' = summary
        /\ context'.summary = (summary.covers # {})
    BY <2>1
  <2> QED BY <2>4, <2>5 DEF NothingForgotten
<1>9. NothingForgotten'
  BY <1>1, <1>7, <1>8, StrategiesAssumption DEF NothingForgotten
<1> QED BY <1>6, <1>9

LEMMA AnswerRemembers == Remembered /\ Answer => SummariesCover' /\ NothingForgotten'
<1> SUFFICES ASSUME Remembered, Answer PROVE SummariesCover' /\ NothingForgotten'
  OBVIOUS
<1> USE DEF Answer, Remembered
<1> DEFINE r == NewRecord("assistant")
<1>1. TypeOK /\ IdsInOrder /\ records \in Seq(Record) /\ issued \in Nat
  BY Constants DEF IInv, TypeOK
<1>2. r \in Record /\ r.id = issued + 1
  BY <1>1, NewRecordFacts
<1> HIDE DEF r
<1>3. records' = Append(records, r)
  BY DEF r
<1>4. r.id # summary.anchor
  BY <1>1, <1>2, DistinctAssumption DEF IdsInOrder
<1>5. Covers(summary, records')
  BY <1>1, <1>2, <1>3, <1>4, CoversAppend DEF SummariesCover
<1>6. SummariesCover'
  BY <1>5 DEF SummariesCover
<1> QED BY <1>6 DEF NothingForgotten

LEMMA SummariseRemembers ==
    ASSUME EmptyAnswers = FALSE
    PROVE  Remembered /\ Summarise => SummariesCover' /\ NothingForgotten'
<1> SUFFICES ASSUME Remembered, Summarise PROVE SummariesCover' /\ NothingForgotten'
  OBVIOUS
<1> USE DEF Summarise, Remembered
<1>1. records \in Seq(Record) /\ Covers(summary, records)
  BY DEF IInv, TypeOK, SummariesCover
<1>2. summary'.covers = summary.covers \cup RecordIds(AfterAnchor(records))
  OBVIOUS
<1>3. \A i \in DOMAIN records : records[i].id \in summary'.covers
  BY <1>1, <1>2, CoveredOrAfter DEF AfterAnchor, AnchorIndex
<1>4. Covers(summary', records)
  <2>1. Len(records) \in Nat /\ DOMAIN records = 1..Len(records)
    BY <1>1, LenProperties
  <2> QED BY <1>3, <2>1 DEF Covers
<1>5. SummariesCover'
  BY <1>4 DEF SummariesCover
<1> QED BY <1>5 DEF NothingForgotten

LEMMA WriteRemembers ==
    ASSUME Remembered, pc = "done", pc' = "idle", UNCHANGED <<mem, overdue, issued>>,
           NEW steps \in 0..4, files' = Written(steps)
    PROVE  SummariesCover' /\ NothingForgotten'
<1> USE DEF Remembered, mem
<1> DEFINE new == [strategy |-> strategy, summary |-> summary, total |-> total]
<1>1. /\ strategy \in Strategies /\ TypeOK /\ records \in Seq(Record)
      /\ MemoryExtendsDisk /\ Covers(summary, records)
  BY DEF IInv, Phases, TypeOK, SummariesCover
<1>2. \/ files'.info = files.info /\ files'.messages = files.messages
      \/ files'.info = Torn /\ files'.messages = files.messages
      \/ files'.info = new /\ files'.messages \in {files.messages, Torn, records}
  BY <1>1, WrittenFacts
<1>3. new.summary = summary
  OBVIOUS
<1> HIDE DEF new
<1>4. Torn \notin InfoType /\ Torn \notin Seq(Record)
  BY DistinctAssumption
<1>5. ASSUME files'.info \in InfoType, files'.messages \in Seq(Record)
      PROVE  Covers(files'.info.summary, files'.messages)
  <2>1. CASE files'.info = files.info /\ files'.messages = files.messages
    BY <1>5, <2>1 DEF SummariesCover
  <2>2. CASE files'.info = new /\ files'.messages = records
    BY <1>1, <1>3, <2>2
  <2>3. CASE files'.info = new /\ files'.messages = files.messages
    BY <1>1, <1>3, <1>5, <2>3, CoversPrefix DEF MemoryExtendsDisk
  <2> QED BY <1>2, <1>4, <1>5, <2>1, <2>2, <2>3
<1>6. SummariesCover'
  BY <1>1, <1>5 DEF SummariesCover
<1> QED BY <1>6 DEF NothingForgotten

\* The steps that bring or lose a session, or move it to another strategy
LEMMA CreateRemembers ==
    ASSUME Remembered, NEW s \in Strategies, Create(s) \/ CreateFails(s) \/ SetStrategy(s)
    PROVE  SummariesCover' /\ NothingForgotten'
<1> USE DEF Remembered
<1>1. /\ TypeOK /\ records \in Seq(Record) /\ DOMAIN <<>> = {}
      /\ (pc = "absent" => records = <<>>)
  BY EmptySeq DEF IInv, TypeOK, Phases
<1>2. pc' # "llm" => NothingForgotten'
  BY DEF NothingForgotten
<1>3. CASE Create(s)
  <2>1. files'.messages = <<>> /\ UNCHANGED <<summary, records>> /\ pc' = "idle"
    BY <1>3 DEF Create
  <2> QED BY <1>1, <1>2, <2>1 DEF SummariesCover, Covers
<1>4. CASE CreateFails(s)
  <2>1. files'.messages \in {Missing, Torn}
    BY <1>4 DEF CreateFails, Content
  <2>2. files'.messages \notin Seq(Record)
    BY <2>1, DistinctAssumption
  <2>3. UNCHANGED <<pc, summary, records>> /\ pc = "absent"
    BY <1>4 DEF CreateFails, mem
  <2> QED BY <1>2, <2>2, <2>3 DEF SummariesCover
<1>5. CASE SetStrategy(s)
  <2>1. UNCHANGED <<records, files>> /\ summary' = NoSummary /\ pc' = "idle"
    BY <1>5 DEF SetStrategy
  <2> QED BY <1>1, <1>2, <2>1, NoSummaryCovers DEF SummariesCover
<1> QED BY <1>3, <1>4, <1>5

LEMMA StopRemembers == Remembered /\ Stop => SummariesCover' /\ NothingForgotten'
<1>1. DOMAIN <<>> = {}
  BY EmptySeq
<1> QED BY <1>1 DEF Remembered, Stop, Forget, SummariesCover, Covers, NothingForgotten

LEMMA LoadRemembers == Remembered /\ Load => SummariesCover' /\ NothingForgotten'
<1> SUFFICES ASSUME Remembered, Load PROVE SummariesCover' /\ NothingForgotten'
  OBVIOUS
<1>1. files.info \in InfoType /\ files.messages \in Seq(Record)
  BY DiskFacts DEF Remembered, IInv, Load
<1> QED BY <1>1 DEF Load, Remembered, SummariesCover, NothingForgotten

LEMMA NextRemembers ==
    ASSUME EmptyAnswers = FALSE
    PROVE  Remembered /\ [Next]_vars => Remembered'
<1> SUFFICES ASSUME Remembered, [Next]_vars PROVE SummariesCover' /\ NothingForgotten'
  BY NextIInv DEF Remembered
<1>1. ASSUME NEW s \in Strategies, Create(s) \/ CreateFails(s) \/ SetStrategy(s)
      PROVE  SummariesCover' /\ NothingForgotten'
  BY <1>1, CreateRemembers
<1>2. CASE TurnFails
  BY <1>2 DEF TurnFails, mem, Remembered, SummariesCover, NothingForgotten
<1>3. CASE UNCHANGED vars
  BY <1>3 DEF vars, mem, Remembered, SummariesCover, NothingForgotten
<1>4. CASE Save
  BY <1>4, WriteRemembers DEF Save
<1>5. CASE SaveFails
  <2>1. PICK steps \in 0..3 : files' = Written(steps)
    BY <1>5 DEF SaveFails
  <2>2. steps \in 0..4
    OBVIOUS
  <2> QED BY <1>5, <2>1, <2>2, WriteRemembers DEF SaveFails
<1> QED BY <1>1, <1>2, <1>3, <1>4, <1>5, AskRemembers, AnswerRemembers, SummariseRemembers,
           StopRemembers, LoadRemembers DEF Next

\* Without empty summaries the model is told of every record, by the record itself or by
\* a summary that was made from it, for any window and any history of crashes
\* (NothingForgotten).
THEOREM NothingForgottenHolds ==
    ASSUME EmptyAnswers = FALSE
    PROVE  Spec => []NothingForgotten
<1>1. Init => Remembered
  <2> SUFFICES ASSUME Init PROVE Remembered
    OBVIOUS
  <2>1. DOMAIN <<>> = {} /\ Missing \notin InfoType
    BY EmptySeq, DistinctAssumption
  <2> QED BY <2>1, InitIInv DEF Init, Remembered, SummariesCover, Covers, NothingForgotten
<1>2. Remembered /\ [Next]_vars => Remembered'
  BY NextRemembers
<1>3. Remembered => NothingForgotten
  BY DEF Remembered
<1> QED BY <1>1, <1>2, <1>3, PTL DEF Spec

-----------------------------------------------------------------------------
(* SessionHistory                                                          *)

LEMMA InitHistory == Init => History!HistoryInit
BY DEF Init, Loadable, History!HistoryInit

LEMMA WriteHistory ==
    ASSUME IInv, pc = "done", pc' = "idle", UNCHANGED <<mem, overdue, issued>>,
           NEW steps \in 0..4, files' = Written(steps)
    PROVE  History!Save
<1> DEFINE new == [strategy |-> strategy, summary |-> summary, total |-> total]
<1>1. /\ strategy \in Strategies /\ TypeOK /\ records \in Seq(Record)
      /\ Last(records).role = "assistant"
  BY DEF IInv, Phases, TypeOK
<1>2. \/ files'.messages = files.messages
      \/ files'.messages \in {Torn, records}
  BY <1>1, WrittenFacts
<1>3. files' \in FilesType
  BY <1>1, WrittenFacts
<1>4. None \notin Seq(Record) /\ Missing \notin Seq(Record) /\ Torn \notin Seq(Record)
  BY DistinctAssumption
<1>5. Loadable' => files'.messages \notin {Missing, Torn} /\ files'.messages # None
  BY <1>3, <1>4 DEF Loadable, FilesType
<1>6. /\ pc # "absent" /\ pc' # "absent" /\ records' = records /\ records # None
      /\ History!Answered(records)
  BY <1>1, <1>4 DEF mem, History!Answered, History!Last, Last
<1> DEFINE saved(f) == IF f.messages \in {Missing, Torn} THEN None ELSE f.messages
<1>7. saved(files') \in {saved(files), records, None}
  BY <1>1, <1>2, <1>4
<1>8. Loadable' => saved(files') # None
  BY <1>5
<1>9. Loadable' \in BOOLEAN
  BY DEF Loadable
<1> QED BY <1>6, <1>7, <1>8, <1>9 DEF History!Save

LEMMA NextHistory == IInv /\ [Next]_vars => [History!HistoryNext]_History!hvars
<1> SUFFICES ASSUME IInv, [Next]_vars PROVE [History!HistoryNext]_History!hvars
  OBVIOUS
<1>1. /\ None \notin Seq(Record) /\ Missing \notin Seq(Record) /\ Torn \notin Seq(Record)
      /\ Missing \notin InfoType /\ Torn \notin InfoType /\ <<>> \in Seq(Record)
  BY DistinctAssumption, EmptySeq
<1>2. /\ TypeOK /\ records \in Seq(Record) /\ (pc = "absent" => records = <<>>)
      /\ ~files.dir => files.info = Missing /\ files.messages = Missing
  BY DEF IInv, TypeOK, Phases, MemoryExtendsDisk
<1>3. ASSUME NEW s \in Strategies, Create(s) PROVE History!Create
  <2> DEFINE info == [strategy |-> s, summary |-> NoSummary, total |-> NoUsage]
  <2>1. info \in InfoType
    BY Constants DEF InfoType
  <2>2. info \notin {Missing, Torn} /\ <<>> \notin {Missing, Torn}
    BY <1>1, <2>1
  <2>3. files'.info = info /\ files'.messages = <<>>
    BY <1>3 DEF Create
  <2> QED BY <1>2, <1>3, <2>2, <2>3 DEF Create, Loadable, History!Create
<1>4. ASSUME NEW s \in Strategies, CreateFails(s) PROVE History!Create
  <2>1. files'.messages \in {Missing, Torn}
    BY <1>4 DEF CreateFails, Content
  <2> QED BY <1>2, <1>4, <2>1 DEF CreateFails, mem, Loadable, History!Create
<1>5. ASSUME NEW s \in Strategies, SetStrategy(s) PROVE UNCHANGED History!hvars
  BY <1>5 DEF SetStrategy, Loadable, History!hvars
<1>6. CASE Ask
  <2>1. NewRecord("user") \in Record /\ NewRecord("user").role = "user"
    BY <1>2, <1>6, NewRecordFacts DEF Ask
  <2>2. records # None
    BY <1>1, <1>2
  <2>3. NewRecord("user") \in History!Records
    BY <2>1 DEF History!Records, Record
  <2> QED BY <1>6, <2>1, <2>2, <2>3 DEF Ask, Loadable, History!Ask, History!HistoryNext
<1>7. CASE Answer
  <2>1. NewRecord("assistant") \in Record /\ NewRecord("assistant").role = "assistant"
    BY <1>2, <1>7, NewRecordFacts DEF Answer
  <2>2. records # None
    BY <1>1, <1>2
  <2>3. NewRecord("assistant") \in History!Records
    BY <2>1 DEF History!Records, Record
  <2>4. records # <<>> /\ Last(records).role = "user"
    BY <1>7 DEF Answer, IInv, Phases
  <2>5. pc' \in {"summary", "done"} /\ pc = "llm" /\ UNCHANGED files
        /\ records' = Append(records, NewRecord("assistant"))
    BY <1>7 DEF Answer
  <2>6. UNCHANGED files /\ Loadable' = Loadable
    BY <2>5 DEF Loadable
  <2>7. ~History!Answered(records)
    BY <2>4 DEF History!Answered, History!Last, Last
  <2>8. pc # "absent" /\ pc' # "absent"
    BY <2>5
  <2>9. History!Answer
    BY <2>1, <2>2, <2>3, <2>5, <2>6, <2>7, <2>8 DEF History!Answer
  <2> QED BY <2>9 DEF History!HistoryNext
<1>8. CASE Summarise
  BY <1>8 DEF Summarise, Loadable, History!hvars
<1>9. CASE TurnFails
  BY <1>9 DEF TurnFails, mem, Loadable, History!hvars
<1>10. CASE Save
  BY <1>10, WriteHistory DEF Save, History!HistoryNext
<1>11. CASE SaveFails
  <2>1. PICK steps \in 0..3 : files' = Written(steps)
    BY <1>11 DEF SaveFails
  <2>2. steps \in 0..4
    OBVIOUS
  <2> QED BY <1>11, <2>1, <2>2, WriteHistory DEF SaveFails, History!HistoryNext
<1>12. CASE Stop
  BY <1>12 DEF Stop, Loadable, History!Stop, History!HistoryNext
<1>13. CASE Load
  BY <1>13 DEF Load, Loadable, History!Load, History!HistoryNext
<1>14. CASE UNCHANGED vars
  BY <1>14 DEF vars, mem, Loadable, History!hvars
<1> QED BY <1>3, <1>4, <1>5, <1>6, <1>7, <1>8, <1>9, <1>10, <1>11, <1>12, <1>13, <1>14
        DEF Next, History!HistoryNext

\* Whatever the strategies drop from a context, summarise or fail to write, the history
\* in memory and on disk only grows by questions and their answers (SessionHistory).
THEOREM ImplementsHistoryHolds == Spec => ImplementsHistory
<1>1. Spec => []IInv
  BY IInvHolds
<1> QED BY <1>1, InitHistory, NextHistory, PTL
        DEF Spec, ImplementsHistory, History!HistorySpec
=============================================================================
