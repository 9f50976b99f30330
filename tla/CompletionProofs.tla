------------------------- MODULE CompletionProofs -------------------------
(***************************************************************************)
(* For every value of the constants of Completion: the types of its        *)
(* variables, the event order of LlmPort, and two invariants, of the stop  *)
(* reason and of the statistics.                                           *)
(***************************************************************************)
EXTENDS Completion, SequenceTheorems, NaturalsInduction, WellFoundedInduction, TLAPS

-----------------------------------------------------------------------------
(* The operators of the statistics                                         *)

\* A sum of two costs is a cost, and does not lose any of the two
LEMMA PlusCostSum ==
    ASSUME NEW a \in Nat \cup {None}, NEW b \in Nat \cup {None}
    PROVE  /\ PlusCost(a, b) \in Nat \cup {None}
           /\ Zero(PlusCost(a, b)) = Zero(a) + Zero(b)
<1>1. CASE a = None /\ b = None
  BY <1>1 DEF PlusCost, Zero
<1>2. CASE ~(a = None /\ b = None)
  <2>1. PlusCost(a, b) = Zero(a) + Zero(b)
    BY <1>2 DEF PlusCost
  <2>2. Zero(a) \in Nat /\ Zero(b) \in Nat
    BY DEF Zero
  <2>3. Zero(a) + Zero(b) \in Nat
    BY <2>2
  <2>4. PlusCost(a, b) # None
    BY <2>1, <2>3, NoneAssumption
  <2> QED BY <2>1, <2>3, <2>4 DEF Zero
<1> QED BY <1>1, <1>2

LEMMA EstimateType ==
    ASSUME NEW rate \in Rate \cup {None}, NEW u \in Usage
    PROVE  Estimate(rate, u) \in Nat \cup {None}
<1>1. CASE rate = None
  BY <1>1 DEF Estimate
<1>2. CASE rate \in Rate
  <2>1. u.prompt \in Nat /\ u.completion \in Nat /\ rate.input \in Nat /\ rate.output \in Nat
    BY <1>2 DEF Usage, Rate
  <2>2. u.prompt * rate.input \in Nat /\ u.completion * rate.output \in Nat
    BY <2>1
  <2> QED BY <2>2 DEF Estimate
<1> QED BY <1>1, <1>2

\* add_stats yields statistics
LEMMA AddedType ==
    ASSUME NEW data \in Stats, NEW model \in Models, NEW u \in Usage,
           NEW cost \in Nat \cup {None}
    PROVE  Added(data, model, u, cost) \in Stats
<1> DEFINE e == data[model]
<1>1. e \in Entry \cup {None}
  BY DEF Stats
<1>2. CASE e = None
  BY <1>2 DEF Added, Stats, Entry
<1>3. CASE e \in Entry
  <2> DEFINE n == [usage |-> [prompt     |-> e.usage.prompt + u.prompt,
                              completion |-> e.usage.completion + u.completion],
                   cost  |-> PlusCost(e.cost, cost)]
  <2>1. e # None
    BY <1>3, NoneAssumption
  <2>2. e.usage \in Usage /\ e.cost \in Nat \cup {None}
    BY <1>3 DEF Entry
  <2>3. n.usage \in Usage
    BY <2>2 DEF Usage
  <2>4. n.cost \in Nat \cup {None}
    BY <2>2, PlusCostSum
  <2>5. n \in Entry
    BY <2>3, <2>4 DEF Entry
  <2>6. Added(data, model, u, cost) = [data EXCEPT ![model] = n]
    BY <2>1 DEF Added
  <2> QED BY <2>5, <2>6 DEF Stats
<1> QED BY <1>1, <1>2, <1>3

\* n is the entry e with u and cost added
EntrySum(n, e, u, cost) ==
    /\ n # None
    /\ n.usage.prompt = e.usage.prompt + u.prompt
    /\ n.usage.completion = e.usage.completion + u.completion
    /\ Zero(n.cost) = Zero(e.cost) + Zero(cost)
    /\ e.usage.prompt \in Nat /\ e.usage.completion \in Nat /\ Zero(e.cost) \in Nat
    /\ u.prompt \in Nat /\ u.completion \in Nat /\ Zero(cost) \in Nat

\* What add_stats does to an existing entry, in sums
LEMMA AddedEntry ==
    ASSUME NEW data \in Stats, NEW m \in Models, NEW u \in Usage,
           NEW cost \in Nat \cup {None}, data[m] \in Entry
    PROVE  EntrySum(Added(data, m, u, cost)[m], data[m], u, cost)
<1> DEFINE e == data[m]
           n == [usage |-> [prompt     |-> e.usage.prompt + u.prompt,
                            completion |-> e.usage.completion + u.completion],
                 cost  |-> PlusCost(e.cost, cost)]
<1>1. e # None
  BY NoneAssumption
<1>2. Added(data, m, u, cost)[m] = n
  BY <1>1 DEF Added, Stats
<1>3. Added(data, m, u, cost)[m] # None
  <2>1. Added(data, m, u, cost) \in Stats /\ e.usage \in Usage /\ e.cost \in Nat \cup {None}
    BY AddedType DEF Entry
  <2>2. n.usage \in Usage
    BY <2>1 DEF Usage
  <2>3. n.cost \in Nat \cup {None}
    BY <2>1, PlusCostSum
  <2>4. n \in Entry
    BY <2>2, <2>3 DEF Entry
  <2> QED BY <1>2, <2>4, NoneAssumption
<1>4. e.usage \in Usage /\ e.cost \in Nat \cup {None}
  BY DEF Entry
<1>5. Zero(n.cost) = Zero(e.cost) + Zero(cost)
  BY <1>4, PlusCostSum
<1>6. /\ e.usage.prompt \in Nat /\ e.usage.completion \in Nat /\ Zero(e.cost) \in Nat
      /\ u.prompt \in Nat /\ u.completion \in Nat /\ Zero(cost) \in Nat
  BY <1>4 DEF Usage, Zero
<1> QED BY <1>2, <1>3, <1>5, <1>6 DEF EntrySum

\* Statistics grow where something is added, and nowhere else
LEMMA AddedGrows ==
    ASSUME NEW data \in Stats, NEW model \in Models, NEW u \in Usage,
           NEW cost \in Nat \cup {None}, NEW m \in Models
    PROVE  Within(data[m], Added(data, model, u, cost)[m])
<1> DEFINE e == data[m]
<1>1. e \in Entry \cup {None}
  BY DEF Stats
<1>2. CASE e = None
  BY <1>2 DEF Within
<1>3. CASE e \in Entry /\ m # model
  <2>1. Added(data, model, u, cost)[m] = e
    BY <1>3 DEF Added, Stats
  <2>2. e.usage.prompt \in Nat /\ e.usage.completion \in Nat /\ Zero(e.cost) \in Nat
    BY <1>3 DEF Entry, Usage, Zero
  <2> QED BY <1>3, <2>1, <2>2, NoneAssumption DEF Within
<1>4. CASE e \in Entry /\ m = model
  <2>1. EntrySum(Added(data, m, u, cost)[m], e, u, cost)
    BY <1>4, AddedEntry
  <2> QED BY <1>4, <2>1 DEF EntrySum, Within
<1> QED BY <1>1, <1>2, <1>3, <1>4


\* Adding the same usage on both sides keeps one within the other
LEMMA AddedWithin ==
    ASSUME NEW a \in Stats, NEW b \in Stats, NEW model \in Models, NEW u \in Usage,
           NEW cost \in Nat \cup {None}, NEW m \in Models, Within(a[m], b[m])
    PROVE  Within(Added(a, model, u, cost)[m], Added(b, model, u, cost)[m])
<1>1. a[m] \in Entry \cup {None} /\ b[m] \in Entry \cup {None}
  BY DEF Stats
<1>2. CASE m # model
  BY <1>2 DEF Added, Stats
<1>3. CASE m = model /\ a[m] \in Entry
  <2>1. b[m] \in Entry
    BY <1>1, <1>3, NoneAssumption DEF Within
  <2> DEFINE x == Added(a, m, u, cost)[m]
             y == Added(b, m, u, cost)[m]
  <2>2. EntrySum(x, a[m], u, cost)
    BY <1>3, AddedEntry
  <2>3. EntrySum(y, b[m], u, cost)
    BY <2>1, AddedEntry
  <2>4. /\ a[m].usage.prompt <= b[m].usage.prompt
        /\ a[m].usage.completion <= b[m].usage.completion
        /\ Zero(a[m].cost) <= Zero(b[m].cost)
    BY <1>3, NoneAssumption DEF Within
  <2>5. /\ x.usage.prompt <= y.usage.prompt
        /\ x.usage.completion <= y.usage.completion
        /\ Zero(x.cost) <= Zero(y.cost)
    <3> HIDE DEF x, y
    <3> QED BY <2>2, <2>3, <2>4 DEF EntrySum
  <2>6. y # None
    BY <2>3 DEF EntrySum
  <2> QED BY <1>3, <2>5, <2>6 DEF Within
<1>4. CASE m = model /\ a[m] = None /\ b[m] \in Entry
  <2> DEFINE y == Added(b, m, u, cost)[m]
  <2>1. Added(a, m, u, cost)[m] = [usage |-> u, cost |-> cost]
    BY <1>4 DEF Added, Stats
  <2>2. EntrySum(y, b[m], u, cost)
    BY <1>4, AddedEntry
  <2>3. /\ y # None /\ u.prompt <= y.usage.prompt /\ u.completion <= y.usage.completion
        /\ Zero(cost) <= Zero(y.cost)
    <3> HIDE DEF y
    <3> QED BY <2>2 DEF EntrySum
  <2> QED BY <1>4, <2>1, <2>3 DEF Within
<1>5. CASE m = model /\ a[m] = None /\ b[m] = None
  <2>1. Added(a, m, u, cost)[m] = [usage |-> u, cost |-> cost]
    BY <1>5 DEF Added, Stats
  <2>2. Added(b, m, u, cost)[m] = [usage |-> u, cost |-> cost]
    BY <1>5 DEF Added, Stats
  <2> DEFINE n == [usage |-> u, cost |-> cost]
  <2>3. n \in Entry
    BY DEF Entry
  <2>4. n # None
    BY <2>3, NoneAssumption
  <2>5. /\ n.usage.prompt \in Nat /\ n.usage.completion \in Nat
        /\ Zero(n.cost) \in Nat
    BY DEF Usage, Zero
  <2>6. Within(n, n)
    BY <2>4, <2>5 DEF Within
  <2> QED BY <1>5, <2>1, <2>2, <2>6
<1> QED BY <1>1, <1>2, <1>3, <1>4, <1>5

\* Within is transitive on entries
LEMMA WithinTransitive ==
    ASSUME NEW a \in Entry \cup {None}, NEW b \in Entry \cup {None}, NEW c \in Entry \cup {None},
           Within(a, b), Within(b, c)
    PROVE  Within(a, c)
<1>1. CASE a = None
  BY <1>1 DEF Within
<1>2. CASE a \in Entry
  <2>1. b \in Entry /\ c \in Entry
    BY <1>2, NoneAssumption DEF Within
  <2>2. \A e \in {a, b, c} :
           e.usage.prompt \in Nat /\ e.usage.completion \in Nat /\ Zero(e.cost) \in Nat
    BY <1>2, <2>1 DEF Entry, Usage, Zero
  <2> QED BY <1>2, <2>1, <2>2, NoneAssumption DEF Within
<1> QED BY <1>1, <1>2

LEMMA WithinReflexive ==
    ASSUME NEW a \in Entry \cup {None}
    PROVE  Within(a, a)
<1>1. a \in Entry => a.usage.prompt \in Nat /\ a.usage.completion \in Nat /\ Zero(a.cost) \in Nat
  BY DEF Entry, Usage, Zero
<1> QED BY <1>1 DEF Within

-----------------------------------------------------------------------------
(* The inductive invariant                                                 *)

LEMMA InitIInv == Init => IInv
<1> SUFFICES ASSUME Init PROVE IInv
  OBVIOUS
<1>1. NoUsage \in Usage /\ NoStats \in Stats
  BY DEF NoUsage, NoStats, Usage, Stats
<1>2. TypeOK
  BY <1>1, PricingsAssumption DEF Init, TypeOK, Statuses, Finishes
<1>3. StatisticsNested
  BY DEF Init, StatisticsNested, Within, NoStats
<1>4. LocalsTrack
  BY DEF Init, LocalsTrack, Running
<1> QED BY <1>2, <1>3, <1>4 DEF Init, IInv

\* The call starts: shared by BeginTurn and Summarise
LEMMA StartCallTypes ==
    ASSUME StartCall
    PROVE  /\ status' \in Statuses /\ usage' \in Usage /\ events' \in Seq({"text", "done"})
           /\ stop' \in (IF status' = "returned" THEN StopReasons ELSE Finishes \cup {None})
           /\ said' \in [usage : Usage, finish : Finishes \cup {None}]
           /\ turn' # "idle" => LocalsTrack'
<1>1. NoUsage \in Usage /\ NoUsage.completion <= MaxTokens
  BY BoundsAssumption DEF NoUsage, Usage
<1>2. turn' # "idle" => LocalsTrack'
  BY <1>1 DEF StartCall, LocalsTrack, Running
<1> QED BY <1>1, <1>2 DEF StartCall, Statuses, Finishes

\* What a chunk or a response may report, and what is heard of it
LEMMA HeardType ==
    ASSUME TypeOK, NEW u \in Reports \cup {None}, NEW finish \in Finishes \cup {None},
           Heard(u, finish)
    PROVE  /\ said' \in [usage : Usage, finish : Finishes \cup {None}]
           /\ u # None => u \in Usage /\ u.completion <= MaxTokens /\ said'.usage = u
           /\ u = None => said'.usage = said.usage
           /\ said'.finish = IF finish = None THEN said.finish ELSE finish
<1>1. said.usage \in Usage /\ said.finish \in Finishes \cup {None}
  BY DEF TypeOK
<1>2. u # None => u \in Usage /\ u.completion <= MaxTokens
  BY BoundsAssumption DEF Reports, Usage
<1> QED BY <1>1, <1>2 DEF Heard

\* An action that leaves the statistics alone keeps their part of the invariant
LEMMA StatsUnchanged ==
    ASSUME IInv, UNCHANGED <<total, current, saved, ledger>>
    PROVE  /\ StatisticsNested'
           /\ total' \in Stats /\ current' \in Stats
           /\ saved' \in [stats : Stats, calls : Nat]
           /\ ledger' \in Seq([model : Models, usage : Usage, cost : Nat \cup {None}])
           /\ saved'.calls <= Len(ledger')
BY DEF IInv, TypeOK, StatisticsNested

\* A chunk keeps the locals of acompletion in step with what was said
LEMMA ChunkTracks ==
    ASSUME TypeOK, LocalsTrack, status = "chunks",
           NEW u \in Reports \cup {None}, NEW finish \in Finishes \cup {None},
           Heard(u, finish),
           usage' = IF u = None THEN usage ELSE u,
           stop' = StopAfter(finish, usage')
    PROVE  /\ usage' \in Usage /\ usage' = said'.usage /\ usage'.completion <= MaxTokens
           /\ stop' \in Finishes \cup {None}
           /\ \/ stop' = said'.finish
              \/ stop' = "stop" /\ said'.finish = None
              \/ stop' = "length" /\ said'.finish = "stop" /\ said'.usage.completion = MaxTokens
<1>1. /\ usage = said.usage /\ usage.completion <= MaxTokens
      /\ \/ stop = said.finish
         \/ stop = "stop" /\ said.finish = None
         \/ stop = "length" /\ said.finish = "stop" /\ said.usage.completion = MaxTokens
  BY DEF LocalsTrack, Running
<1>2. usage \in Usage /\ stop \in Finishes \cup {None}
  BY DEF TypeOK
<1>3. usage' \in Usage /\ usage' = said'.usage /\ usage'.completion <= MaxTokens
  BY <1>1, <1>2, HeardType
<1>4. said'.finish = IF finish = None THEN said.finish ELSE finish
  BY HeardType
<1>5. CASE finish = None
  <2>1. stop' = stop /\ said'.finish = said.finish
    BY <1>4, <1>5 DEF StopAfter
  <2>2. stop = "length" /\ said.finish = "stop" /\ said.usage.completion = MaxTokens
        => said'.usage.completion = MaxTokens
    <3>1. u \in Reports => u.completion >= said.usage.completion /\ u.completion \in Nat
      BY DEF Reports
    <3> QED BY <1>1, <1>3, <3>1, HeardType, BoundsAssumption DEF Usage
  <2> QED BY <1>1, <1>2, <1>3, <2>1, <2>2
<1>6. CASE finish # None
  BY <1>2, <1>3, <1>4, <1>6 DEF StopAfter, Finishes
<1> QED BY <1>5, <1>6

\* Every step keeps the invariant, one action at a time
LEMMA NextIInv == IInv /\ [Next]_vars => IInv'
<1> SUFFICES ASSUME IInv, [Next]_vars PROVE IInv'
  OBVIOUS
<1> USE DEF IInv
<1>1. CASE BeginTurn
  <2>1. NoStats \in Stats /\ \A m \in Models : Within(NoStats[m], total[m])
    BY DEF NoStats, Stats, Within
  <2>2. StatisticsNested'
    BY <1>1, <2>1 DEF BeginTurn, StatisticsNested
  <2>3. Len(ledger) \in Nat
    BY LenProperties DEF TypeOK
  <2>4. TypeOK' /\ LocalsTrack'
    BY <1>1, <2>1, <2>3, StartCallTypes DEF BeginTurn, TypeOK
  <2> QED BY <1>1, <2>2, <2>4 DEF BeginTurn
<1>2. CASE Summarise
  <2>1. TypeOK' /\ LocalsTrack'
    BY <1>2, StartCallTypes, StatsUnchanged DEF Summarise, TypeOK
  <2> QED BY <1>2, <2>1, StatsUnchanged DEF Summarise
<1>3. CASE StreamOpens
  <2>1. TypeOK' /\ LocalsTrack'
    BY <1>3 DEF StreamOpens, TypeOK, LocalsTrack, Running, Statuses, stats
  <2> QED BY <1>3, <2>1, StatsUnchanged DEF StreamOpens, stats
<1>4. CASE Chunk
  <2>1. PICK u \in Reports \cup {None}, finish \in Finishes \cup {None}, text \in BOOLEAN :
          /\ Heard(u, finish)
          /\ usage' = IF u = None THEN usage ELSE u
          /\ stop' = StopAfter(finish, usage')
          /\ IF finish \notin StopReasons \cup {None} THEN status' = "raised" /\ UNCHANGED events
             ELSE IF text THEN status' = "text" /\ events' = Append(events, "text")
             ELSE UNCHANGED <<status, events>>
    BY <1>4 DEF Chunk
  <2>2. status = "chunks" /\ UNCHANGED <<turn, pricing, total, current, saved, ledger, mark>>
    BY <1>4 DEF Chunk, stats
  <2>3. /\ usage' \in Usage /\ usage' = said'.usage /\ usage'.completion <= MaxTokens
        /\ stop' \in Finishes \cup {None}
        /\ \/ stop' = said'.finish
           \/ stop' = "stop" /\ said'.finish = None
           \/ stop' = "length" /\ said'.finish = "stop" /\ said'.usage.completion = MaxTokens
    BY <2>1, <2>2, ChunkTracks
  <2>4. status' \in {"chunks", "text", "raised"} /\ events' \in Seq({"text", "done"})
    <3>1. events \in Seq({"text", "done"})
      BY DEF TypeOK
    <3>2. Append(events, "text") \in Seq({"text", "done"})
      BY <3>1, AppendProperties
    <3> QED BY <2>1, <2>2, <3>1, <3>2
  <2>5. said' \in [usage : Usage, finish : Finishes \cup {None}]
    BY <2>1, HeardType
  <2>6. TypeOK'
    BY <2>2, <2>3, <2>4, <2>5 DEF TypeOK, Statuses
  <2>7. LocalsTrack'
    BY <2>2, <2>3, <2>4 DEF LocalsTrack, Running
  <2> QED BY <2>2, <2>6, <2>7, StatsUnchanged
<1>5. CASE NextChunk
  <2>1. TypeOK' /\ LocalsTrack'
    BY <1>5 DEF NextChunk, TypeOK, LocalsTrack, Running, Statuses, stats
  <2> QED BY <1>5, <2>1, StatsUnchanged DEF NextChunk, stats
<1>6. CASE Response
  <2>1. PICK u \in Reports, finish \in Finishes \cup {None} :
          Heard(u, finish) /\ usage' = u /\ stop' = finish
    BY <1>6 DEF Response
  <2>2. /\ status = "request" /\ status' = "text" /\ events' = Append(events, "text")
        /\ UNCHANGED <<turn, pricing, total, current, saved, ledger, mark>>
    BY <1>6 DEF Response, stats
  <2>3. u # None
    BY NoneAssumption, BoundsAssumption DEF Reports, Usage
  <2>4. /\ u \in Usage /\ u.completion <= MaxTokens /\ said'.usage = u
        /\ said' \in [usage : Usage, finish : Finishes \cup {None}]
        /\ said'.finish = IF finish = None THEN said.finish ELSE finish
    BY <2>1, <2>3, HeardType
  <2>5. said.finish = None
    BY <2>2 DEF LocalsTrack
  <2>6. events' \in Seq({"text", "done"})
    BY <2>2, AppendProperties DEF TypeOK
  <2>7. TypeOK'
    BY <2>1, <2>2, <2>4, <2>6 DEF TypeOK, Statuses
  <2>8. LocalsTrack'
    BY <2>1, <2>2, <2>4, <2>5 DEF LocalsTrack, Running
  <2> QED BY <2>2, <2>7, <2>8, StatsUnchanged
<1>8. CASE CompleteFails
  <2>1. TypeOK' /\ LocalsTrack'
    BY <1>8 DEF CompleteFails, TypeOK, LocalsTrack, Running, Statuses, stats, AtEnd, StopReasons
  <2> QED BY <1>8, <2>1, StatsUnchanged DEF CompleteFails, stats
<1>9. CASE CallFails
  <2>1. TypeOK' /\ LocalsTrack'
    BY <1>9 DEF CallFails, TypeOK, LocalsTrack, Running, Statuses, stats, StopReasons
  <2> QED BY <1>9, <2>1, StatsUnchanged DEF CallFails, stats
<1>10. CASE TurnFails
  <2>1. TypeOK' /\ LocalsTrack'
    BY <1>10 DEF TurnFails, TypeOK, LocalsTrack, Running, stats
  <2> QED BY <1>10, <2>1, StatsUnchanged DEF TurnFails, stats
<1>7. CASE Complete
  <2> DEFINE cost == Estimate(pricing[Model], usage)
             call == [model |-> Model, usage |-> said.usage,
                      cost  |-> Estimate(pricing[Model], said.usage)]
  <2>1. /\ AtEnd /\ stop \in StopReasons \cup {None} /\ status' = "returned"
        /\ stop' = IF stop = None THEN "stop" ELSE stop
        /\ events' = Append(events, "done")
        /\ total' = Added(total, Model, usage, cost)
        /\ current' = Added(current, Model, usage, cost)
        /\ ledger' = Append(ledger, call)
        /\ UNCHANGED <<turn, usage, saved, pricing, said, mark>>
    BY <1>7 DEF Complete
  <2>2. Model \in Models /\ usage \in Usage /\ said.usage \in Usage
    BY DEF Model, Models, TypeOK
  <2>3. pricing[Model] \in Rate \cup {None}
    BY <2>2 DEF TypeOK
  <2>4. cost \in Nat \cup {None} /\ call.cost \in Nat \cup {None}
    BY <2>2, <2>3, EstimateType
  <2> HIDE DEF cost
  <2>5. total \in Stats /\ current \in Stats /\ saved.stats \in Stats
    BY DEF TypeOK
  <2>6. total' \in Stats /\ current' \in Stats
    BY <2>1, <2>2, <2>4, <2>5, AddedType
  <2>7. call \in [model : Models, usage : Usage, cost : Nat \cup {None}]
    BY <2>2, <2>4
  <2> HIDE DEF call
  <2>8. /\ ledger' \in Seq([model : Models, usage : Usage, cost : Nat \cup {None}])
        /\ Len(ledger') = Len(ledger) + 1 /\ Len(ledger) \in Nat
    BY <2>1, <2>7, AppendProperties, LenProperties DEF TypeOK
  <2>9. events' \in Seq({"text", "done"})
    BY <2>1, AppendProperties DEF TypeOK
  <2>10. stop' \in StopReasons
    BY <2>1 DEF StopReasons, Finishes
  <2>11. TypeOK'
    BY <2>1, <2>6, <2>8, <2>9, <2>10 DEF TypeOK, Statuses
  <2>12. LocalsTrack'
    BY <2>1 DEF LocalsTrack, Running, AtEnd, StopReasons
  <2>13. ASSUME NEW m \in Models
         PROVE  Within(current'[m], total'[m]) /\ Within(saved.stats[m], total'[m])
    <3>1. Within(current[m], total[m]) /\ Within(saved.stats[m], total[m])
      BY DEF StatisticsNested
    <3>2. Within(current'[m], total'[m])
      BY <2>1, <2>2, <2>4, <2>5, <3>1, AddedWithin
    <3>3. Within(total[m], total'[m])
      BY <2>1, <2>2, <2>4, <2>5, AddedGrows
    <3>4. /\ saved.stats[m] \in Entry \cup {None} /\ total[m] \in Entry \cup {None}
          /\ total'[m] \in Entry \cup {None}
      BY <2>5, <2>6 DEF Stats
    <3> QED BY <3>1, <3>2, <3>3, <3>4, WithinTransitive
  <2>14. StatisticsNested'
    BY <2>1, <2>13 DEF StatisticsNested
  <2>15. saved'.calls <= Len(ledger')
    BY <2>1, <2>8 DEF TypeOK
  <2> QED BY <2>11, <2>12, <2>14, <2>15
<1>11. CASE EndTurn
  <2>1. PICK x \in {saved, [stats |-> total, calls |-> Len(ledger)]} : saved' = x
    BY <1>11 DEF EndTurn
  <2>2. turn' = "idle" /\ UNCHANGED <<status, usage, stop, events, total, current,
                                      pricing, said, ledger, mark>>
    BY <1>11 DEF EndTurn
  <2>3. Len(ledger) \in Nat
    BY LenProperties DEF TypeOK
  <2>4. /\ saved' \in [stats : Stats, calls : Nat] /\ saved'.calls <= Len(ledger)
        /\ saved'.stats \in {saved.stats, total}
    BY <2>1, <2>3 DEF TypeOK
  <2>5. status' = "returned"
    BY <1>11 DEF EndTurn
  <2>6. TypeOK'
    BY <2>2, <2>4 DEF TypeOK
  <2>7. LocalsTrack'
    BY <2>2, <2>5 DEF LocalsTrack, Running
  <2>8. \A m \in Models : Within(total[m], total[m])
    BY WithinReflexive DEF TypeOK, Stats
  <2>9. StatisticsNested'
    BY <2>2, <2>4, <2>8 DEF StatisticsNested
  <2> QED BY <2>2, <2>4, <2>6, <2>7, <2>9
<1>12. CASE Restart
  <2>1. saved.stats \in Stats /\ saved.calls \in Nat /\ saved.calls <= Len(ledger)
    BY DEF TypeOK
  <2>2. NoUsage \in Usage /\ NoStats \in Stats
    BY DEF NoUsage, NoStats, Usage, Stats
  <2>3. /\ SubSeq(ledger, 1, saved.calls) \in Seq([model : Models, usage : Usage, cost : Nat \cup {None}])
        /\ Len(SubSeq(ledger, 1, saved.calls)) = saved.calls
    <3> DEFINE Calls == [model : Models, usage : Usage, cost : Nat \cup {None}]
    <3>1. ledger \in Seq(Calls)
      BY DEF TypeOK
    <3> HIDE DEF Calls
    <3>2. \A i \in 1..saved.calls : ledger[i] \in Calls
      BY <2>1, <3>1, ElementOfSeq, LenProperties
    <3>3. /\ SubSeq(ledger, 1, saved.calls) \in Seq(Calls)
          /\ Len(SubSeq(ledger, 1, saved.calls)) = saved.calls
      BY <2>1, <3>2, SubSeqProperties
    <3> QED BY <3>3 DEF Calls
  <2>4. TypeOK'
    BY <1>12, <2>1, <2>2, <2>3, PricingsAssumption DEF Restart, TypeOK, Statuses, Finishes
  <2>5. LocalsTrack'
    BY <1>12 DEF Restart, LocalsTrack, Running
  <2>6. \A m \in Models : Within(saved.stats[m], saved.stats[m])
    BY <2>1, WithinReflexive DEF Stats
  <2>7. StatisticsNested'
    BY <1>12, <2>6 DEF Restart, StatisticsNested, NoStats, Within
  <2> QED BY <1>12, <2>1, <2>3, <2>4, <2>5, <2>7 DEF Restart
<1>13. CASE UNCHANGED vars
  BY <1>13 DEF vars, TypeOK, StatisticsNested, LocalsTrack, Running
<1> QED
  BY <1>1, <1>2, <1>3, <1>4, <1>5, <1>6, <1>7, <1>8, <1>9, <1>10, <1>11, <1>12, <1>13 DEF Next

\* The invariant holds in every reachable state
LEMMA IInvHolds == Spec => []IInv
BY InitIInv, NextIInv, PTL DEF Spec

-----------------------------------------------------------------------------
(* Theorems                                                                *)

\* Every variable keeps its type: no chunk, price, failure or restart makes the
\* statistics anything else than an entry or None per model, or lets a call return
\* with a reason that StopReason does not know.
THEOREM TypeCorrect == Spec => []TypeOK
<1>1. IInv => TypeOK
  BY DEF IInv
<1> QED BY <1>1, IInvHolds, PTL

\* What a turn reports and what the disk holds stays within the statistics of the
\* session, over any number of turns, failures and restarts.
THEOREM StatisticsNestedHolds == Spec => []StatisticsNested
<1>1. IInv => StatisticsNested
  BY DEF IInv
<1> QED BY <1>1, IInvHolds, PTL

\* A call that returned reports the provider's own reason, or one of the two
\* corrections of acompletion where it applies.
THEOREM StopReasonJustifiedHolds == Spec => []StopReasonJustified
<1>1. IInv => StopReasonJustified
  BY DEF IInv, LocalsTrack, StopReasonJustified
<1> QED BY <1>1, IInvHolds, PTL

-----------------------------------------------------------------------------
(* The refinement of LlmPort                                               *)

\* An initial state has no call yet
LEMMA InitPort == Init => Port!PortInit
BY DEF Init, Port!PortInit, Running

\* Every step is one of the port, or leaves its variables alone
LEMMA NextPort == IInv /\ [Next]_vars => [Port!PortNext]_(Port!pvars)
<1> SUFFICES ASSUME IInv, [Next]_vars PROVE [Port!PortNext]_(Port!pvars)
  OBVIOUS
<1> DEFINE call == IF Running THEN "running" ELSE status
<1>1. CASE BeginTurn
  <2>1. ~Running /\ status # "running"
    BY <1>1 DEF BeginTurn, IInv, LocalsTrack, TypeOK, Statuses
  <2> QED BY <1>1, <2>1 DEF BeginTurn, StartCall, Running, Port!PortNext, Port!Call
<1>2. CASE Summarise
  BY <1>2 DEF Summarise, StartCall, Running, Port!PortNext, Port!Call
<1>3. CASE StreamOpens
  BY <1>3 DEF StreamOpens, Running, Port!pvars
<1>4. CASE Chunk
  BY <1>4 DEF Chunk, Running, Port!PortNext, Port!pvars, Port!Text, Port!Raise
<1>5. CASE NextChunk
  BY <1>5 DEF NextChunk, Running, Port!pvars
<1>6. CASE Response
  BY <1>6 DEF Response, Running, Port!PortNext, Port!Text
<1>7. CASE Complete
  BY <1>7 DEF Complete, AtEnd, Running, Port!PortNext, Port!Done
<1>8. CASE CompleteFails
  BY <1>8 DEF CompleteFails, AtEnd, Running, Port!PortNext, Port!Raise
<1>9. CASE CallFails
  BY <1>9 DEF CallFails, Running, Port!PortNext, Port!Raise
<1>10. CASE TurnFails
  BY <1>10 DEF TurnFails, Running, Port!pvars
<1>11. CASE EndTurn
  BY <1>11 DEF EndTurn, Running, Port!pvars
<1>12. CASE Restart
  BY <1>12 DEF Restart, Running, Port!PortNext, Port!Vanish
<1>13. CASE UNCHANGED vars
  BY <1>13 DEF vars, Running, Port!pvars
<1> QED
  BY <1>1, <1>2, <1>3, <1>4, <1>5, <1>6, <1>7, <1>8, <1>9, <1>10, <1>11, <1>12, <1>13 DEF Next

\* Whatever the provider sends, the caller of acompletion sees texts, then exactly
\* one done event at the end, or an error.
THEOREM ImplementsPortHolds == Spec => ImplementsPort
<1>1. Spec => []IInv
  BY IInvHolds
<1> QED BY <1>1, InitPort, NextPort, PTL DEF Spec, ImplementsPort, Port!PortSpec

-----------------------------------------------------------------------------
(* The sums over the calls                                                 *)

\* Induction over numbers, as the library's theorem about minima gives it: a set of
\* counterexamples has a first one.
LEMMA LeastNumber ==
    ASSUME NEW T \in SUBSET Nat, T # {}
    PROVE  \E x \in T : \A y \in T : x <= y
<1> DEFINE R == OpToRel(<, Nat)
<1>1. IsWellFoundedOn(R, Nat)
  BY NatLessThanWellFounded
<1>2. R = {ss \in Nat \X Nat : ss[1] < ss[2]}
  BY DEF OpToRel
<1> HIDE DEF R
<1>3. PICK x \in T : \A y \in T : ~(<<y, x>> \in R)
  BY <1>1, WFMin
<1>4. \A y \in T : <<y, x>> \in R \/ x <= y
  BY <1>2
<1> QED BY <1>3, <1>4

\* The recursion of Sums: f[n] is the sums over the first n calls, up to n = k
NextSums(calls, m, f, n) ==
    IF n = 0 THEN NoSums
    ELSE IF calls[n].model = m THEN WithCall(f[n - 1], calls[n])
    ELSE f[n - 1]

SumsUpTo(calls, m, f, k) == f = [n \in 0..k |-> NextSums(calls, m, f, n)]

\* The recursion has a solution ...
LEMMA UpToExists ==
    ASSUME NEW calls, NEW m, NEW k \in Nat
    PROVE  \E f : SumsUpTo(calls, m, f, k)
<1> DEFINE T == {n \in Nat : ~\E f : SumsUpTo(calls, m, f, n)}
<1>1. SUFFICES ASSUME T # {} PROVE FALSE
  OBVIOUS
<1>2. PICK x \in T : \A y \in T : x <= y
  BY <1>1, LeastNumber
<1>3. CASE x = 0
  <2> DEFINE f == [n \in 0..0 |-> NoSums]
  <2>1. f = [n \in 0..0 |-> NextSums(calls, m, f, n)]
    BY DEF NextSums
  <2> QED BY <1>2, <1>3, <2>1 DEF SumsUpTo
<1>4. CASE x # 0
  <2>1. x \in Nat \ {0} /\ x - 1 \in Nat /\ x - 1 \notin T
    BY <1>2, <1>4
  <2>2. PICK f : SumsUpTo(calls, m, f, x - 1)
    BY <2>1
  <2>3. /\ f = [n \in 0..(x - 1) |-> NextSums(calls, m, f, n)]
        /\ \A n \in 0..(x - 1) : f[n] = NextSums(calls, m, f, n)
    BY <2>2 DEF SumsUpTo
  <2> DEFINE g == [n \in 0..x |-> IF n = x THEN NextSums(calls, m, f, x) ELSE f[n]]
  <2>4. ASSUME NEW n \in 0..x PROVE g[n] = NextSums(calls, m, g, n)
    <3>1. n # 0 => n - 1 \in 0..x /\ n - 1 # x
      BY <2>1
    <3>2. n # 0 => g[n - 1] = f[n - 1]
      BY <3>1
    <3>3. NextSums(calls, m, g, n) = NextSums(calls, m, f, n)
      <4> HIDE DEF g
      <4> QED BY <3>2 DEF NextSums
    <3>4. n # x => n \in 0..(x - 1)
      BY <2>1
    <3> QED BY <2>3, <3>3, <3>4
  <2>5. SumsUpTo(calls, m, g, x)
    <3>1. g = [n \in 0..x |-> g[n]]
      OBVIOUS
    <3> HIDE DEF g
    <3> QED BY <2>4, <3>1 DEF SumsUpTo
  <2> QED BY <1>2, <2>5
<1> QED BY <1>3, <1>4

\* ... and only one, which depends on the calls before it alone.
LEMMA UpToAgrees ==
    ASSUME NEW a, NEW b, NEW m, NEW f, NEW g, NEW k \in Nat, NEW l \in Nat,
           SumsUpTo(a, m, f, k), SumsUpTo(b, m, g, l),
           NEW i \in Nat, i <= k, i <= l, \A n \in 1..i : a[n] = b[n]
    PROVE  f[i] = g[i]
<1> DEFINE T == {n \in 0..i : f[n] # g[n]}
<1>1. SUFFICES ASSUME T # {} PROVE FALSE
  OBVIOUS
<1>2. PICK x \in T : \A y \in T : x <= y
  <2>1. T \in SUBSET Nat
    OBVIOUS
  <2> HIDE DEF T
  <2> QED BY <1>1, <2>1, LeastNumber
<1>3. x \in 0..k /\ x \in 0..l /\ x \in 0..i
  BY <1>2
<1>4. f[x] = NextSums(a, m, f, x) /\ g[x] = NextSums(b, m, g, x)
  BY <1>3 DEF SumsUpTo
<1>5. x # 0 => f[x - 1] = g[x - 1] /\ a[x] = b[x]
  <2>1. SUFFICES ASSUME x # 0 PROVE f[x - 1] = g[x - 1] /\ a[x] = b[x]
    OBVIOUS
  <2>2. x - 1 \in 0..i /\ x - 1 \notin T
    BY <1>2, <1>3, <2>1
  <2> QED BY <1>3, <2>1, <2>2
<1>6. f[x] = g[x]
  BY <1>4, <1>5 DEF NextSums
<1> QED BY <1>2, <1>6

\* Sums is where the recursion ends.
LEMMA SumsRecursion ==
    ASSUME NEW calls, Len(calls) \in Nat, NEW m
    PROVE  \E f : SumsUpTo(calls, m, f, Len(calls)) /\ Sums(calls, m) = f[Len(calls)]
<1> DEFINE upTo == CHOOSE f : f = [n \in 0..Len(calls) |->
                        IF n = 0 THEN NoSums
                        ELSE IF calls[n].model = m THEN WithCall(f[n - 1], calls[n])
                        ELSE f[n - 1]]
<1>1. \E f : f = [n \in 0..Len(calls) |->
                        IF n = 0 THEN NoSums
                        ELSE IF calls[n].model = m THEN WithCall(f[n - 1], calls[n])
                        ELSE f[n - 1]]
  <2>1. PICK f : SumsUpTo(calls, m, f, Len(calls))
    BY UpToExists
  <2>2. f = [n \in 0..Len(calls) |->
                IF n = 0 THEN NoSums
                ELSE IF calls[n].model = m THEN WithCall(f[n - 1], calls[n])
                ELSE f[n - 1]]
    BY <2>1 DEF SumsUpTo, NextSums
  <2> QED BY <2>2
<1>2. upTo = [n \in 0..Len(calls) |->
                        IF n = 0 THEN NoSums
                        ELSE IF calls[n].model = m THEN WithCall(upTo[n - 1], calls[n])
                        ELSE upTo[n - 1]]
  BY <1>1
<1>3. Sums(calls, m) = upTo[Len(calls)]
  BY DEF Sums
<1> HIDE DEF upTo
<1>4. SumsUpTo(calls, m, upTo, Len(calls))
  BY <1>2 DEF SumsUpTo, NextSums
<1> QED BY <1>3, <1>4

Calls == [model : Models, usage : Usage, cost : Nat \cup {None}]

\* The sums over no call are zero.
LEMMA SumsEmpty == \A m : Sums(<<>>, m) = NoSums
<1> SUFFICES ASSUME NEW m PROVE Sums(<<>>, m) = NoSums
  OBVIOUS
<1>1. Len(<<>>) = 0
  OBVIOUS
<1>2. PICK f : SumsUpTo(<<>>, m, f, 0) /\ Sums(<<>>, m) = f[0]
  BY <1>1, SumsRecursion
<1>3. f[0] = NextSums(<<>>, m, f, 0)
  BY <1>2 DEF SumsUpTo
<1> QED BY <1>2, <1>3 DEF NextSums

\* One call more is added to the sums of its model, and to no other's.
LEMMA SumsAppended ==
    ASSUME NEW calls \in Seq(Calls), NEW c \in Calls, NEW m
    PROVE  Sums(Append(calls, c), m) =
                IF c.model = m THEN WithCall(Sums(calls, m), c) ELSE Sums(calls, m)
<1> DEFINE more == Append(calls, c)
           n == Len(calls)
<1>1. /\ n \in Nat /\ Len(more) = n + 1 /\ more[n + 1] = c
      /\ \A i \in 1..n : calls[i] = more[i]
  BY AppendProperties, LenProperties
<1> HIDE DEF more, n
<1>2. PICK f : SumsUpTo(calls, m, f, n) /\ Sums(calls, m) = f[n]
  BY <1>1, SumsRecursion DEF n
<1>3. PICK g : SumsUpTo(more, m, g, n + 1) /\ Sums(more, m) = g[n + 1]
  BY <1>1, SumsRecursion
<1>4. f[n] = g[n]
  BY <1>1, <1>2, <1>3, UpToAgrees
<1>5. g[n + 1] = NextSums(more, m, g, n + 1)
  BY <1>1, <1>3 DEF SumsUpTo
<1>6. n + 1 # 0 /\ (n + 1) - 1 = n
  BY <1>1
<1>7. NextSums(more, m, g, n + 1) = IF c.model = m THEN WithCall(g[n], c) ELSE g[n]
  BY <1>1, <1>6 DEF NextSums
<1> QED BY <1>2, <1>3, <1>4, <1>5, <1>7 DEF more

\* Sums are numbers; without a call there is nothing in them, and no cost without a price.
SumsFine(s) ==
    /\ s \in [calls : Nat, prompt : Nat, completion : Nat, priced : Nat, cost : Nat]
    /\ s.calls = 0 => s = NoSums
    /\ s.priced = 0 => s.cost = 0

\* A call keeps the sums in their types, and leaves a trace in the number of calls.
LEMMA WithCallFine ==
    ASSUME NEW s, SumsFine(s), NEW c \in Calls
    PROVE  SumsFine(WithCall(s, c)) /\ WithCall(s, c).calls # 0
<1>1. /\ c.usage.prompt \in Nat /\ c.usage.completion \in Nat /\ c.cost \in Nat \cup {None}
  BY DEF Calls, Usage
<1>2. (IF c.cost = None THEN 0 ELSE 1) \in Nat /\ (IF c.cost = None THEN 0 ELSE c.cost) \in Nat
  BY <1>1
<1>3. /\ s.calls \in Nat /\ s.prompt \in Nat /\ s.completion \in Nat /\ s.priced \in Nat
      /\ s.cost \in Nat /\ (s.priced = 0 => s.cost = 0)
  BY DEF SumsFine
<1>4. WithCall(s, c) \in [calls : Nat, prompt : Nat, completion : Nat, priced : Nat, cost : Nat]
  BY <1>1, <1>2, <1>3 DEF WithCall
<1>5. WithCall(s, c).calls # 0
  BY <1>3 DEF WithCall
<1>6. WithCall(s, c).priced = 0 => WithCall(s, c).cost = 0
  <2>1. CASE c.cost = None
    BY <1>3, <2>1 DEF WithCall
  <2>2. CASE c.cost # None
    BY <1>3, <2>2 DEF WithCall
  <2> QED BY <2>1, <2>2
<1> QED BY <1>4, <1>5, <1>6 DEF SumsFine

\* The sums over any number of calls are in their types.
LEMMA SumsAreFine ==
    ASSUME NEW calls \in Seq(Calls), NEW m
    PROVE  SumsFine(Sums(calls, m))
<1>1. Len(calls) \in Nat /\ \A i \in 1..Len(calls) : calls[i] \in Calls
  BY LenProperties, ElementOfSeq
<1>2. PICK f : SumsUpTo(calls, m, f, Len(calls)) /\ Sums(calls, m) = f[Len(calls)]
  BY <1>1, SumsRecursion
<1> DEFINE T == {n \in 0..Len(calls) : ~SumsFine(f[n])}
<1>3. SUFFICES ASSUME T # {} PROVE FALSE
  BY <1>1, <1>2
<1>4. PICK x \in T : \A y \in T : x <= y
  <2>1. T \in SUBSET Nat
    OBVIOUS
  <2> HIDE DEF T
  <2> QED BY <1>3, <2>1, LeastNumber
<1>5. f[x] = NextSums(calls, m, f, x) /\ x \in 0..Len(calls)
  BY <1>2, <1>4 DEF SumsUpTo
<1>6. CASE x = 0
  <2>1. SumsFine(NoSums)
    BY DEF SumsFine, NoSums
  <2> QED BY <1>4, <1>5, <1>6, <2>1 DEF NextSums
<1>7. CASE x # 0
  <2>1. x \in 1..Len(calls) /\ x - 1 \in 0..Len(calls) /\ x - 1 \notin T
    BY <1>1, <1>4, <1>5, <1>7
  <2>2. SumsFine(f[x - 1]) /\ calls[x] \in Calls
    BY <1>1, <2>1
  <2>3. SumsFine(WithCall(f[x - 1], calls[x]))
    BY <2>2, WithCallFine
  <2>4. SumsFine(f[x])
    BY <1>5, <1>7, <2>2, <2>3 DEF NextSums
  <2> QED BY <1>4, <2>4
<1> QED BY <1>6, <1>7

\* add_stats keeps an entry what the sums say, with one call more.
LEMMA EntryAppended ==
    ASSUME NEW data \in Stats, NEW calls \in Seq(Calls), NEW c \in Calls, NEW m \in Models,
           data[m] = EntryOf(calls, m)
    PROVE  Added(data, c.model, c.usage, c.cost)[m] = EntryOf(Append(calls, c), m)
<1> DEFINE s == Sums(calls, m)
           w == WithCall(s, c)
           e == data[m]
<1>1. SumsFine(s)
  BY SumsAreFine
<1>2. Sums(Append(calls, c), m) = IF c.model = m THEN w ELSE s
  BY SumsAppended
<1>3. /\ c.model \in Models /\ c.usage.prompt \in Nat /\ c.usage.completion \in Nat
      /\ c.usage = [prompt |-> c.usage.prompt, completion |-> c.usage.completion]
      /\ c.cost \in Nat \cup {None}
  BY DEF Calls, Usage
<1>4. SumsFine(w) /\ w.calls # 0
  BY <1>1, WithCallFine
<1>5. e = IF s.calls = 0 THEN None
          ELSE [usage |-> [prompt |-> s.prompt, completion |-> s.completion],
                cost  |-> IF s.priced = 0 THEN None ELSE s.cost]
  BY DEF EntryOf
<1>6. CASE c.model # m
  <2>1. Added(data, c.model, c.usage, c.cost)[m] = e
    BY <1>3, <1>6 DEF Added, Stats
  <2>2. EntryOf(Append(calls, c), m) = EntryOf(calls, m)
    BY <1>2, <1>6 DEF EntryOf
  <2> QED BY <2>1, <2>2
<1>7. CASE c.model = m
  <2>1. EntryOf(Append(calls, c), m) =
            [usage |-> [prompt |-> w.prompt, completion |-> w.completion],
             cost  |-> IF w.priced = 0 THEN None ELSE w.cost]
    BY <1>2, <1>4, <1>7 DEF EntryOf
  <2>2. /\ w.prompt = s.prompt + c.usage.prompt
        /\ w.completion = s.completion + c.usage.completion
        /\ w.priced = s.priced + (IF c.cost = None THEN 0 ELSE 1)
        /\ w.cost = s.cost + (IF c.cost = None THEN 0 ELSE c.cost)
    BY DEF WithCall
  <2>3. /\ s.prompt \in Nat /\ s.completion \in Nat /\ s.priced \in Nat /\ s.cost \in Nat
        /\ (s.priced = 0 => s.cost = 0)
        /\ (s.calls = 0 => s.prompt = 0 /\ s.completion = 0 /\ s.priced = 0 /\ s.cost = 0)
    BY <1>1 DEF SumsFine, NoSums
  <2> HIDE DEF s, w
  <2>4. CASE s.calls = 0
    <3>1. Added(data, c.model, c.usage, c.cost)[m] = [usage |-> c.usage, cost |-> c.cost]
      BY <1>3, <1>5, <1>7, <2>4 DEF Added, Stats
    <3>2. w.prompt = c.usage.prompt /\ w.completion = c.usage.completion
          /\ (IF w.priced = 0 THEN None ELSE w.cost) = c.cost
      BY <1>3, <2>2, <2>3, <2>4
    <3> QED BY <1>3, <2>1, <3>1, <3>2
  <2>5. CASE s.calls # 0
    <3> DEFINE sc == IF s.priced = 0 THEN None ELSE s.cost
    <3>1. e = [usage |-> [prompt |-> s.prompt, completion |-> s.completion], cost |-> sc]
      BY <1>5, <2>5
    <3>2. sc \in Nat \cup {None} /\ Zero(sc) = s.cost
      BY <2>3, NoneAssumption DEF Zero
    <3>3. e # None
      <4>1. e \in Entry
        BY <2>3, <3>1, <3>2 DEF Entry, Usage
      <4> QED BY <4>1, NoneAssumption
    <3>4. Added(data, c.model, c.usage, c.cost)[m] =
            [usage |-> [prompt     |-> s.prompt + c.usage.prompt,
                        completion |-> s.completion + c.usage.completion],
             cost  |-> PlusCost(sc, c.cost)]
      <4> HIDE DEF sc
      <4> QED BY <1>3, <1>7, <3>1, <3>3 DEF Added, Stats
    <3>5. PlusCost(sc, c.cost) = IF w.priced = 0 THEN None ELSE w.cost
      <4>1. CASE c.cost = None /\ s.priced = 0
        BY <2>2, <2>3, <4>1 DEF PlusCost
      <4>2. CASE c.cost = None /\ s.priced # 0
        BY <2>2, <2>3, <3>2, <4>2, NoneAssumption DEF PlusCost, Zero
      <4>3. CASE c.cost # None
        BY <1>3, <2>2, <2>3, <3>2, <4>3, NoneAssumption DEF PlusCost, Zero
      <4> QED BY <4>1, <4>2, <4>3
    <3> QED BY <2>1, <2>2, <3>4, <3>5
  <2> QED BY <2>4, <2>5
<1> QED BY <1>6, <1>7

-----------------------------------------------------------------------------
(* The statistics are the sums                                             *)

\* A part of the ledger does not see a call that is appended behind it.
LEMMA LedgerParts ==
    ASSUME NEW calls \in Seq(Calls), NEW c \in Calls, NEW k \in 0..Len(calls)
    PROVE  /\ SubSeq(Append(calls, c), 1, k) = SubSeq(calls, 1, k)
           /\ SubSeq(calls, k + 1, Len(calls)) \in Seq(Calls)
           /\ SubSeq(Append(calls, c), k + 1, Len(calls) + 1)
                = Append(SubSeq(calls, k + 1, Len(calls)), c)
<1> DEFINE more == Append(calls, c)
           n == Len(calls)
<1>1. /\ n \in Nat /\ k \in Nat /\ k <= n /\ more \in Seq(Calls) /\ Len(more) = n + 1
      /\ \A i \in 1..n : more[i] = calls[i] /\ calls[i] \in Calls
      /\ more[n + 1] = c
  BY AppendProperties, LenProperties, ElementOfSeq
<1> HIDE DEF more, n
<1>2. SubSeq(more, 1, k) = SubSeq(calls, 1, k)
  <2>1. \A i \in 1..k : more[i] \in Calls /\ calls[i] \in Calls /\ more[i] = calls[i]
    BY <1>1
  <2>2. /\ SubSeq(more, 1, k) \in Seq(Calls) /\ SubSeq(calls, 1, k) \in Seq(Calls)
        /\ Len(SubSeq(more, 1, k)) = k /\ Len(SubSeq(calls, 1, k)) = k
        /\ \A i \in 1..k : SubSeq(more, 1, k)[i] = more[1 + i - 1]
        /\ \A i \in 1..k : SubSeq(calls, 1, k)[i] = calls[1 + i - 1]
    BY <1>1, <2>1, SubSeqProperties
  <2>3. \A i \in 1..k : SubSeq(more, 1, k)[i] = SubSeq(calls, 1, k)[i]
    BY <1>1, <2>1, <2>2
  <2> QED BY <2>2, <2>3, SeqEqual
<1>3. SubSeq(calls, k + 1, n) \in Seq(Calls) /\ Len(SubSeq(calls, k + 1, n)) = n - k
      /\ \A i \in 1..(n - k) : SubSeq(calls, k + 1, n)[i] = calls[k + i]
  <2>1. \A i \in (k + 1)..n : calls[i] \in Calls
    BY <1>1
  <2>2. SubSeq(calls, k + 1, n) \in Seq(Calls)
        /\ Len(SubSeq(calls, k + 1, n)) = (IF k + 1 <= n THEN n - (k + 1) + 1 ELSE 0)
        /\ \A i \in 1..(n - (k + 1) + 1) : SubSeq(calls, k + 1, n)[i] = calls[(k + 1) + i - 1]
    BY <1>1, <2>1, SubSeqProperties
  <2>3. n - (k + 1) + 1 = n - k /\ \A i \in 1..(n - k) : (k + 1) + i - 1 = k + i
    BY <1>1
  <2> QED BY <1>1, <2>2, <2>3
<1>4. SubSeq(more, k + 1, n + 1) \in Seq(Calls) /\ Len(SubSeq(more, k + 1, n + 1)) = n + 1 - k
      /\ \A i \in 1..(n + 1 - k) : SubSeq(more, k + 1, n + 1)[i] = more[k + i]
  <2>1. \A i \in (k + 1)..(n + 1) : more[i] \in Calls
    BY <1>1
  <2>2. SubSeq(more, k + 1, n + 1) \in Seq(Calls)
        /\ Len(SubSeq(more, k + 1, n + 1))
             = (IF k + 1 <= n + 1 THEN n + 1 - (k + 1) + 1 ELSE 0)
        /\ \A i \in 1..(n + 1 - (k + 1) + 1) :
             SubSeq(more, k + 1, n + 1)[i] = more[(k + 1) + i - 1]
    BY <1>1, <2>1, SubSeqProperties
  <2>3. n + 1 - (k + 1) + 1 = n + 1 - k /\ \A i \in 1..(n + 1 - k) : (k + 1) + i - 1 = k + i
    BY <1>1
  <2> QED BY <1>1, <2>2, <2>3
<1> DEFINE part == SubSeq(calls, k + 1, n)
           long == SubSeq(more, k + 1, n + 1)
<1>5. /\ Append(part, c) \in Seq(Calls) /\ Len(Append(part, c)) = n - k + 1
      /\ \A i \in 1..(n - k) : Append(part, c)[i] = part[i]
      /\ Append(part, c)[n - k + 1] = c
  BY <1>3, AppendProperties
<1>6. \A i \in 1..(n + 1 - k) : long[i] = Append(part, c)[i]
  <2>1. SUFFICES ASSUME NEW i \in 1..(n + 1 - k) PROVE long[i] = Append(part, c)[i]
    OBVIOUS
  <2>2. long[i] = more[k + i]
    BY <1>4
  <2>3. CASE i \in 1..(n - k)
    <3>1. k + i \in 1..n
      BY <1>1, <2>3
    <3> HIDE DEF long, part
    <3>2. part[i] = calls[k + i]
      BY <1>3, <2>3 DEF part
    <3> QED BY <1>1, <1>5, <2>2, <2>3, <3>1, <3>2
  <2>4. CASE i = n + 1 - k
    <3>1. k + i = n + 1 /\ i = n - k + 1
      BY <1>1, <2>4
    <3> HIDE DEF long, part
    <3> QED BY <1>1, <1>5, <2>2, <3>1
  <2>5. i \in 1..(n - k) \/ i = n + 1 - k
    BY <1>1
  <2> QED BY <2>3, <2>4, <2>5
<1>7. Len(long) = Len(Append(part, c)) /\ long \in Seq(Calls) /\ Len(long) = n + 1 - k
  BY <1>1, <1>4, <1>5
<1>8. long = Append(part, c)
  <2> HIDE DEF long, part
  <2> QED BY <1>5, <1>6, <1>7, SeqEqual
<1> QED BY <1>2, <1>3, <1>8 DEF more, n

\* Cutting the ledger where it is cut already changes nothing.
LEMMA LedgerCut ==
    ASSUME NEW calls \in Seq(Calls), NEW k \in 0..Len(calls)
    PROVE  /\ SubSeq(calls, 1, k) \in Seq(Calls) /\ Len(SubSeq(calls, 1, k)) = k
           /\ SubSeq(SubSeq(calls, 1, k), 1, k) = SubSeq(calls, 1, k)
<1>1. Len(calls) \in Nat /\ k \in Nat /\ \A i \in 1..k : calls[i] \in Calls
  BY LenProperties, ElementOfSeq
<1>2. SubSeq(calls, 1, k) \in Seq(Calls) /\ Len(SubSeq(calls, 1, k)) = k
  BY <1>1, SubSeqProperties
<1> QED BY <1>2, SubSeqFull

\* Without a call there are no statistics.
LEMMA EntryEmpty == \A m : EntryOf(<<>>, m) = None
BY SumsEmpty DEF EntryOf, NoSums

\* An action that leaves the statistics alone keeps them the sums.
LEMMA SumsUnchanged ==
    ASSUME SumInv, IInv', UNCHANGED stats PROVE SumInv'
BY DEF SumInv, TotalIsSum, CurrentIsSum, SavedIsSum, stats

\* Every step keeps the statistics the sums over the calls that returned.
LEMMA SumStep ==
    ASSUME SumInv, [Next]_vars PROVE SumInv'
<1>1. IInv /\ IInv'
  BY NextIInv DEF SumInv
<1>2. /\ ledger \in Seq(Calls) /\ Len(ledger) \in Nat /\ mark \in 0..Len(ledger)
      /\ saved.calls \in 0..Len(ledger)
  BY <1>1, LenProperties DEF SumInv, IInv, TypeOK, Calls
<1>3. CASE BeginTurn
  <2>1. /\ current' = NoStats /\ mark' = Len(ledger)
        /\ UNCHANGED <<total, saved, ledger>>
    BY <1>3 DEF BeginTurn
  <2>2. SubSeq(ledger, mark' + 1, Len(ledger)) = <<>>
    BY <1>2, <2>1, SubSeqEmpty
  <2>3. CurrentIsSum'
    BY <2>1, <2>2, EntryEmpty DEF CurrentIsSum, NoStats
  <2>4. TotalIsSum' /\ SavedIsSum'
    BY <2>1 DEF SumInv, TotalIsSum, SavedIsSum
  <2> QED BY <1>1, <1>2, <2>1, <2>3, <2>4 DEF SumInv
<1>4. CASE Complete
  <2> DEFINE c == [model |-> Model, usage |-> said.usage,
                   cost  |-> Estimate(pricing[Model], said.usage)]
  <2>1. usage = said.usage
    BY <1>1, <1>4 DEF Complete, AtEnd, IInv, LocalsTrack, Running
  <2>2. /\ total' = Added(total, c.model, c.usage, c.cost)
        /\ current' = Added(current, c.model, c.usage, c.cost)
        /\ ledger' = Append(ledger, c) /\ UNCHANGED <<saved, mark>>
    BY <1>4, <2>1 DEF Complete
  <2>3. c \in Calls
    <3>1. Model \in Models /\ said.usage \in Usage
      BY <1>1 DEF IInv, TypeOK, Model, Models
    <3>2. pricing[Model] \in Rate \cup {None}
      BY <1>1, <3>1 DEF IInv, TypeOK
    <3>3. Estimate(pricing[Model], said.usage) \in Nat \cup {None}
      BY <3>1, <3>2, EstimateType
    <3> QED BY <3>1, <3>3 DEF Calls
  <2> HIDE DEF c
  <2>4. Len(ledger') = Len(ledger) + 1
    BY <1>2, <2>2, <2>3, AppendProperties
  <2>5. total \in Stats /\ current \in Stats
    BY <1>1 DEF IInv, TypeOK
  <2>6. TotalIsSum'
    BY <1>2, <2>2, <2>3, <2>5, EntryAppended DEF SumInv, TotalIsSum
  <2>7. CurrentIsSum'
    <3> DEFINE own == SubSeq(ledger, mark + 1, Len(ledger))
    <3>1. own \in Seq(Calls) /\ SubSeq(ledger', mark' + 1, Len(ledger')) = Append(own, c)
      BY <1>2, <2>2, <2>3, <2>4, LedgerParts
    <3>2. \A m \in Models : current[m] = EntryOf(own, m)
      BY DEF SumInv, CurrentIsSum
    <3> HIDE DEF own
    <3>3. \A m \in Models : current'[m] = EntryOf(Append(own, c), m)
      BY <2>2, <2>3, <2>5, <3>1, <3>2, EntryAppended
    <3> QED BY <3>1, <3>3 DEF CurrentIsSum
  <2>8. SavedIsSum'
    <3>1. SubSeq(ledger', 1, saved'.calls) = SubSeq(ledger, 1, saved.calls)
      BY <1>2, <2>2, <2>3, LedgerParts
    <3> QED BY <2>2, <3>1 DEF SumInv, SavedIsSum
  <2> QED BY <1>1, <1>2, <2>2, <2>4, <2>6, <2>7, <2>8 DEF SumInv
<1>5. CASE EndTurn
  <2>1. /\ UNCHANGED <<total, current, ledger, mark>>
        /\ saved' = saved \/ saved' = [stats |-> total, calls |-> Len(ledger)]
    BY <1>5 DEF EndTurn
  <2>2. SubSeq(ledger, 1, Len(ledger)) = ledger
    BY <1>2, SubSeqFull
  <2>3. SavedIsSum'
    <3>1. CASE saved' = saved
      BY <2>1, <3>1 DEF SumInv, SavedIsSum
    <3>2. CASE saved' = [stats |-> total, calls |-> Len(ledger)]
      BY <2>1, <2>2, <3>2 DEF SumInv, SavedIsSum, TotalIsSum
    <3> QED BY <2>1, <3>1, <3>2
  <2>4. TotalIsSum' /\ CurrentIsSum'
    BY <2>1 DEF SumInv, TotalIsSum, CurrentIsSum
  <2> QED BY <1>1, <2>1, <2>3, <2>4 DEF SumInv
<1>6. CASE Restart
  <2>1. /\ total' = saved.stats /\ current' = NoStats /\ saved' = saved
        /\ ledger' = SubSeq(ledger, 1, saved.calls) /\ mark' = saved.calls
    BY <1>6 DEF Restart
  <2>2. /\ Len(ledger') = saved.calls
        /\ SubSeq(ledger', 1, saved.calls) = ledger'
    BY <1>2, <2>1, LedgerCut
  <2>3. TotalIsSum' /\ SavedIsSum'
    BY <2>1, <2>2 DEF SumInv, TotalIsSum, SavedIsSum
  <2>4. SubSeq(ledger', mark' + 1, Len(ledger')) = <<>>
    BY <1>2, <2>1, <2>2, SubSeqEmpty
  <2>5. CurrentIsSum'
    BY <2>1, <2>4, EntryEmpty DEF CurrentIsSum, NoStats
  <2>6. mark' <= Len(ledger')
    BY <1>2, <2>1, <2>2
  <2> QED BY <1>1, <2>3, <2>5, <2>6 DEF SumInv
<1>7. CASE UNCHANGED stats
  BY <1>1, <1>7, SumsUnchanged
<1>8. BeginTurn \/ Complete \/ EndTurn \/ Restart \/ UNCHANGED stats
  BY DEF Next, Summarise, StreamOpens, Chunk, NextChunk, Response, CompleteFails, CallFails,
         TurnFails, vars, stats
<1> QED BY <1>3, <1>4, <1>5, <1>6, <1>7, <1>8

\* No call has returned.
LEMMA SumInit == Init => SumInv
<1> SUFFICES ASSUME Init PROVE SumInv
  OBVIOUS
<1>1. SubSeq(<<>>, 0 + 1, Len(<<>>)) = <<>> /\ SubSeq(<<>>, 1, 0) = <<>>
  <2>1. Len(<<>>) = 0
    OBVIOUS
  <2> QED BY <2>1, SubSeqEmpty
<1>2. TotalIsSum /\ CurrentIsSum /\ SavedIsSum
  BY <1>1, EntryEmpty DEF Init, TotalIsSum, CurrentIsSum, SavedIsSum, NoStats
<1> QED BY <1>2, InitIInv DEF Init, SumInv

\* The statistics of a session are the sums over the calls that returned in its life, for
\* any order of chunks, failed turns and saves, restarts and prices.
THEOREM TotalIsSumHolds == Spec => []TotalIsSum
<1>1. SumInv /\ [Next]_vars => SumInv'
  BY SumStep
<1>2. SumInv => TotalIsSum
  BY DEF SumInv
<1> QED BY <1>1, <1>2, SumInit, PTL DEF Spec

\* Those a turn reports are the sums over the calls of this turn.
THEOREM CurrentIsSumHolds == Spec => []CurrentIsSum
<1>1. SumInv /\ [Next]_vars => SumInv'
  BY SumStep
<1>2. SumInv => CurrentIsSum
  BY DEF SumInv
<1> QED BY <1>1, <1>2, SumInit, PTL DEF Spec
=============================================================================
