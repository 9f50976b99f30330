------------------------- MODULE SessionFilesProofs -------------------------
(***************************************************************************)
(* For every value of the constants of SessionFiles: its types and its     *)
(* three invariants, from one inductive invariant that says what each file *)
(* of the directory may hold while a save is under way, and after.         *)
(***************************************************************************)
EXTENDS SessionFiles, TLAPS

-----------------------------------------------------------------------------
(* The inductive invariant                                                 *)

\* A config of the session for a role whose prompt was m at first
Good(c, m) ==
    \/ c.prompt = m /\ (c.path = None \/ (Truthy(m) /\ c.path = Hash[m]))
    \/ /\ "torn" \in damage /\ c.prompt \in {Empty, Cut}
       /\ Truthy(m) /\ c.path = Hash[m]

\* The same in session_info
GoodStored(c, m) ==
    \/ ~Truthy(m) /\ c.prompt = m /\ c.path = None
    \/ Truthy(m) /\ c.path = Hash[m]

\* What else the file f may hold: what a write that stopped has left of it, or one
\* that is going on
Partial(f) ==
    IF "torn" \in damage \/ (Saving /\ op.open /\ Target(op.configs, op.at) = f)
    THEN {Empty, Cut} ELSE {}

OpOK ==
    /\ ~dir => files = NoFiles /\ session = None /\ op = None
    /\ op = Removal => "removed" \in damage /\ session = None
    /\ Saving /\ op.open => op.at # "end"
    /\ Saving /\ op.open /\ op.at \in Roles => Truthy(op.configs[op.at].prompt)

ConfigsGood ==
    \A r \in Roles :
        /\ session # None => Good(session[r], made[r])
        /\ Saving => Good(op.configs[r], made[r])

PromptFiles ==
    \A r \in Roles :
        Truthy(made[r]) =>
            files[Hash[made[r]]] \in {None, made[r]} \cup Partial(Hash[made[r]])

InfoFile ==
    /\ files[Info] \in {None} \cup Saveable \cup Partial(Info)
    /\ files[Info] \in Saveable => \A r \in Roles : GoodStored(files[Info][r], made[r])

MessagesFile == files[Messages] \in {None, Rest} \cup Partial(Messages)

\* Has the running save passed the prompt of r?
Passed(r) == op.at \in {"info", "messages", "end"} \/ (r = "chat" /\ op.at = "strategy")

\* What must be there already
Ordered ==
    "removed" \notin damage =>
        /\ \A r \in Roles :
            /\ Truthy(made[r])
            /\ \/ files[Info] \in Saveable
               \/ session # None /\ session[r].path # None
               \/ Saving /\ (op.configs[r].path # None \/ Passed(r))
            => files[Hash[made[r]]] # None
        /\ files[Messages] # None \/ (Saving /\ op.at \in {"messages", "end"})
            => files[Info] # None

IInv ==
    /\ TypeOK /\ OpOK /\ ConfigsGood
    /\ PromptFiles /\ InfoFile /\ MessagesFile /\ Ordered

-----------------------------------------------------------------------------
(* The files of a save                                                     *)

\* A prompt that is not empty is one of the given ones, and has a file
LEMMA PromptHasFile ==
    ASSUME NEW m \in (Texts \ {Cut}) \cup {None}, Truthy(m)
    PROVE  m \in Prompts /\ Hash[m] \in Names /\ Hash[m] # None
BY DistinctAssumption, HashAssumption DEF Truthy, Texts

\* The file of a prompt that is written is the one its own original has
LEMMA FileOfGood ==
    ASSUME TypeOK, NEW c \in Config, NEW m \in (Texts \ {Cut}) \cup {None}, Good(c, m),
           Truthy(c.prompt)
    PROVE  /\ Truthy(m) /\ FileOf(c) = Hash[m]
           /\ c.prompt = m \/ ("torn" \in damage /\ c.prompt \in {Empty, Cut})
<1>1. CASE c.prompt = m
  <2>1. Truthy(m)
    BY <1>1
  <2> QED BY <1>1, <2>1, PromptHasFile DEF Good, FileOf
<1>2. CASE c.prompt # m
  BY <1>2, PromptHasFile DEF Good, FileOf
<1> QED BY <1>1, <1>2

\* What is stored of a good config is good
LEMMA StoredGood ==
    ASSUME TypeOK, NEW c \in Config, NEW m \in (Texts \ {Cut}) \cup {None}, Good(c, m)
    PROVE  /\ GoodStored(Stored(c), m)
           /\ Stored(c) \in Config /\ Stored(c).schema = c.schema
<1>1. CASE Truthy(c.prompt)
  <2>1. Truthy(m) /\ FileOf(c) = Hash[m]
    BY <1>1, FileOfGood
  <2>2. Stored(c) = [c EXCEPT !.prompt = None, !.path = Hash[m]]
    BY <1>1, <2>1 DEF Stored
  <2>3. Hash[m] \in Names
    BY <2>1, PromptHasFile
  <2> QED BY <2>1, <2>2, <2>3 DEF GoodStored, Config
<1>2. CASE ~Truthy(c.prompt)
  <2>1. Stored(c) = c
    BY <1>2 DEF Stored
  <2> QED BY <1>2, <2>1 DEF Good, GoodStored
<1> QED BY <1>1, <1>2

\* Two files of the directory are different ones
LEMMA FilesDiffer ==
    /\ Names \subseteq Files /\ Info \in Files /\ Messages \in Files
    /\ Info # Messages /\ Info \notin Names /\ Messages \notin Names
BY DistinctAssumption DEF Files

\* What a file may hold is told apart
LEMMA ContentsDiffer ==
    /\ None \notin Texts /\ None # Rest /\ None \notin Saveable /\ Rest \notin Saveable
    /\ Empty \notin Saveable /\ Cut \notin Saveable /\ Rest \notin {Empty, Cut}
    /\ Empty \in Texts /\ Cut \in Texts /\ \A p \in Prompts : p \in Texts
    /\ None \notin Save /\ Removal \notin Save /\ Removal # None
<1>1. Removal \notin Save
  <2>1. \A x \in Save : x.at # "remove"
    BY DEF Save, Roles
  <2> QED BY <2>1 DEF Removal
<1> QED BY <1>1, DistinctAssumption DEF Contents, Texts

LEMMA InitIInv == Init => IInv
<1> SUFFICES ASSUME Init PROVE IInv
  OBVIOUS
<1>1. TypeOK
  BY DEF Init, TypeOK, NoFiles, Roles
<1>2. \A f \in Files : files[f] = None
  BY DEF Init, NoFiles
<1>3. ~Saving
  BY ContentsDiffer DEF Init, Saving
<1>4. \A r \in Roles : ~Truthy(made[r])
  BY DEF Init, Truthy
<1>5. OpOK
  BY <1>3, ContentsDiffer DEF Init, OpOK
<1>6. PromptFiles /\ ConfigsGood
  BY <1>3, <1>4 DEF Init, PromptFiles, ConfigsGood
<1>7. InfoFile /\ MessagesFile /\ Ordered
  BY <1>2, <1>3, <1>4, FilesDiffer, ContentsDiffer DEF InfoFile, MessagesFile, Ordered
<1> QED BY <1>1, <1>5, <1>6, <1>7 DEF IInv

-----------------------------------------------------------------------------
(* The steps that leave the files alone                                    *)

\* If none of them could be partial before and not now, what each may hold stays true
LEMMA FilesKept ==
    ASSUME IInv, UNCHANGED <<files, made>>, \A f \in Files : Partial(f) \subseteq Partial(f)'
    PROVE  PromptFiles' /\ InfoFile' /\ MessagesFile'
<1>1. PromptFiles'
  <2> SUFFICES ASSUME NEW r \in Roles, Truthy(made[r])
               PROVE  files[Hash[made[r]]] \in {None, made[r]} \cup Partial(Hash[made[r]])'
    BY DEF PromptFiles
  <2>1. files[Hash[made[r]]] \in {None, made[r]} \cup Partial(Hash[made[r]])
    BY DEF IInv, PromptFiles
  <2>2. Hash[made[r]] \in Files
    BY PromptHasFile, FilesDiffer DEF IInv, TypeOK
  <2> QED BY <2>1, <2>2
<1>2. InfoFile'
  BY FilesDiffer DEF IInv, InfoFile, GoodStored
<1>3. MessagesFile'
  BY FilesDiffer DEF IInv, MessagesFile
<1> QED BY <1>1, <1>2, <1>3

\* A save that stops with a file open leaves it torn, and any other none
LEMMA TornKeeps ==
    ASSUME damage' = Torn
    PROVE  /\ damage \subseteq damage' /\ ("removed" \in damage' => "removed" \in damage)
           /\ damage \subseteq {"torn", "removed"} => damage' \subseteq {"torn", "removed"}
           /\ \A f \in Files : Partial(f) \subseteq Partial(f)'
BY DEF Torn, Partial

\* Damage only adds to what a good config may be
LEMMA GoodKept ==
    ASSUME NEW c, NEW m, Good(c, m), damage \subseteq damage'
    PROVE  Good(c, m)'
BY DEF Good

LEMMA CreateStep == IInv /\ Create => IInv'
<1> SUFFICES ASSUME IInv, Create PROVE IInv'
  OBVIOUS
<1> DEFINE configs == [r \in Roles |-> Copied(defaults[r])]
<1>1. /\ op = None /\ session = None /\ ~dir /\ files = NoFiles
      /\ op' = IF \E r \in Roles : configs[r].schema THEN None
                    ELSE [configs |-> configs, at |-> "chat", open |-> FALSE]
      /\ made' = [r \in Roles |-> configs[r].prompt]
      /\ dir' = TRUE /\ damage' = {}
      /\ UNCHANGED <<defaults, session, files>>
  BY DEF Create, IInv, OpOK
<1>2. defaults \in Configs /\ \A r \in Roles : defaults[r].prompt # Cut
  BY DefaultsAssumption DEF IInv, TypeOK
<1>3. \A r \in Roles : /\ configs[r] \in Config /\ configs[r].path = None
                       /\ configs[r].prompt = defaults[r].prompt
                       /\ configs[r].schema = defaults[r].schema
  BY <1>2 DEF Copied, Configs, Config
<1>4. made' \in [Roles -> (Texts \ {Cut}) \cup {None}]
  BY <1>1, <1>2, <1>3 DEF Config
<1>5. op' \in Save \cup {None} /\ (op' # None => op'.configs = configs /\ op'.at = "chat" /\ ~op'.open)
  <2>1. CASE \E r \in Roles : configs[r].schema
    BY <1>1, <2>1
  <2>2. CASE ~\E r \in Roles : configs[r].schema
    <3>1. configs \in Saveable
      BY <1>3, <2>2 DEF Saveable
    <3> HIDE DEF configs
    <3>2. op' = [configs |-> configs, at |-> "chat", open |-> FALSE]
      BY <1>1, <2>2
    <3> QED BY <3>1, <3>2 DEF Save, Roles
  <2> QED BY <2>1, <2>2
<1>6. TypeOK'
  BY <1>1, <1>4, <1>5 DEF IInv, TypeOK
<1>7. Saving' => op' # None
  BY ContentsDiffer DEF Saving
<1>8. OpOK'
  BY <1>1, <1>5, <1>7, ContentsDiffer DEF OpOK
<1>9. ConfigsGood'
  <2> SUFFICES ASSUME NEW r \in Roles, Saving' PROVE Good(op.configs[r], made[r])'
    BY <1>1 DEF ConfigsGood
  <2> QED BY <1>1, <1>3, <1>5, <1>7 DEF Good
<1>10. \A f \in Files : files'[f] = None
  BY <1>1 DEF NoFiles
<1>11. PromptFiles' /\ InfoFile' /\ MessagesFile'
  <2>1. PromptFiles'
    <3> SUFFICES ASSUME NEW r \in Roles, Truthy(made'[r]) PROVE files'[Hash[made'[r]]] = None
      BY DEF PromptFiles, Truthy
    <3>1. made'[r] \in (Texts \ {Cut}) \cup {None}
      BY <1>4
    <3>2. Hash[made'[r]] \in Files
      BY <3>1, PromptHasFile, FilesDiffer
    <3> QED BY <1>10, <3>2
  <2> QED BY <2>1, <1>10, FilesDiffer, ContentsDiffer DEF InfoFile, MessagesFile
<1>12. Ordered'
  <2>1. files'[Info] = None /\ files'[Messages] = None
    BY <1>10, FilesDiffer
  <2>2. Saving' => ~Passed("chat")' /\ ~Passed("strategy")' /\ op'.at = "chat"
    BY <1>5, <1>7 DEF Passed
  <2>3. Saving' => \A r \in Roles : op'.configs[r].path = None
    BY <1>3, <1>5, <1>7
  <2> QED BY <1>1, <2>1, <2>2, <2>3, ContentsDiffer DEF Ordered, Roles
<1> QED BY <1>6, <1>8, <1>9, <1>11, <1>12 DEF IInv

LEMMA UpdateStep == IInv /\ Update => IInv'
<1> SUFFICES ASSUME IInv, Update PROVE IInv'
  OBVIOUS
<1>1. /\ op = None /\ session # None /\ dir
      /\ op' = [configs |-> session, at |-> "chat", open |-> FALSE]
      /\ UNCHANGED <<defaults, session, dir, files, made, damage>>
  BY DEF Update
<1>2. session \in Saveable /\ ~Saving
  BY <1>1, ContentsDiffer DEF IInv, TypeOK, Saving
<1>3. op' \in Save /\ op'.configs = session /\ op'.at = "chat" /\ ~op'.open /\ op' # Removal
  <2>1. op' \in Save /\ op'.configs = session /\ op'.at = "chat" /\ ~op'.open
    BY <1>1, <1>2 DEF Save, Roles
  <2> QED BY <2>1, ContentsDiffer
<1>4. TypeOK'
  BY <1>1, <1>3 DEF IInv, TypeOK
<1>5. OpOK'
  BY <1>1, <1>3 DEF OpOK
<1>6. ConfigsGood'
  BY <1>1, <1>3 DEF IInv, ConfigsGood, Good
<1>7. \A f \in Files : Partial(f) \subseteq Partial(f)'
  BY <1>1, <1>2 DEF Partial
<1>8. Ordered'
  <2>1. ~Passed("chat")' /\ ~Passed("strategy")'
    BY <1>3 DEF Passed
  <2> QED BY <1>1, <1>3, <2>1 DEF IInv, Ordered, Roles
<1> QED BY <1>1, <1>4, <1>5, <1>6, <1>7, <1>8, FilesKept DEF IInv

LEMMA SavedStep == IInv /\ Saved => IInv'
<1> SUFFICES ASSUME IInv, Saved PROVE IInv'
  OBVIOUS
<1>1. /\ op \in Save /\ op.at = "end" /\ session' = op.configs /\ op' = None
      /\ UNCHANGED <<defaults, dir, files, made, damage>>
  BY DEF Saved, Saving
<1>2. session' \in Saveable /\ ~Saving'
  BY <1>1, ContentsDiffer DEF Save, Saving
<1>3. TypeOK'
  BY <1>1, <1>2 DEF IInv, TypeOK
<1>4. OpOK'
  BY <1>1, <1>2, ContentsDiffer DEF IInv, OpOK
<1>5. ConfigsGood'
  BY <1>1, <1>2 DEF IInv, ConfigsGood, Good, Saving
<1>6. \A f \in Files : Partial(f) \subseteq Partial(f)'
  BY <1>1 DEF Partial, IInv, OpOK
<1>7. Ordered'
  BY <1>1, <1>2 DEF IInv, Ordered, Saving
<1> QED BY <1>1, <1>3, <1>4, <1>5, <1>6, <1>7, FilesKept DEF IInv

LEMMA SkipStep == IInv /\ Skip => IInv'
<1> SUFFICES ASSUME IInv, Skip PROVE IInv'
  OBVIOUS
<1>1. /\ op \in Save /\ op.at \in Roles /\ ~Truthy(op.configs[op.at].prompt)
      /\ op' = [op EXCEPT !.at = After[op.at]]
      /\ UNCHANGED <<defaults, session, dir, files, made, damage>>
  BY DEF Skip, Saving
<1>2. /\ op' \in Save /\ op'.configs = op.configs /\ op'.open = op.open /\ ~op.open
      /\ op.at = "chat" => op'.at = "strategy"
      /\ op.at = "strategy" => op'.at = "info"
  BY <1>1 DEF After, Save, Roles, IInv, OpOK, Saving
<1>3. TypeOK'
  BY <1>1, <1>2 DEF IInv, TypeOK
<1>4. OpOK'
  BY <1>1, <1>2, ContentsDiffer DEF IInv, OpOK, Saving
<1>5. ConfigsGood'
  BY <1>1, <1>2 DEF IInv, ConfigsGood, Good, Saving
<1>6. \A f \in Files : Partial(f) \subseteq Partial(f)'
  BY <1>1, <1>2 DEF Partial
<1>7. Truthy(made[op.at]) => op.configs[op.at].path # None
  BY <1>1, PromptHasFile DEF IInv, TypeOK, ConfigsGood, Saving, Good
<1>8. Ordered'
  BY <1>1, <1>2, <1>7 DEF IInv, Ordered, Saving, Passed, Roles
<1> QED BY <1>1, <1>3, <1>4, <1>5, <1>6, <1>8, FilesKept DEF IInv

LEMMA SaveFailsStep == IInv /\ SaveFails => IInv'
<1> SUFFICES ASSUME IInv, SaveFails PROVE IInv'
  OBVIOUS
<1>1. /\ op \in Save /\ op' = None /\ damage' = Torn
      /\ UNCHANGED <<defaults, session, dir, files, made>>
  BY DEF SaveFails, Saving
<1>2. ~Saving'
  BY <1>1, ContentsDiffer DEF Saving
<1>3. TypeOK'
  BY <1>1, TornKeeps DEF IInv, TypeOK
<1>4. OpOK'
  BY <1>1, <1>2, ContentsDiffer DEF IInv, OpOK
<1>5. ConfigsGood'
  BY <1>1, <1>2, TornKeeps, GoodKept DEF IInv, ConfigsGood
<1>6. Ordered'
  BY <1>1, <1>2, TornKeeps DEF IInv, Ordered
<1> QED BY <1>1, <1>3, <1>4, <1>5, <1>6, TornKeeps, FilesKept DEF IInv

LEMMA RestartStep == IInv /\ Restart => IInv'
<1> SUFFICES ASSUME IInv, Restart PROVE IInv'
  OBVIOUS
<1>1. /\ session' = None /\ op' = None /\ defaults' \in Defaults /\ damage' = Torn
      /\ UNCHANGED <<dir, files, made>>
  BY DEF Restart
<1>2. ~Saving'
  BY <1>1, ContentsDiffer DEF Saving
<1>3. TypeOK'
  BY <1>1, TornKeeps DEF IInv, TypeOK
<1>4. OpOK' /\ ConfigsGood'
  BY <1>1, <1>2, ContentsDiffer DEF IInv, OpOK, ConfigsGood
<1>5. Ordered'
  BY <1>1, <1>2, TornKeeps DEF IInv, Ordered
<1> QED BY <1>1, <1>3, <1>4, <1>5, TornKeeps, FilesKept DEF IInv

LEMMA LoadStep == IInv /\ Load => IInv'
<1> SUFFICES ASSUME IInv, Load PROVE IInv'
  OBVIOUS
<1>1. /\ op = None /\ session = None /\ dir /\ files[Info] \in Saveable
      /\ \A r \in Roles : files[Info][r].path # None => files[files[Info][r].path] # None
      /\ session' = [r \in Roles |-> Resolved(files[Info][r])]
      /\ UNCHANGED <<defaults, dir, files, op, made, damage>>
  BY DEF Load, Readable
<1>2. ~Saving /\ ~Saving'
  BY <1>1, ContentsDiffer DEF Saving
<1>3. ASSUME NEW r \in Roles
      PROVE  /\ session'[r] \in {c \in Config : ~c.schema}
             /\ Good(session'[r], made[r]) /\ session'[r].path = files[Info][r].path
  <2> DEFINE c == files[Info][r]
             m == made[r]
  <2>1. c \in Config /\ ~c.schema /\ session'[r] = Resolved(c)
    BY <1>1 DEF Saveable
  <2>2. m \in (Texts \ {Cut}) \cup {None} /\ GoodStored(c, m)
    BY <1>1 DEF IInv, TypeOK, InfoFile
  <2>3. CASE ~Truthy(m) /\ c.prompt = m /\ c.path = None
    BY <2>1, <2>3 DEF Resolved, Good
  <2>4. CASE Truthy(m) /\ c.path = Hash[m]
    <3>1. m \in Prompts /\ Hash[m] \in Names /\ Hash[m] # None
      BY <2>2, <2>4, PromptHasFile
    <3>2. files[Hash[m]] # None
      BY <1>1, <2>4, <3>1
    <3>3. files[Hash[m]] = m \/ ("torn" \in damage /\ files[Hash[m]] \in {Empty, Cut})
      BY <1>2, <2>4, <3>2 DEF IInv, PromptFiles, Partial
    <3>4. Resolved(c) = [c EXCEPT !.prompt = files[Hash[m]]]
      BY <2>4, <3>1 DEF Resolved
    <3>5. files[Hash[m]] \in Texts
      BY <3>1, <3>3, ContentsDiffer
    <3> QED BY <2>1, <2>4, <3>3, <3>4, <3>5 DEF Good, Config
  <2> QED BY <2>2, <2>3, <2>4 DEF GoodStored
<1>4. session' \in Saveable /\ session' # None
  <2>1. session' \in Saveable
    BY <1>1, <1>3 DEF Saveable
  <2> QED BY <2>1, ContentsDiffer
<1>5. TypeOK'
  BY <1>1, <1>4 DEF IInv, TypeOK
<1>6. OpOK'
  BY <1>1, <1>2, ContentsDiffer DEF IInv, OpOK
<1>7. ConfigsGood'
  <2>1. \A r \in Roles : Good(session[r], made[r])'
    BY <1>1, <1>3 DEF Good
  <2> QED BY <1>1, <1>2, <2>1 DEF ConfigsGood
<1>8. \A f \in Files : Partial(f) \subseteq Partial(f)'
  BY <1>1 DEF Partial, Saving
<1>9. Ordered'
  BY <1>1, <1>2 DEF IInv, Ordered
<1> QED BY <1>1, <1>5, <1>6, <1>7, <1>8, <1>9, FilesKept DEF IInv

LEMMA DeleteStep == IInv /\ Delete => IInv'
<1> SUFFICES ASSUME IInv, Delete PROVE IInv'
  OBVIOUS
<1>1. /\ op = None /\ dir /\ session' = None /\ op' = Removal
      /\ damage' = damage \cup {"removed"}
      /\ UNCHANGED <<defaults, dir, files, made>>
  BY DEF Delete
<1>2. ~Saving /\ ~Saving'
  BY <1>1, ContentsDiffer DEF Saving
<1>3. TypeOK'
  BY <1>1 DEF IInv, TypeOK
<1>4. OpOK' /\ ConfigsGood'
  BY <1>1, <1>2 DEF OpOK, ConfigsGood
<1>5. \A f \in Files : Partial(f) \subseteq Partial(f)'
  BY <1>1, <1>2 DEF Partial
<1>6. Ordered'
  BY <1>1 DEF Ordered
<1> QED BY <1>1, <1>3, <1>4, <1>5, <1>6, FilesKept DEF IInv

LEMMA RemoveFailsStep == IInv /\ RemoveFails => IInv'
<1> SUFFICES ASSUME IInv, RemoveFails PROVE IInv'
  OBVIOUS
<1>1. /\ op = Removal /\ op' = None
      /\ UNCHANGED <<defaults, session, dir, files, made, damage>>
  BY DEF RemoveFails
<1>2. ~Saving /\ ~Saving' /\ "removed" \in damage /\ session = None /\ op' # Removal
  BY <1>1, ContentsDiffer DEF Saving, IInv, OpOK
<1>3. TypeOK' /\ OpOK'
  BY <1>1, <1>2 DEF IInv, TypeOK, OpOK
<1>4. ConfigsGood' /\ Ordered'
  BY <1>1, <1>2 DEF ConfigsGood, Ordered
<1>5. \A f \in Files : Partial(f) \subseteq Partial(f)'
  BY <1>1, <1>2 DEF Partial
<1> QED BY <1>1, <1>3, <1>4, <1>5, FilesKept DEF IInv

-----------------------------------------------------------------------------
(* The steps that change a file                                            *)

LEMMA RemoveEntryStep == IInv /\ RemoveEntry => IInv'
<1> SUFFICES ASSUME IInv, RemoveEntry PROVE IInv'
  OBVIOUS
<1>1. /\ op = Removal /\ UNCHANGED <<defaults, session, made, damage>>
      /\ \/ files = NoFiles /\ dir' = FALSE /\ op' = None /\ UNCHANGED files
         \/ /\ UNCHANGED <<dir, op>>
            /\ \E f \in Files : files[f] # None /\ files' = [files EXCEPT ![f] = None]
  BY DEF RemoveEntry
<1>2. ~Saving /\ ~Saving' /\ "removed" \in damage /\ session = None
  BY <1>1, ContentsDiffer DEF Saving, IInv, OpOK
<1>3. files' \in [Files -> Contents \cup {None}] /\ \A f \in Files : files'[f] \in {files[f], None}
  BY <1>1 DEF IInv, TypeOK
<1>4. TypeOK'
  BY <1>1, <1>3 DEF IInv, TypeOK
<1>5. dir
  BY <1>1, ContentsDiffer DEF IInv, OpOK
<1>6. OpOK'
  BY <1>1, <1>2, <1>5, ContentsDiffer DEF IInv, OpOK
<1>7. ConfigsGood' /\ Ordered'
  BY <1>1, <1>2 DEF ConfigsGood, Ordered
<1>8. \A f \in Files : Partial(f)' = Partial(f)
  BY <1>1, <1>2 DEF Partial
<1>9. PromptFiles'
  <2> SUFFICES ASSUME NEW r \in Roles, Truthy(made[r])
               PROVE  files'[Hash[made[r]]] \in {None, made[r]} \cup Partial(Hash[made[r]])'
    BY <1>1 DEF PromptFiles
  <2>1. Hash[made[r]] \in Files
    BY PromptHasFile, FilesDiffer DEF IInv, TypeOK
  <2>2. files[Hash[made[r]]] \in {None, made[r]} \cup Partial(Hash[made[r]])
    BY DEF IInv, PromptFiles
  <2> QED BY <1>1, <1>3, <1>8, <2>1, <2>2
<1>10. InfoFile'
  BY <1>1, <1>3, <1>8, FilesDiffer, ContentsDiffer DEF IInv, InfoFile, GoodStored
<1>11. MessagesFile'
  BY <1>3, <1>8, FilesDiffer DEF IInv, MessagesFile
<1> QED BY <1>4, <1>6, <1>7, <1>9, <1>10, <1>11 DEF IInv

\* The file of the step a save is at
LEMMA TargetOf ==
    ASSUME IInv, Saving, op.at # "end",
           op.at \in Roles => Truthy(op.configs[op.at].prompt)
    PROVE  LET f == Target(op.configs, op.at)
               text == Written(op.configs, op.at)
           IN  /\ f \in Files /\ text \in Contents /\ text # None
               /\ op.at \in Roles =>
                    /\ f = Hash[made[op.at]] /\ f \in Names /\ Truthy(made[op.at])
                    /\ text = made[op.at] \/ ("torn" \in damage /\ text \in {Empty, Cut})
               /\ op.at = "info" =>
                    /\ f = Info /\ text \in Saveable
                    /\ \A r \in Roles : GoodStored(text[r], made[r])
               /\ op.at = "messages" => f = Messages /\ text = Rest
<1>1. op \in Save /\ op.configs \in Saveable
  BY DEF Saving, Save
<1>2. \A r \in Roles : /\ op.configs[r] \in Config /\ ~op.configs[r].schema
                       /\ Good(op.configs[r], made[r])
                       /\ made[r] \in (Texts \ {Cut}) \cup {None}
  BY <1>1 DEF Saveable, IInv, ConfigsGood, TypeOK
<1>3. CASE op.at \in Roles
  <2> DEFINE c == op.configs[op.at]
             m == made[op.at]
  <2>1. Target(op.configs, op.at) = FileOf(c) /\ Written(op.configs, op.at) = c.prompt
    BY <1>3 DEF Target, Written, Roles
  <2>2. /\ Truthy(m) /\ FileOf(c) = Hash[m]
        /\ c.prompt = m \/ ("torn" \in damage /\ c.prompt \in {Empty, Cut})
    BY <1>2, <1>3, FileOfGood DEF IInv
  <2>3. m \in Prompts /\ Hash[m] \in Names
    BY <1>2, <1>3, <2>2, PromptHasFile
  <2>4. c.prompt \in Texts
    BY <2>2, <2>3, ContentsDiffer
  <2> QED BY <1>3, <2>1, <2>2, <2>3, <2>4, FilesDiffer, ContentsDiffer DEF Contents, Roles
<1>4. CASE op.at = "info"
  <2>1. /\ Target(op.configs, op.at) = Info
        /\ Written(op.configs, op.at) = [r \in Roles |-> Stored(op.configs[r])]
    BY <1>4 DEF Target, Written, Roles
  <2>2. \A r \in Roles : /\ GoodStored(Stored(op.configs[r]), made[r])
                         /\ Stored(op.configs[r]) \in {c \in Config : ~c.schema}
    BY <1>2, StoredGood DEF IInv
  <2>3. [r \in Roles |-> Stored(op.configs[r])] \in Saveable
    BY <2>2 DEF Saveable
  <2> QED BY <1>4, <2>1, <2>2, <2>3, FilesDiffer, ContentsDiffer DEF Contents, Roles
<1>5. CASE op.at = "messages"
  <2>1. Target(op.configs, op.at) = Messages /\ Written(op.configs, op.at) = Rest
    BY <1>5 DEF Target, Written, Roles
  <2> QED BY <1>5, <2>1, FilesDiffer, ContentsDiffer DEF Contents, Roles
<1> QED BY <1>1, <1>3, <1>4, <1>5 DEF Save

LEMMA OpenStep == IInv /\ Open => IInv'
<1> SUFFICES ASSUME IInv, Open PROVE IInv'
  OBVIOUS
<1>0. PICK f : f = Target(op.configs, op.at)
  OBVIOUS
<1>1. PICK text \in {Empty, Cut} : files' = [files EXCEPT ![f] = text]
  BY <1>0 DEF Open
<1>2. /\ op \in Save /\ Saving /\ op.at # "end" /\ ~op.open
      /\ op.at \in Roles => Truthy(op.configs[op.at].prompt)
      /\ op' = [op EXCEPT !.open = TRUE]
      /\ UNCHANGED <<defaults, session, dir, made, damage>>
  BY DEF Open, Saving
<1>3. /\ f \in Files
      /\ op.at \in Roles => f = Hash[made[op.at]] /\ f \in Names /\ Truthy(made[op.at])
      /\ op.at = "info" => f = Info
      /\ op.at = "messages" => f = Messages
  BY <1>0, <1>2, TargetOf
<1>4. op' \in Save /\ Saving' /\ op'.open /\ op'.at = op.at /\ op'.configs = op.configs
  BY <1>2 DEF Save, Saving
<1>5. Partial(f)' = {Empty, Cut}
  BY <1>0, <1>2, <1>4 DEF Partial
<1>6. \A g \in Files : g # f => Partial(g) \subseteq Partial(g)'
  BY <1>2 DEF Partial
<1>7. files'[f] = text /\ \A g \in Files : g # f => files'[g] = files[g]
  BY <1>1, <1>3 DEF IInv, TypeOK
<1>8. text # None /\ text \notin Saveable /\ text \in Contents
  BY <1>1, ContentsDiffer DEF Contents
<1>9. TypeOK'
  BY <1>1, <1>2, <1>4, <1>8 DEF IInv, TypeOK
<1>10. OpOK'
  BY <1>2, <1>4, ContentsDiffer DEF IInv, OpOK
<1>11. ConfigsGood'
  BY <1>2, <1>4 DEF IInv, ConfigsGood, Good
<1>12. PromptFiles'
  <2> SUFFICES ASSUME NEW r \in Roles, Truthy(made[r])
               PROVE  files'[Hash[made[r]]] \in {None, made[r]} \cup Partial(Hash[made[r]])'
    BY <1>2 DEF PromptFiles
  <2>1. Hash[made[r]] \in Files
    BY PromptHasFile, FilesDiffer DEF IInv, TypeOK
  <2>2. files[Hash[made[r]]] \in {None, made[r]} \cup Partial(Hash[made[r]])
    BY DEF IInv, PromptFiles
  <2> QED BY <1>1, <1>2, <1>5, <1>6, <1>7, <2>1, <2>2
<1>13. InfoFile'
  <2>1. CASE f = Info
    BY <1>1, <1>5, <1>7, <1>8, <2>1 DEF InfoFile
  <2>2. CASE f # Info
    BY <1>2, <1>6, <1>7, <2>2, FilesDiffer DEF IInv, InfoFile, GoodStored
  <2> QED BY <2>1, <2>2
<1>14. MessagesFile'
  <2>1. CASE f = Messages
    BY <1>1, <1>5, <1>7, <2>1 DEF MessagesFile
  <2>2. CASE f # Messages
    BY <1>6, <1>7, <2>2, FilesDiffer DEF IInv, MessagesFile
  <2> QED BY <2>1, <2>2
<1>15. Ordered'
  <2>1. \A r \in Roles : Truthy(made[r]) => Hash[made[r]] \in Files
    BY PromptHasFile, FilesDiffer DEF IInv, TypeOK
  <2>2. \A g \in Files : files[g] # None => files'[g] # None
    BY <1>7, <1>8
  <2>3. files'[Info] \in Saveable => files[Info] \in Saveable
    BY <1>7, <1>8, FilesDiffer
  <2>4. \A r \in Roles : Passed(r)' = Passed(r)
    BY <1>4 DEF Passed
  <2>5. f = Messages => op.at = "messages"
    BY <1>2, <1>3, FilesDiffer DEF Save
  <2>6. files'[Messages] # None => files[Messages] # None \/ op.at = "messages"
    BY <1>7, <2>5, FilesDiffer
  <2> QED BY <1>2, <1>4, <2>1, <2>2, <2>3, <2>4, <2>6, FilesDiffer DEF IInv, Ordered
<1> QED BY <1>9, <1>10, <1>11, <1>12, <1>13, <1>14, <1>15 DEF IInv

LEMMA WriteStep == IInv /\ Write => IInv'
<1> SUFFICES ASSUME IInv, Write PROVE IInv'
  OBVIOUS
<1> DEFINE f == Target(op.configs, op.at)
           text == Written(op.configs, op.at)
<1>1. /\ op \in Save /\ Saving /\ op.open
      /\ files' = [files EXCEPT ![f] = text]
      /\ op' = [op EXCEPT !.open = FALSE, !.at = After[op.at]]
      /\ UNCHANGED <<defaults, session, dir, made, damage>>
  BY DEF Write, Saving
<1>2. op.at # "end" /\ (op.at \in Roles => Truthy(op.configs[op.at].prompt))
  BY <1>1 DEF IInv, OpOK
<1>3. /\ f \in Files /\ text \in Contents /\ text # None
      /\ op.at \in Roles =>
           /\ f = Hash[made[op.at]] /\ f \in Names /\ Truthy(made[op.at])
           /\ text = made[op.at] \/ ("torn" \in damage /\ text \in {Empty, Cut})
      /\ op.at = "info" =>
           f = Info /\ text \in Saveable /\ \A r \in Roles : GoodStored(text[r], made[r])
      /\ op.at = "messages" => f = Messages /\ text = Rest
  BY <1>1, <1>2, TargetOf
<1>4. \A g \in Files : g # f => Partial(g) \subseteq Partial(g)'
  BY <1>1 DEF Partial
<1> HIDE DEF f, text
<1>5. /\ op' \in Save /\ Saving' /\ ~op'.open /\ op'.configs = op.configs
      /\ op.at = "chat" => op'.at = "strategy"
      /\ op.at = "strategy" => op'.at = "info"
      /\ op.at = "info" => op'.at = "messages"
      /\ op.at = "messages" => op'.at = "end"
  <2>1. /\ op.at = "chat" => After[op.at] = "strategy"
        /\ op.at = "strategy" => After[op.at] = "info"
        /\ op.at = "info" => After[op.at] = "messages"
        /\ op.at = "messages" => After[op.at] = "end"
    BY DEF After
  <2>2. op.at \in {"chat", "strategy", "info", "messages"}
    BY <1>1, <1>2 DEF Save, Roles
  <2>3. After[op.at] \in {"strategy", "info", "messages", "end"}
    BY <2>1, <2>2
  <2>4. op' \in Save /\ ~op'.open /\ op'.configs = op.configs /\ op'.at = After[op.at]
    BY <1>1, <2>3 DEF Save, Roles
  <2> QED BY <2>1, <2>4 DEF Saving
<1>6. \A g : ("torn" \in damage => Partial(g)' = {Empty, Cut})
  BY <1>1 DEF Partial
<1>7. files'[f] = text /\ \A g \in Files : g # f => files'[g] = files[g]
  BY <1>1, <1>3 DEF IInv, TypeOK
<1>8. op.at \in {"chat", "strategy", "info", "messages"}
  BY <1>1, <1>2 DEF Save, Roles
<1>9. TypeOK'
  BY <1>1, <1>3, <1>5 DEF IInv, TypeOK
<1>10. OpOK'
  BY <1>1, <1>5, ContentsDiffer DEF IInv, OpOK
<1>11. ConfigsGood'
  BY <1>1, <1>5 DEF IInv, ConfigsGood, Good
<1>12. PromptFiles'
  <2> SUFFICES ASSUME NEW r \in Roles, Truthy(made[r])
               PROVE  files'[Hash[made[r]]] \in {None, made[r]} \cup Partial(Hash[made[r]])'
    BY <1>1 DEF PromptFiles
  <2>1. made[r] \in Prompts /\ Hash[made[r]] \in Names
    BY PromptHasFile DEF IInv, TypeOK
  <2>2. CASE Hash[made[r]] # f
    <3>1. files[Hash[made[r]]] \in {None, made[r]} \cup Partial(Hash[made[r]])
      BY DEF IInv, PromptFiles
    <3> QED BY <1>1, <1>4, <1>7, <2>1, <2>2, <3>1, FilesDiffer
  <2>3. CASE Hash[made[r]] = f
    <3>1. op.at \in Roles
      BY <1>3, <1>8, <2>1, <2>3, FilesDiffer DEF Roles
    <3>2. made[op.at] \in Prompts
      BY <1>3, <3>1, PromptHasFile DEF IInv, TypeOK
    <3>3. made[op.at] = made[r]
      BY <1>3, <2>1, <2>3, <3>1, <3>2, HashAssumption
    <3> QED BY <1>3, <1>6, <1>7, <2>3, <3>1, <3>3
  <2> QED BY <2>2, <2>3
<1>13. InfoFile'
  <2>1. CASE f = Info
    <3>1. op.at = "info"
      BY <1>3, <1>8, <2>1, FilesDiffer DEF Roles
    <3> QED BY <1>1, <1>3, <1>7, <2>1, <3>1 DEF InfoFile, GoodStored
  <2>2. CASE f # Info
    BY <1>1, <1>4, <1>7, <2>2, FilesDiffer DEF IInv, InfoFile, GoodStored
  <2> QED BY <2>1, <2>2
<1>14. MessagesFile'
  <2>1. CASE f = Messages
    <3>1. op.at = "messages"
      BY <1>3, <1>8, <2>1, FilesDiffer DEF Roles
    <3> QED BY <1>3, <1>7, <2>1, <3>1 DEF MessagesFile
  <2>2. CASE f # Messages
    BY <1>4, <1>7, <2>2, FilesDiffer DEF IInv, MessagesFile
  <2> QED BY <2>1, <2>2
<1>15. Ordered'
  <2> SUFFICES ASSUME "removed" \notin damage PROVE Ordered'
    BY <1>1 DEF Ordered
  <2>1. \A r \in Roles : Truthy(made[r]) => Hash[made[r]] \in Files
    BY PromptHasFile, FilesDiffer DEF IInv, TypeOK
  <2>2. \A g \in Files : files[g] # None => files'[g] # None
    BY <1>3, <1>7
  <2>3. \A r \in Roles : Passed(r)' => Passed(r) \/ r = op.at
    BY <1>5, <1>8 DEF Passed, Roles
  <2>4. files'[Info] \in Saveable => files[Info] \in Saveable \/ \A r \in Roles : Passed(r)
    BY <1>3, <1>7, <1>8, FilesDiffer DEF Passed, Roles
  <2>5. ASSUME NEW r \in Roles, Truthy(made[r]),
               \/ files'[Info] \in Saveable
               \/ session # None /\ session[r].path # None
               \/ op.configs[r].path # None \/ Passed(r)'
        PROVE  files'[Hash[made[r]]] # None
    <3>1. CASE r = op.at
      BY <1>3, <1>7, <3>1
    <3>2. CASE r # op.at
      <4>1. \/ files[Info] \in Saveable
            \/ session # None /\ session[r].path # None
            \/ op.configs[r].path # None \/ Passed(r)
        BY <2>3, <2>4, <2>5, <3>2
      <4>2. files[Hash[made[r]]] # None
        BY <1>1, <2>5, <4>1 DEF IInv, Ordered
      <4> QED BY <2>1, <2>2, <2>5, <4>2
    <3> QED BY <3>1, <3>2
  <2>6. files'[Messages] # None \/ op'.at \in {"messages", "end"} => files'[Info] # None
    <3>1. CASE op.at = "info"
      BY <1>3, <1>7, <3>1
    <3>2. CASE op.at # "info" /\ (files[Messages] # None \/ op.at = "messages")
      BY <1>1, <2>2, <3>2, FilesDiffer DEF IInv, Ordered
    <3>3. CASE op.at # "info" /\ files[Messages] = None /\ op.at # "messages"
      <4>1. f # Messages /\ op'.at \notin {"messages", "end"}
        BY <1>3, <1>5, <1>8, <3>3, FilesDiffer DEF Roles
      <4> QED BY <1>7, <3>3, <4>1, FilesDiffer
    <3> QED BY <3>1, <3>2, <3>3
  <2> QED BY <1>1, <1>5, <2>5, <2>6 DEF Ordered
<1> QED BY <1>9, <1>10, <1>11, <1>12, <1>13, <1>14, <1>15 DEF IInv

LEMMA IInvHolds == Spec => []IInv
<1>1. IInv /\ UNCHANGED vars => IInv'
  BY DEF vars, IInv, TypeOK, OpOK, ConfigsGood, Good, PromptFiles, InfoFile, GoodStored,
         MessagesFile, Ordered, Partial, Passed, Saving
<1>2. IInv /\ [Next]_vars => IInv'
  BY <1>1, CreateStep, UpdateStep, SkipStep, OpenStep, WriteStep, SavedStep, SaveFailsStep,
     LoadStep, DeleteStep, RemoveEntryStep, RemoveFailsStep, RestartStep DEF Next
<1> QED BY <1>2, InitIInv, PTL DEF Spec

-----------------------------------------------------------------------------
(* Theorems                                                                *)

\* Every variable keeps its type: what is read from the directory is a config again,
\* and none with an output_config gets into memory.
THEOREM TypeCorrect == Spec => []TypeOK
<1>1. IInv => TypeOK
  BY DEF IInv
<1> QED BY <1>1, IInvHolds, PTL

\* A session has the prompts it was created with, or, of a prompt whose file was left
\* open, what is left: through saves, loads, removals and restarts with other defaults,
\* for any prompts and any names that tell them apart.
THEOREM PromptsAreOwnHolds == Spec => []PromptsAreOwn
<1>1. IInv => PromptsAreOwn
  BY DEF IInv, ConfigsGood, Good, PromptsAreOwn
<1> QED BY <1>1, IInvHolds, PTL

\* session_info names no file that is missing, unless a removal has begun.
THEOREM ReferencesResolveHolds == Spec => []ReferencesResolve
<1>1. IInv => ReferencesResolve
  <2> SUFFICES ASSUME IInv, files[Info] \in Saveable, "removed" \notin damage,
                      NEW r \in Roles, files[Info][r].path # None
               PROVE  files[files[Info][r].path] # None
    BY DEF ReferencesResolve
  <2>1. Truthy(made[r]) /\ files[Info][r].path = Hash[made[r]]
    BY DEF IInv, InfoFile, GoodStored
  <2> QED BY <2>1 DEF IInv, Ordered
<1> QED BY <1>1, IInvHolds, PTL

\* What was saved once, and was never left torn, is what a restart reads.
THEOREM RestartKeepsPromptsHolds == Spec => []RestartKeepsPrompts
<1>1. IInv => RestartKeepsPrompts
  <2> SUFFICES ASSUME IInv, op = None, damage = {}, files[Messages] # None
               PROVE  Readable /\ \A r \in Roles : Resolved(files[Info][r]).prompt = made[r]
    BY DEF RestartKeepsPrompts
  <2>1. ~Saving /\ \A f \in Files : Partial(f) = {}
    BY ContentsDiffer DEF Saving, Partial
  <2>2. files[Messages] = Rest /\ files[Info] # None
    BY <2>1, FilesDiffer DEF IInv, MessagesFile, Ordered
  <2>3. files[Info] \in Saveable
    BY <2>1, <2>2, FilesDiffer DEF IInv, InfoFile
  <2>4. ASSUME NEW r \in Roles
        PROVE  /\ files[Info][r].path # None => files[files[Info][r].path] # None
               /\ Resolved(files[Info][r]).prompt = made[r]
    <3> DEFINE c == files[Info][r]
               m == made[r]
    <3>1. c \in Config /\ GoodStored(c, m) /\ m \in (Texts \ {Cut}) \cup {None}
      BY <2>3 DEF Saveable, IInv, InfoFile, TypeOK
    <3>2. CASE ~Truthy(m) /\ c.prompt = m /\ c.path = None
      BY <3>2 DEF Resolved
    <3>3. CASE Truthy(m) /\ c.path = Hash[m]
      <4>1. m \in Prompts /\ Hash[m] \in Files /\ Hash[m] # None
        BY <3>1, <3>3, PromptHasFile, FilesDiffer
      <4>2. files[Hash[m]] # None /\ files[Hash[m]] = m
        BY <2>1, <2>3, <3>3, <4>1 DEF IInv, Ordered, PromptFiles
      <4>3. Resolved(c) = [c EXCEPT !.prompt = m]
        BY <3>3, <4>1, <4>2 DEF Resolved
      <4> QED BY <3>1, <3>3, <4>2, <4>3 DEF Config
    <3> QED BY <3>1, <3>2, <3>3 DEF GoodStored
  <2> QED BY <2>2, <2>3, <2>4 DEF Readable
<1> QED BY <1>1, IInvHolds, PTL
=============================================================================
