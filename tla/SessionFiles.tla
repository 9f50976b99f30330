---------------------------- MODULE SessionFiles ----------------------------
(***************************************************************************)
(* The completion configs of one session id and the directory they are     *)
(* saved in: copied from the defaults of the server when the session is    *)
(* created, written with every save, read back after a restart, removed    *)
(* file by file.  The directory is written in place, and a save may stop   *)
(* between any two calls of the operating system.                          *)
(*                                                                         *)
(* Handlers do not suspend here, so one operation runs at a time.  What a  *)
(* save writes besides the configs is one content, Rest, and what happens  *)
(* to it, and to a turn that outlives a DELETE, is in ChatServer.          *)
(***************************************************************************)
CONSTANTS
    Prompts,   \* system prompts that are not empty
    Names,     \* names of prompt files
    Hash,      \* the file name that the first digits of the md5 of a text give
    Defaults,  \* what the server's config files may say: a config for each role
    Empty,     \* the empty text, of a prompt or of a file
    Cut,       \* what a write that stopped leaves of a text
    Info, Messages,  \* the files session_info and session_messages
    Rest,      \* the content of session_messages
    Faults,    \* what may happen: "stop" of an operation, "crash", "delete"
    None       \* Python's None

Texts  == Prompts \cup {Empty, Cut}
Config == [prompt : Texts \cup {None}, path : Names \cup {None}, schema : BOOLEAN]

\* The completion_config of the session, and that of its context strategy
Roles   == {"chat", "strategy"}
Configs == [Roles -> Config]

\* Those that can be saved, and so be those of a session
Saveable == [Roles -> {c \in Config : ~c.schema}]

Files    == Names \cup {Info, Messages}
Contents == Texts \cup {Rest} \cup Saveable

\* Where _write_session_files is, and whether the file of that step is open
Save == [configs : Saveable, at : Roles \cup {"info", "messages", "end"}, open : BOOLEAN]

\* rmtree is running
Removal == [at |-> "remove"]

ASSUME DistinctAssumption ==
    /\ Empty # Cut /\ Empty \notin Prompts /\ Cut \notin Prompts
    /\ None \notin Contents \cup Names \cup Save \cup {Removal}
    /\ Rest \notin Texts /\ (Texts \cup {Rest}) \cap Saveable = {}
    /\ Info # Messages /\ Info \notin Names /\ Messages \notin Names

ASSUME HashAssumption ==
    /\ Hash \in [Prompts \cup {Cut} -> Names]
    /\ \A p, q \in Prompts \cup {Cut} : Hash[p] = Hash[q] => p = q

ASSUME DefaultsAssumption ==
    Defaults \subseteq {d \in Configs : \A r \in Roles : d[r].prompt # Cut}

VARIABLES
    defaults,  \* the defaults as read when the process started
    session,   \* the configs of the session in memory, or None
    dir,       \* does the session directory exist?
    files,     \* the contents of its files
    op,        \* the save or removal that is running, or None
    made,      \* reference: the prompts the session was created with
    damage     \* reference: what has been done to the directory since

vars == <<defaults, session, dir, files, op, made, damage>>

TypeOK ==
    /\ defaults \in Defaults
    /\ session \in Saveable \cup {None}
    /\ dir \in BOOLEAN
    /\ files \in [Files -> Contents \cup {None}]
    /\ op \in Save \cup {Removal, None}
    /\ made \in [Roles -> (Texts \ {Cut}) \cup {None}]
    /\ damage \subseteq {"torn", "removed"}

NoFiles == [f \in Files |-> None]

Init ==
    /\ defaults \in Defaults
    /\ session = None /\ dir = FALSE /\ files = NoFiles /\ op = None
    /\ made = [r \in Roles |-> None] /\ damage = {}

-----------------------------------------------------------------------------
(* What is written and read                                                *)

\* Mutant of Copied: the copy keeps the path
CopiedWithPath(c) == c

\* CompletionConfig.__copy__
Copied(c) == [c EXCEPT !.path = None]

Truthy(text) == text \notin {None, Empty}

\* Mutant of FileOf: one name for the prompts of all configs
FileOfFixed(c) == IF c.path # None THEN c.path ELSE Hash[Cut]

\* The file of a prompt: the one it was read from, or one named by its hash
FileOf(c) == IF c.path # None THEN c.path ELSE Hash[c.prompt]

\* serialize_completion_config: a config as session_info holds it
Stored(c) == IF Truthy(c.prompt) THEN [c EXCEPT !.prompt = None, !.path = FileOf(c)] ELSE c

\* Mutant of After: session_info before the strategy's prompt
AfterInfoEarly ==
    [chat |-> "info", info |-> "strategy", strategy |-> "messages", messages |-> "end"]

\* The order of _write_session_files
After == [chat |-> "strategy", strategy |-> "info", info |-> "messages", messages |-> "end"]

\* The file a step writes, and what to it
Target(cs, at) ==
    CASE at \in Roles -> FileOf(cs[at]) [] at = "info" -> Info [] at = "messages" -> Messages

Written(cs, at) ==
    CASE at \in Roles -> cs[at].prompt
      [] at = "info" -> [r \in Roles |-> Stored(cs[r])]
      [] at = "messages" -> Rest

\* resolve_completion_config, when the prompt file is there
Resolved(c) == IF c.path # None THEN [c EXCEPT !.prompt = files[c.path]] ELSE c

\* Does get_session return?  Truncated files are not JSON, and a missing prompt
\* file raises SystemExit
Readable ==
    /\ files[Info] \in Saveable
    /\ \A r \in Roles : files[Info][r].path # None => files[files[Info][r].path] # None
    /\ files[Messages] = Rest

-----------------------------------------------------------------------------
(* Operations                                                              *)

\* Mutant of Create: a config with an output_config is dumped like the others
CreateAnyConfig ==
    /\ op = None /\ session = None /\ ~dir
    /\ LET configs == [r \in Roles |-> Copied(defaults[r])]
       IN  /\ op' = [configs |-> configs, at |-> "chat", open |-> FALSE]
           /\ made' = [r \in Roles |-> configs[r].prompt]
    /\ dir' = TRUE /\ damage' = {}
    /\ UNCHANGED <<defaults, session, files>>

\* create_session up to its first write.  A config with an output_config cannot be
\* dumped to JSON: the directory has been made by then
Create ==
    /\ op = None /\ session = None /\ ~dir
    /\ LET configs == [r \in Roles |-> Copied(defaults[r])]
       IN  /\ op' = IF \E r \in Roles : configs[r].schema THEN None
                    ELSE [configs |-> configs, at |-> "chat", open |-> FALSE]
           /\ made' = [r \in Roles |-> configs[r].prompt]
    /\ dir' = TRUE /\ damage' = {}
    /\ UNCHANGED <<defaults, session, files>>

\* update_session at the end of a turn
Update ==
    /\ op = None /\ session # None /\ dir
    /\ op' = [configs |-> session, at |-> "chat", open |-> FALSE]
    /\ UNCHANGED <<defaults, session, dir, files, made, damage>>

Saving == op \in Save

\* A prompt that is empty has no file
Skip ==
    /\ Saving /\ op.at \in Roles /\ ~Truthy(op.configs[op.at].prompt)
    /\ op' = [op EXCEPT !.at = After[@]]
    /\ UNCHANGED <<defaults, session, dir, files, made, damage>>

\* open(..., "w") truncates the file; what is written need not all get there
Open ==
    /\ Saving /\ op.at # "end" /\ ~op.open
    /\ op.at \in Roles => Truthy(op.configs[op.at].prompt)
    /\ \E text \in {Empty, Cut} :
        files' = [files EXCEPT ![Target(op.configs, op.at)] = text]
    /\ op' = [op EXCEPT !.open = TRUE]
    /\ UNCHANGED <<defaults, session, dir, made, damage>>

Write ==
    /\ Saving /\ op.open
    /\ files' = [files EXCEPT ![Target(op.configs, op.at)] = Written(op.configs, op.at)]
    /\ op' = [op EXCEPT !.open = FALSE, !.at = After[@]]
    /\ UNCHANGED <<defaults, session, dir, made, damage>>

\* The session that was created is registered now
Saved ==
    /\ Saving /\ op.at = "end"
    /\ session' = op.configs
    /\ op' = None
    /\ UNCHANGED <<defaults, dir, files, made, damage>>

Torn == IF Saving /\ op.open THEN damage \cup {"torn"} ELSE damage

\* An OSError
SaveFails ==
    /\ "stop" \in Faults
    /\ Saving /\ op.at # "end"
    /\ op' = None
    /\ damage' = Torn
    /\ UNCHANGED <<defaults, session, dir, files, made>>

\* get_session, for a session that is not in memory
Load ==
    /\ op = None /\ session = None /\ dir /\ Readable
    /\ session' = [r \in Roles |-> Resolved(files[Info][r])]
    /\ UNCHANGED <<defaults, dir, files, op, made, damage>>

\* DELETE: the registry forgets the session, rmtree starts
Delete ==
    /\ "delete" \in Faults
    /\ op = None /\ dir
    /\ session' = None
    /\ op' = Removal
    /\ damage' = damage \cup {"removed"}
    /\ UNCHANGED <<defaults, dir, files, made>>

\* One entry of rmtree, in the order of the directory, and then the directory
RemoveEntry ==
    /\ op = Removal
    /\ IF files = NoFiles THEN dir' = FALSE /\ op' = None /\ UNCHANGED files
       ELSE /\ \E f \in Files : files[f] # None /\ files' = [files EXCEPT ![f] = None]
            /\ UNCHANGED <<dir, op>>
    /\ UNCHANGED <<defaults, session, made, damage>>

RemoveFails ==
    /\ "stop" \in Faults
    /\ op = Removal
    /\ op' = None
    /\ UNCHANGED <<defaults, session, dir, files, made, damage>>

\* The process ends, in an operation or not, and starts with other defaults
Restart ==
    /\ "crash" \in Faults
    /\ session' = None /\ op' = None
    /\ defaults' \in Defaults
    /\ damage' = Torn
    /\ UNCHANGED <<dir, files, made>>

Next ==
    \/ Create \/ Update \/ Skip \/ Open \/ Write \/ Saved \/ SaveFails
    \/ Load \/ Delete \/ RemoveEntry \/ RemoveFails \/ Restart

Spec == Init /\ [][Next]_vars
-----------------------------------------------------------------------------
(* Properties                                                              *)

\* A session in memory has, for its answers and for its strategy, the system prompt it
\* was created with, whatever the defaults say now; or, after a save that stopped
\* while a file was open, what is left of it, and never the prompt of the other.
PromptsAreOwn ==
    session # None =>
        \A r \in Roles :
            \/ session[r].prompt = made[r]
            \/ "torn" \in damage /\ session[r].prompt \in {Empty, Cut}

\* Wherever a save stops, session_info names no prompt file that is not there: what it
\* names is written before it.  Only rmtree, that stopped, leaves such a session_info.
ReferencesResolve ==
    files[Info] \in Saveable /\ "removed" \notin damage =>
        \A r \in Roles : files[Info][r].path # None => files[files[Info][r].path] # None

\* As long as no file was left open, a session that was saved once can be read, and
\* with the prompts it was created with, even if later saves stopped between files.
RestartKeepsPrompts ==
    op = None /\ damage = {} /\ files[Messages] # None =>
        Readable /\ \A r \in Roles : Resolved(files[Info][r]).prompt = made[r]
=============================================================================
