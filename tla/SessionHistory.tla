--------------------------- MODULE SessionHistory ---------------------------
(***************************************************************************)
(* What a session promises about its conversation, whatever context        *)
(* strategy it uses and however it writes its files: the history only      *)
(* grows, by a question or by an answer to the question just asked, and a  *)
(* save puts all of it on disk or fails.  ChatSession implements this      *)
(* specification.                                                          *)
(***************************************************************************)
EXTENDS Naturals, Sequences, SequencesExt

CONSTANTS
    Ids,   \* ids of message records
    None   \* no Session object in memory; no usable messages file

Records == [id : Ids, role : {"user", "assistant"}]

VARIABLES
    history,  \* the records of the Session object in memory, or None
    saved,    \* the records in the messages file, or None
    readable  \* the directory can be loaded

hvars == <<history, saved, readable>>

Answered(records) == records = <<>> \/ Last(records).role = "assistant"

HistoryInit ==
    /\ history = None
    /\ saved = None
    /\ readable = FALSE

\* POST creates and saves the empty history, or leaves an unreadable directory
Create ==
    /\ history = None
    /\ saved = None
    /\ ~readable
    /\ \/ history' = <<>> /\ saved' = <<>> /\ readable' = TRUE
       \/ UNCHANGED <<history, readable>> /\ saved' = None

Ask ==
    /\ history # None
    /\ \E r \in Records : r.role = "user" /\ history' = Append(history, r)
    /\ UNCHANGED <<saved, readable>>

Answer ==
    /\ history # None
    /\ ~Answered(history)
    /\ \E r \in Records : r.role = "assistant" /\ history' = Append(history, r)
    /\ UNCHANGED <<saved, readable>>

\* A complete save, or one that failed: it may still lose or restore readability
Save ==
    /\ history # None
    /\ Answered(history)
    /\ saved' \in {saved, history, None}
    /\ readable' \in BOOLEAN
    /\ readable' => saved' # None
    /\ UNCHANGED history

Stop ==
    /\ history' = None
    /\ UNCHANGED <<saved, readable>>

Load ==
    /\ history = None
    /\ readable
    /\ history' = saved
    /\ UNCHANGED <<saved, readable>>

HistoryNext == Create \/ Ask \/ Answer \/ Save \/ Stop \/ Load

HistorySpec == HistoryInit /\ [][HistoryNext]_hvars
=============================================================================
