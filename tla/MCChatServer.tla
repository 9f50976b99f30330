---------------------------- MODULE MCChatServer ----------------------------
(* ChatServer on small sets of model values.                                *)
EXTENDS ChatServer, TLC

\* Entries, connections, turns and requests are interchangeable: no definition
\* of ChatServer names one of them.  Used by the safety runs only.
Symmetry == Permutations(Entries) \cup Permutations(Connections)
            \cup Permutations(Streams) \cup Permutations(Deletes)
=============================================================================
