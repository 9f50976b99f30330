---------------------------- MODULE MCChatSession ----------------------------
(* ChatSession on short conversations.  The bounds are in the cfgs: the       *)
(* window is small enough for several summaries of summaries, and odd, so     *)
(* that a window does not end with a turn.                                    *)
EXTENDS ChatSession
==============================================================================
