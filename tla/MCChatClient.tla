---------------------------- MODULE MCChatClient ----------------------------
(* ChatClient on small sets of model values.                                *)
EXTENDS ChatClient, TLC

\* No definition of ChatClient names a session, a worker or a turn.
Symmetry == Permutations(Sessions) \cup Permutations(Workers) \cup Permutations(Turns)

\* Bound: a third connection (leave, come back) only before the first message
ThirdBeforeMessages ==
    \/ \E w \in Workers : worker[w].pc = "new"
    \/ app.pc # "mount" /\ \A w \in Workers : server[w].phase = "new" /\ server[w].inbox = <<>>
=============================================================================
