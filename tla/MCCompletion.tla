---------------------------- MODULE MCCompletion ----------------------------
(* Completion with a pricing file that lists both models or one                *)
EXTENDS Completion

CONSTANTS chat, summary

AllPriced == [m \in Models |-> IF m = chat THEN [input |-> 1, output |-> 3]
                               ELSE [input |-> 2, output |-> 5]]
Unpriced  == [AllPriced EXCEPT ![chat] = None]
MCPricings == {AllPriced, Unpriced}
==============================================================================
