--------------------------- MODULE MCSessionFiles ---------------------------
(* SessionFiles with the defaults of four server configurations              *)
EXTENDS SessionFiles

CONSTANTS p1, p2, h1, h2, h3, prompt_md

MCHash == [t \in {p1, p2, Cut} |-> CASE t = p1 -> h1 [] t = p2 -> h2 [] t = Cut -> h3]

C(prompt, path, schema) == [prompt |-> prompt, path |-> path, schema |-> schema]

\* server.json and the strategies file in different directories, each with its
\* prompt.md; one prompt, inline in both; none and an empty one; an output_config
MCDefaults ==
    {[chat |-> C(p1, prompt_md, FALSE), strategy |-> C(p2, prompt_md, FALSE)],
     [chat |-> C(p2, None, FALSE), strategy |-> C(p2, None, FALSE)],
     [chat |-> C(None, None, FALSE), strategy |-> C(Empty, prompt_md, FALSE)],
     [chat |-> C(p1, prompt_md, TRUE), strategy |-> C(p2, None, FALSE)]}
==============================================================================
