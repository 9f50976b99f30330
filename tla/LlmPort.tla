------------------------------ MODULE LlmPort ------------------------------
(***************************************************************************)
(* What ILlmPort promises to the caller of acompletion: zero or more       *)
(* TextChunkEvents, then exactly one CompletionDoneEvent, then the end.    *)
(* A call may raise instead, before its CompletionDoneEvent.               *)
(* Completion implements this specification.                               *)
(***************************************************************************)
EXTENDS Sequences

VARIABLES
    call,   \* none yet, running, returned or raised
    events  \* what the caller has received from this call

pvars == <<call, events>>

PortInit == call = "none" /\ events = <<>>

Call ==
    /\ call # "running"
    /\ call' = "running"
    /\ events' = <<>>

Text ==
    /\ call = "running"
    /\ events' = Append(events, "text")
    /\ UNCHANGED call

Done ==
    /\ call = "running"
    /\ call' = "returned"
    /\ events' = Append(events, "done")

Raise ==
    /\ call = "running"
    /\ call' = "raised"
    /\ UNCHANGED events

\* The process stops, and the call with it
Vanish == call' = "none" /\ events' = <<>>

PortNext == Call \/ Text \/ Done \/ Raise \/ Vanish

PortSpec == PortInit /\ [][PortNext]_pvars
=============================================================================
