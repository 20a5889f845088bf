-------------------------- MODULE AnthropicStream --------------------------
(***************************************************************************)
(* What the adapter promises a client that asked for a streamed answer:    *)
(* each event it receives may follow, in the Anthropic protocol, the one   *)
(* it received before.  The protocol is a relation between neighbouring    *)
(* events, so the last event is the whole state.                           *)
(***************************************************************************)
EXTENDS StreamEvents

VARIABLE last \* the last event the client has received

Init == last = NoEvent

\* The client receives an event that may follow the last one.
Receive == last' \in Event /\ Follows(last, last')

Spec == Init /\ [][Receive]_last
=============================================================================
