------------------------- MODULE MCCaptureRegistry -------------------------
(* The capture registry with a few requests, each with a key of its own:   *)
(* two captured chat requests, a captured stream of the Responses API, and *)
(* an embedding, a call type the pre-call hook ignores.                    *)
EXTENDS CaptureRegistry

CONSTANTS chat1, chat2, stream, embedding

OwnKey == [r \in Requests |-> r]

=============================================================================
