--------------------------- MODULE MCVoiceGateway ---------------------------
(* Model checking of VoiceGateway on small instances.                      *)
EXTENDS VoiceGateway

\* What a client does after its event stream is closed is of no interest.
Alive == disposal # "done"

=============================================================================
