------------------------ MODULE MCReadStateAckQueue ------------------------
(***************************************************************************)
(* ReadStateAckQueue for TLC.  A queue that was closed and has come to     *)
(* rest does nothing more: its states are kept and not explored further.   *)
(***************************************************************************)
EXTENDS ReadStateAckQueue

Alive == ~(closed /\ pump = "none" /\ \A k \in DOMAIN operations : Ended(k))
=============================================================================
