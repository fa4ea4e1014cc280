---------------------------- MODULE VoiceClient ----------------------------
(***************************************************************************)
(* What a voice client tells the service that made it, and nothing of how. *)
(* It begins once; it gets ahead one stage at a time, and only from a      *)
(* connection it said it lost straight to any stage; it fails once.  Once  *)
(* it failed, or its service began to close it, it reports nothing but     *)
(* packets its key does not open, until it says that it is disconnected,   *)
(* and no more.                                                            *)
(* VoiceGateway implements it; VoiceSignaling acts on what it tells.       *)
(***************************************************************************)

VARIABLES
    told,   \* the last status on the client's stream
    over    \* no, failed, closing, closed

vars == <<told, over>>

Stages == {"connecting", "discovering", "negotiating", "ready"}

Follows(stage) ==
    CASE stage = "discovering" -> "connecting"
      [] stage = "negotiating" -> "discovering"
      [] stage = "ready"       -> "negotiating"
      [] OTHER                 -> "idle"

Init == told = "idle" /\ over = "no"

\* The first dial, and each stage behind it.
Advance(stage) ==
    /\ over = "no" /\ told = Follows(stage)
    /\ told' = stage
    /\ UNCHANGED over

\* A resume is ready at once, a redial dials anew, and a negotiation whose key
\* was blamed goes on.
Recover(stage) ==
    /\ over = "no" /\ told = "reconnecting"
    /\ told' = stage
    /\ UNCHANGED over

Lose ==
    /\ over = "no" /\ told \in Stages
    /\ told' = "reconnecting"
    /\ UNCHANGED over

Fail ==
    /\ over = "no" /\ told # "idle"
    /\ told' = "failure" /\ over' = "failed"

\* The UDP path of a client that failed stays open, and that of one that is
\* closing until close() has come to it.
Blame ==
    /\ over \in {"failed", "closing"}
    /\ told' = "reconnecting"
    /\ UNCHANGED over

Closing ==
    /\ over \in {"no", "failed"} /\ told # "idle"
    /\ over' = "closing"
    /\ UNCHANGED told

Close ==
    /\ over = "closing"
    /\ told' = "disconnected" /\ over' = "closed"

Next ==
    \/ \E stage \in Stages : Advance(stage) \/ Recover(stage)
    \/ Lose \/ Fail \/ Blame \/ Closing \/ Close

Spec == Init /\ [][Next]_vars

=============================================================================
