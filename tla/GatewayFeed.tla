---------------------------- MODULE GatewayFeed ----------------------------
(***************************************************************************)
(* What the main gateway session promises whoever listens to it, and       *)
(* nothing of sockets, resumes, queues and workers.  The server numbers    *)
(* the dispatches of a session from one, and begins one session after the  *)
(* other.  The client hands them on once each, in the order of their       *)
(* numbers, passing over none that it did not fail to read, and goes back  *)
(* to no earlier session.  DesktopGateway implements it.                   *)
(***************************************************************************)
EXTENDS Integers, Sequences, Functions

CONSTANTS
    Sessions,   \* gateway sessions, numbered in the order they begin
    Numbers     \* the numbers a dispatch can have

VARIABLES
    published,  \* how many dispatches the server has numbered, per session
    handed,     \* the numbers handed on, per session
    unread,     \* the numbers whose frame came and could not be read
    over        \* the client was closed

vars == <<published, handed, unread, over>>

Init ==
    /\ published = [n \in Sessions |-> 0]
    /\ handed = [n \in Sessions |-> <<>>]
    /\ unread = [n \in Sessions |-> {}]
    /\ over = FALSE

\* A session begins when every one before it has.
Publish(n) ==
    /\ \A m \in Sessions : m < n => published[m] > 0
    /\ published' = [published EXCEPT ![n] = @ + 1]
    /\ UNCHANGED <<handed, unread, over>>

\* Number k of session n is the next to be read: nothing as late was handed
\* on, nothing before it is missing, and no later session has been heard of.
IsNext(n, k) ==
    /\ k \in 1 .. published[n]
    /\ \A d \in Range(handed[n]) : d < k
    /\ \A j \in 1 .. (k - 1) : j \in Range(handed[n]) \cup unread[n]
    /\ \A m \in Sessions : n < m => handed[m] = <<>>

HandOn(n, k) ==
    /\ ~over /\ IsNext(n, k)
    /\ handed' = [handed EXCEPT ![n] = Append(@, k)]
    /\ UNCHANGED <<published, unread, over>>

\* A frame that cannot be read; once closed, the client owes nothing.
Miss(n, k) ==
    /\ ~over => IsNext(n, k)
    /\ unread' = [unread EXCEPT ![n] = @ \cup {k}]
    /\ UNCHANGED <<published, handed, over>>

Close ==
    /\ ~over /\ over' = TRUE
    /\ UNCHANGED <<published, handed, unread>>

Next ==
    \/ \E n \in Sessions :
          \/ Publish(n)
          \/ \E k \in Numbers : HandOn(n, k) \/ Miss(n, k)
    \/ Close

Spec == Init /\ [][Next]_vars

=============================================================================
