------------------------- MODULE VoiceGatewayProofs -------------------------
(***************************************************************************)
(* What holds of VoiceGateway for every value of its constants.  That a    *)
(* ready client has the key and path of one session, and that a resume     *)
(* finds its path, rest on MediaInv: what may be resumed is live, and each *)
(* frame on its way says of which session it is.  ToldInv is about the     *)
(* stages a client tells, and the last part about what it waits for.       *)
(***************************************************************************)
EXTENDS VoiceGateway, TLAPS

\* connect() comes first: a client that has not been connected has not failed
\* and is not closing.  It is what keeps Connect from waking a finished client.
FreshUntilConnected == status = "idle" => ~failed /\ ~closing

QuietInv == TerminalIsQuiet /\ FreshUntilConnected

LEMMA QuietStays == Spec => []QuietInv
<1>1. Init => QuietInv
  BY DEF Init, QuietInv, TerminalIsQuiet, FreshUntilConnected, closing
<1>2. QuietInv /\ [Next]_vars => QuietInv'
  <2> SUFFICES ASSUME QuietInv, [Next]_vars
               PROVE  QuietInv'
    OBVIOUS
  <2> USE DEF QuietInv, TerminalIsQuiet, FreshUntilConnected, closing, Emitted
  <2>f. ASSUME NEW q, Fail(q), UNCHANGED disposal PROVE QuietInv'
    BY <2>f DEF Fail, Unmoved, owner, NewGeneration
  <2>r. ASSUME NEW q, NEW resumable, ScheduleReconnect(q, resumable),
               UNCHANGED disposal
        PROVE QuietInv'
    BY <2>r, <2>f DEF ScheduleReconnect, ReconnectIgnored, Unmoved, owner,
                      NewGeneration
  <2>s. ASSUME NEW q, NEW frames, NEW resumable, Send(q, frames, resumable),
               UNCHANGED disposal
        PROVE QuietInv'
    BY <2>s, <2>r DEF Send, owner
  <2>c. ASSUME UNCHANGED connection, UNCHANGED disposal PROVE QuietInv'
    BY <2>c DEF connection, owner
  <2>1. CASE Connect
    BY <2>1 DEF Connect
  <2>2. CASE Write
    BY <2>2, <2>s DEF Write
  <2>3. CASE CloseBegin
    BY <2>3 DEF CloseBegin, NewGeneration
  <2>4. CASE CloseEnd
    BY <2>4 DEF CloseEnd
  <2>5. CASE ReconnectTimer
    BY <2>5 DEF ReconnectTimer
  <2>6. CASE HeartbeatTimer
    BY <2>6, <2>r, <2>s DEF HeartbeatTimer
  <2>7. CASE DialSucceeds
    BY <2>7 DEF DialSucceeds
  <2>8. CASE StrayArrives
    BY <2>8, <2>c DEF StrayArrives
  <2>9. CASE DialFails
    BY <2>9, <2>r DEF DialFails
  <2>10. CASE DiscoveryFinds
    <3>1. UNCHANGED disposal
      BY <2>10 DEF DiscoveryFinds, DiscoveryIsCurrent
    <3>2. CASE UNCHANGED connection
      BY <2>c, <3>1, <3>2
    <3>3. CASE ScheduleReconnect(inbox, canResume)
      BY <2>r, <3>1, <3>3
    <3>4. CASE probing
      BY <2>10, <3>3, <3>4 DEF DiscoveryFinds, DiscoveryIsCurrent
    <3> QED
      BY <2>10, <3>2, <3>4 DEF DiscoveryFinds, DiscoveryIsCurrent
  <2>11. CASE DiscoveryFails
    BY <2>11, <2>f, <2>c DEF DiscoveryFails
  <2>12. CASE UdpFails
    BY <2>12, <2>r, <2>c DEF UdpFails
  <2>13. CASE MediaDecrypts
    BY <2>13, <2>c DEF MediaDecrypts
  <2>14. CASE DecryptGivesUp
    BY <2>14 DEF DecryptGivesUp
  <2>15. CASE AcceptHello
    BY <2>15 DEF AcceptHello, Takes
  <2>16. CASE AcceptReady
    BY <2>16 DEF AcceptReady, Takes
  <2>17. CASE AcceptDescription
    <3>1. CASE discovered = None
      BY <2>17, <2>f, <3>1 DEF AcceptDescription
    <3>2. CASE discovered # None
      BY <2>17, <3>2 DEF AcceptDescription, Takes
    <3> QED
      BY <3>1, <3>2
  <2>18. CASE AcceptResumed
    BY <2>18 DEF AcceptResumed
  <2>19. CASE AcceptDave
    BY <2>19, <2>s, <2>f DEF AcceptDave
  <2>20. CASE AcceptDone
    <3>1. CASE AwaitCredentials
      <4>1. UNCHANGED disposal /\ listening
        BY <2>20 DEF AcceptDone, Takes
      <4> QED
        BY <3>1, <4>1 DEF AwaitCredentials, NewGeneration
    <3>2. UNCHANGED disposal
      BY <2>20 DEF AcceptDone
    <3>3. ASSUME NEW q, ScheduleReconnect(q, canResume) PROVE QuietInv'
      BY <2>r, <3>2, <3>3
    <3>4. ASSUME NEW q, Fail(q) PROVE QuietInv'
      BY <2>f, <3>2, <3>4
    <3> QED
      BY <2>20, <3>1, <3>3, <3>4 DEF AcceptDone
  <2>21. CASE AcceptAck
    BY <2>21, <2>c DEF AcceptAck
  <2>22. CASE AcceptUnusable
    BY <2>22, <2>f DEF AcceptUnusable
  <2>23. CASE External
    BY <2>23, <2>c DEF External, ServerReads, ServerIdentifies, ServerResumes,
       ServerSelects, ServerSendsDave, ServerCloses, ServerForgets, LinkBreaks,
       BrokenLinkEnds, owner
  <2>24. CASE UNCHANGED vars
    BY <2>24, <2>c DEF vars
  <2> QED
    BY <2>1, <2>2, <2>3, <2>4, <2>5, <2>6, <2>7, <2>8, <2>9, <2>10, <2>11,
       <2>12, <2>13, <2>14, <2>15, <2>16, <2>17, <2>18, <2>19, <2>20, <2>21,
       <2>22, <2>23, <2>24 DEF Next, User, Timers, Media, TakeFrame
<1> QED
  BY <1>1, <1>2, PTL DEF Spec

\* A client that failed or is closing has no timer, no dial or discovery that
\* would be taken for a current one, and listens to no socket: _fail and close
\* bump the generation and cancel the timers, and everything that could start
\* again asks for one of them.
THEOREM TerminalStaysQuiet == Spec => []TerminalIsQuiet
<1>1. QuietInv => TerminalIsQuiet
  BY DEF QuietInv
<1> QED
  BY <1>1, QuietStays, PTL

-----------------------------------------------------------------------------
(* Who holds the connection: a timer, a dial or a socket, one at a time.    *)

Count(b) == IF b THEN 1 ELSE 0

\* _reconnectTimer, the current dial and the socket that is listened to take
\* turns; heartbeats and a discovery that counts belong to that socket.
OneHolder ==
    /\ reconnectDue \/ dialing => ~listening /\ status # "ready"
    /\ ~(reconnectDue /\ dialing)
    /\ heart \/ probing => listening
    /\ listening => socket # "none"
    /\ status = "idle" => ~reconnectDue /\ ~listening /\ ~dialing

\* Every dial but the first is owed to a fault or a write: a scheduled
\* reconnect, a dial and a socket pass the same turn on.
Turns == Count(reconnectDue) + Count(listening) + Count(status = "idle")
DialBudget ==
    /\ dials + Turns <= 1 + faults + writes
    /\ dialing => dials > 0

\* A socket that is not listened to has nothing queued, unless close() has
\* not come to it yet.
WireInv ==
    \/ listening \/ disposal = "awaiting"
    \/ inbox = <<>> /\ outbox = <<>> /\ socket \in {"none", "ended"}

HolderInv == OneHolder /\ DialBudget /\ WireInv

\* The queues hold what they are given.
LEMMA QueueTyped ==
    ASSUME NEW S, NEW q \in Seq(S)
    PROVE  /\ q # <<>> => Tail(q) \in Seq(S) /\ Head(q) \in S
           /\ <<>> \in Seq(S)
           /\ \A x \in S : Append(q, x) \in Seq(S) /\ <<x>> \in Seq(S)
           /\ \A k \in 0 .. Len(q) : SubSeq(q, 1, k) \in Seq(S)
  OBVIOUS

\* TypeOK, in the part _scheduleReconnect and _fail write and the rest; the
\* bound on dials comes with the budget.
ConnectionTyped ==
    /\ {failed, dialing, listening, reconnectDue, heart, probing} \subseteq BOOLEAN
    /\ socket \in Transports
    /\ attempts \in 0 .. MaxAttempts
    /\ status \in Statuses
    /\ {discovered, session, cipher} \subseteq Sessions \cup {None}
    /\ inbox \in Seq(ServerFrames)
    /\ outbox \in Seq(ClientFrames)

FlagsTyped ==
    {canResume, proven, gaveUp, owed, alive, token, asked} \subseteq BOOLEAN
CountsTyped ==
    /\ disposal \in {"none", "awaiting", "done"}
    /\ dials \in Nat /\ unacked \in 0 .. Tolerance
    /\ faults \in 0 .. MaxFaults /\ writes \in 0 .. MaxWrites
SessionsTyped == {path, probe, bound, issued} \subseteq Sessions \cup {None}
Typed == ConnectionTyped /\ FlagsTyped /\ CountsTyped /\ SessionsTyped

ShapeInv == Typed /\ QuietInv /\ HolderInv

\* What _scheduleReconnect, _fail and _send leave is typed, whatever the
\* queue they are given.
LEMMA HelpersTyped ==
    ASSUME ConnectionTyped, NEW q \in Seq(ServerFrames), NEW resumable
    PROVE  /\ Unmoved(q) => ConnectionTyped'
           /\ Fail(q) => ConnectionTyped'
           /\ ScheduleReconnect(q, resumable) => ConnectionTyped'
           /\ Send(q, <<>>, resumable) => ConnectionTyped'
<1> USE DEF ConnectionTyped, Transports, Statuses, None, owner, media
<1>0. <<>> \in Seq(ServerFrames) /\ <<>> \in Seq(ClientFrames)
  OBVIOUS
<1>1. ASSUME Unmoved(q) PROVE ConnectionTyped'
  BY <1>1 DEF Unmoved
<1>2. ASSUME Fail(q) PROVE ConnectionTyped'
  <2>1. CASE closing \/ failed
    BY <1>1, <1>2, <2>1 DEF Fail
  <2>2. CASE ~(closing \/ failed)
    BY <1>0, <1>2, <2>2 DEF Fail, NewGeneration, HangUp, DropMedia, Emitted
  <2> QED
    BY <2>1, <2>2
<1>3. ASSUME ScheduleReconnect(q, resumable) PROVE ConnectionTyped'
  <2>1. CASE ReconnectIgnored \/ attempts >= MaxAttempts
    BY <1>1, <1>2, <1>3, <2>1 DEF ScheduleReconnect
  <2>2. CASE ~(ReconnectIgnored \/ attempts >= MaxAttempts)
    <3>1. attempts' \in 0 .. MaxAttempts
      BY <1>3, <2>2, PolicyAssumption DEF ScheduleReconnect
    <3>2. {discovered, session, cipher}' \subseteq Sessions \cup {None}
      BY <1>3, <2>2 DEF ScheduleReconnect, DropMedia
    <3> QED
      BY <1>0, <1>3, <2>2, <3>1, <3>2
      DEF ScheduleReconnect, NewGeneration, HangUp, Emitted
  <2> QED
    BY <2>1, <2>2
<1>4. ASSUME Send(q, <<>>, resumable) PROVE ConnectionTyped'
  <2>1. CASE ScheduleReconnect(q, resumable)
    BY <1>3, <2>1
  <2>2. CASE ~ScheduleReconnect(q, resumable)
    <3>1. outbox \o <<>> = outbox
      OBVIOUS
    <3> QED
      BY <1>4, <2>2, <3>1 DEF Send
  <2> QED
    BY <2>1, <2>2
<1> QED
  BY <1>1, <1>2, <1>3, <1>4

LEMMA TypedStep ==
    ShapeInv /\ [Next]_vars => Typed'
<1> SUFFICES ASSUME ShapeInv, [Next]_vars
             PROVE  Typed'
  OBVIOUS
<1> USE BoundsAssumption, PolicyAssumption
    DEF secrets, server, history, bounds, owner, wire, media, Transports,
        Statuses, None
<1>t. ConnectionTyped /\ FlagsTyped /\ CountsTyped /\ SessionsTyped
  BY DEF ShapeInv, Typed
<1>q. ASSUME NEW q \in Seq(ServerFrames), NEW resumable
      PROVE  /\ Unmoved(q) => ConnectionTyped'
             /\ Fail(q) => ConnectionTyped'
             /\ ScheduleReconnect(q, resumable) => ConnectionTyped'
             /\ Send(q, <<>>, resumable) => ConnectionTyped'
  BY <1>t, HelpersTyped
<1>i. inbox \in Seq(ServerFrames) /\ (inbox # <<>> => Tail(inbox) \in Seq(ServerFrames))
  BY <1>t DEF ConnectionTyped
<1>h. HolderInv
  BY DEF ShapeInv
<1>n. /\ <<>> \in Seq(ServerFrames) /\ <<>> \in Seq(ClientFrames)
      /\ \A f \in ServerFrames :
            Append(inbox, f) \in Seq(ServerFrames) /\ <<f>> \in Seq(ServerFrames)
      /\ \A f \in ClientFrames :
            Append(outbox, f) \in Seq(ClientFrames) /\ <<f>> \in Seq(ClientFrames)
      /\ outbox # <<>> => Tail(outbox) \in Seq(ClientFrames)
  BY <1>t, QueueTyped DEF ConnectionTyped
<1>m. /\ \A k \in Sessions : Ready(k) \in ServerFrames /\ Description(k) \in ServerFrames
      /\ \A cause \in Causes : Done(cause) \in ServerFrames
      /\ {"lost", "ended"} \subseteq Causes
      /\ {Op("hello"), Op("resumed"), Op("dave")} \subseteq ServerFrames
      /\ {Op("identify"), Op("resume"), Op("select")} \subseteq ClientFrames
  BY DEF Ready, Description, Done, Op, ServerFrames, ClientFrames, Causes
<1>f. \A f \in ServerFrames : f.op \in {"ready", "description"} => f.session \in Sessions
  BY DEF ServerFrames
<1>d. inbox # <<>> => Head(inbox) \in ServerFrames
  BY <1>t, QueueTyped DEF ConnectionTyped
<1>s. issued < MaxSessions => issued + 1 \in Sessions
  BY <1>t DEF SessionsTyped, Sessions
<1>c. ASSUME UNCHANGED connection PROVE ConnectionTyped'
  BY <1>t, <1>c DEF connection, owner, wire, media, ConnectionTyped
<1>1. CASE Connect
  BY <1>1, <1>t, <1>q, <1>i, <1>c
  DEF Connect, Typed, ConnectionTyped, FlagsTyped, CountsTyped, SessionsTyped, Takes, Fault
<1>2. CASE Write
  BY <1>2, <1>t, <1>q, <1>i, <1>c
  DEF Write, Typed, ConnectionTyped, FlagsTyped, CountsTyped, SessionsTyped, Takes, Fault
<1>3. CASE CloseBegin
  <2>1. FlagsTyped'
    BY <1>3, <1>t DEF CloseBegin, FlagsTyped
  <2>2. CountsTyped'
    BY <1>3, <1>t DEF CloseBegin, CountsTyped, Fault
  <2>3. SessionsTyped'
    BY <1>3, <1>t DEF CloseBegin, SessionsTyped
  <2>4. ConnectionTyped'
    BY <1>3, <1>t, <1>q, <1>i, <1>c
    DEF CloseBegin, ConnectionTyped, Takes, NewGeneration
  <2> QED
    BY <2>1, <2>2, <2>3, <2>4 DEF Typed
<1>4. CASE CloseEnd
  <2>1. FlagsTyped'
    BY <1>4, <1>t DEF CloseEnd, FlagsTyped
  <2>2. CountsTyped'
    BY <1>4, <1>t DEF CloseEnd, CountsTyped, Fault
  <2>3. SessionsTyped'
    BY <1>4, <1>t DEF CloseEnd, SessionsTyped
  <2>4. ConnectionTyped'
    BY <1>4, <1>t, <1>q, <1>i, <1>c, <1>n, <1>m
    DEF CloseEnd, ConnectionTyped, Takes, HangUp, DropMedia
  <2> QED
    BY <2>1, <2>2, <2>3, <2>4 DEF Typed
<1>5. CASE ReconnectTimer
  <2>1. FlagsTyped'
    BY <1>5, <1>t DEF ReconnectTimer, FlagsTyped
  <2>2. CountsTyped'
    BY <1>5, <1>t DEF ReconnectTimer, CountsTyped, Fault
  <2>3. SessionsTyped'
    BY <1>5, <1>t DEF ReconnectTimer, SessionsTyped
  <2>4. ConnectionTyped'
    BY <1>5, <1>t, <1>q, <1>i, <1>c
    DEF ReconnectTimer, ConnectionTyped, Takes, Emitted
  <2> QED
    BY <2>1, <2>2, <2>3, <2>4 DEF Typed
<1>6. CASE HeartbeatTimer
  <2>1. FlagsTyped'
    BY <1>6, <1>t DEF HeartbeatTimer, FlagsTyped
  <2>2. CountsTyped'
    <3>1. CASE HasExceededTolerance
      <4>1. faults' = faults \/ (faults < MaxFaults /\ faults' = faults + 1)
        BY <1>6, <3>1 DEF HeartbeatTimer, Fault
      <4>2. UNCHANGED <<disposal, dials, unacked, writes>>
        BY <1>6, <3>1 DEF HeartbeatTimer
      <4> QED
        BY <4>1, <4>2, <1>t DEF CountsTyped
    <3>2. CASE ~HasExceededTolerance
      <4>1. unacked' = unacked + 1 /\ UNCHANGED <<disposal, dials, faults, writes>>
        BY <1>6, <3>2 DEF HeartbeatTimer, RecordSent
      <4> QED
        BY <4>1, <1>t, <3>2 DEF CountsTyped, HasExceededTolerance
    <3> QED
      BY <3>1, <3>2
  <2>3. SessionsTyped'
    BY <1>6, <1>t DEF HeartbeatTimer, SessionsTyped
  <2>4. ConnectionTyped'
    BY <1>6, <1>t, <1>q, <1>i, <1>c DEF HeartbeatTimer, ConnectionTyped, Takes
  <2> QED
    BY <2>1, <2>2, <2>3, <2>4 DEF Typed
<1>7. CASE DialSucceeds
  <2>1. FlagsTyped'
    BY <1>7, <1>t DEF DialSucceeds, FlagsTyped
  <2>2. CountsTyped'
    BY <1>7, <1>t, <1>h DEF DialSucceeds, CountsTyped, HolderInv, DialBudget
  <2>3. SessionsTyped'
    BY <1>7, <1>t DEF DialSucceeds, SessionsTyped
  <2>4. ConnectionTyped'
    BY <1>7, <1>t, <1>q, <1>i, <1>c, <1>n, <1>m
    DEF DialSucceeds, ConnectionTyped, Takes, OpeningFrame
  <2> QED
    BY <2>1, <2>2, <2>3, <2>4 DEF Typed
<1>8. CASE StrayArrives
  BY <1>8, <1>t, <1>q, <1>i, <1>c
  DEF StrayArrives, Typed, ConnectionTyped, FlagsTyped, CountsTyped, SessionsTyped, Takes, Fault
<1>9. CASE DialFails
  BY <1>9, <1>t, <1>q, <1>i, <1>c
  DEF DialFails, Typed, ConnectionTyped, FlagsTyped, CountsTyped, SessionsTyped, Takes, Fault
<1>10. CASE DiscoveryFinds
  <2>1. FlagsTyped' /\ CountsTyped'
    BY <1>10, <1>t
    DEF DiscoveryFinds, DiscoveryIsCurrent, FlagsTyped, CountsTyped
  <2>2. SessionsTyped'
    BY <1>10, <1>t DEF DiscoveryFinds, DiscoveryIsCurrent, SessionsTyped
  <2>3. CASE UNCHANGED connection \/ ScheduleReconnect(inbox, canResume)
    BY <1>q, <1>i, <1>c, <2>1, <2>2, <2>3 DEF Typed
  <2>4. CASE ~(UNCHANGED connection \/ ScheduleReconnect(inbox, canResume))
    <3>1. outbox' \in Seq(ClientFrames)
      BY <1>10, <1>t, <1>n, <1>m, <2>4
      DEF DiscoveryFinds, DiscoveryIsCurrent, ConnectionTyped
    <3>2. discovered' = probe
      BY <1>10, <2>4 DEF DiscoveryFinds, DiscoveryIsCurrent
    <3>3. discovered' \in Sessions \cup {None}
      BY <3>2, <1>t DEF SessionsTyped
    <3>4. ConnectionTyped'
      BY <1>10, <1>t, <2>4, <3>1, <3>3
      DEF DiscoveryFinds, DiscoveryIsCurrent, ConnectionTyped
    <3> QED
      BY <2>1, <2>2, <3>4 DEF Typed
  <2> QED
    BY <2>3, <2>4
<1>11. CASE DiscoveryFails
  <2>1. FlagsTyped'
    BY <1>11, <1>t DEF DiscoveryFails, FlagsTyped
  <2>2. CountsTyped'
    BY <1>11, <1>t DEF DiscoveryFails, CountsTyped, Fault
  <2>3. SessionsTyped'
    BY <1>11, <1>t DEF DiscoveryFails, SessionsTyped
  <2>4. ConnectionTyped'
    BY <1>11, <1>t, <1>q, <1>i, <1>c DEF DiscoveryFails, ConnectionTyped, Takes
  <2> QED
    BY <2>1, <2>2, <2>3, <2>4 DEF Typed
<1>12. CASE UdpFails
  <2>1. FlagsTyped'
    BY <1>12, <1>t DEF UdpFails, FlagsTyped, AfterUdp
  <2>2. CountsTyped'
    BY <1>12, <1>t DEF UdpFails, CountsTyped, Fault
  <2>3. SessionsTyped'
    BY <1>12, <1>t DEF UdpFails, SessionsTyped
  <2>4. ConnectionTyped'
    BY <1>12, <1>t, <1>q, <1>i, <1>c DEF UdpFails, ConnectionTyped, Takes
  <2> QED
    BY <2>1, <2>2, <2>3, <2>4 DEF Typed
<1>13. CASE MediaDecrypts
  BY <1>13, <1>t, <1>q, <1>i, <1>c
  DEF MediaDecrypts, Typed, ConnectionTyped, FlagsTyped, CountsTyped, SessionsTyped, Takes, Fault
<1>14. CASE DecryptGivesUp
  <2>1. FlagsTyped'
    BY <1>14, <1>t DEF DecryptGivesUp, FlagsTyped
  <2>2. CountsTyped'
    BY <1>14, <1>t DEF DecryptGivesUp, CountsTyped, Fault
  <2>3. SessionsTyped'
    BY <1>14, <1>t DEF DecryptGivesUp, SessionsTyped
  <2>4. ConnectionTyped'
    BY <1>14, <1>t, <1>q, <1>i, <1>c DEF DecryptGivesUp, ConnectionTyped, Emitted
  <2> QED
    BY <2>1, <2>2, <2>3, <2>4 DEF Typed
<1>15. CASE AcceptHello
  BY <1>15, <1>t, <1>q, <1>i, <1>c
  DEF AcceptHello, Typed, ConnectionTyped, FlagsTyped, CountsTyped, SessionsTyped, Takes, Fault
<1>16. CASE AcceptReady
  <2>1. FlagsTyped'
    BY <1>16, <1>t DEF AcceptReady, FlagsTyped
  <2>2. CountsTyped'
    BY <1>16, <1>t DEF AcceptReady, CountsTyped, Fault
  <2>3. SessionsTyped'
    <3>1. Head(inbox).session \in Sessions
      BY <1>16, <1>d, <1>f DEF AcceptReady, Takes
    <3> QED
      BY <1>16, <1>t, <3>1 DEF AcceptReady, SessionsTyped
  <2>4. ConnectionTyped'
    BY <1>16, <1>t, <1>q, <1>i, <1>c DEF AcceptReady, ConnectionTyped, Takes
  <2> QED
    BY <2>1, <2>2, <2>3, <2>4 DEF Typed
<1>17. CASE AcceptDescription
  <2>1. FlagsTyped'
    BY <1>17, <1>t DEF AcceptDescription, FlagsTyped
  <2>2. CountsTyped'
    BY <1>17, <1>t DEF AcceptDescription, CountsTyped, Fault
  <2>3. SessionsTyped'
    BY <1>17, <1>t DEF AcceptDescription, SessionsTyped
  <2>4. ConnectionTyped'
    <3>1. Head(inbox).session \in Sessions
      BY <1>17, <1>d, <1>f DEF AcceptDescription, Takes
    <3>2. CASE discovered = None
      BY <1>17, <1>q, <1>i, <3>2 DEF AcceptDescription, Takes
    <3>3. CASE discovered # None
      <4>1. attempts' \in 0 .. MaxAttempts
        BY <1>17, <1>t, <3>3, PolicyAssumption
        DEF AcceptDescription, ConnectionTyped
      <4>2. {discovered, session, cipher}' \subseteq Sessions \cup {None}
        BY <1>17, <1>t, <3>1, <3>3 DEF AcceptDescription, ConnectionTyped
      <4> QED
        BY <1>17, <1>t, <1>i, <3>3, <4>1, <4>2
        DEF AcceptDescription, ConnectionTyped, Takes
    <3> QED
      BY <3>2, <3>3
  <2> QED
    BY <2>1, <2>2, <2>3, <2>4 DEF Typed
<1>18. CASE AcceptResumed
  BY <1>18, <1>t, <1>q, <1>i, <1>c
  DEF AcceptResumed, Typed, ConnectionTyped, FlagsTyped, CountsTyped, SessionsTyped, Takes, Fault
<1>19. CASE AcceptDave
  BY <1>19, <1>t, <1>q, <1>i, <1>c
  DEF AcceptDave, Typed, ConnectionTyped, FlagsTyped, CountsTyped, SessionsTyped, Takes, Fault
<1>20. CASE AcceptDone
  <2>1. FlagsTyped'
    BY <1>20, <1>t DEF AcceptDone, FlagsTyped, AwaitCredentials
  <2>2. CountsTyped'
    BY <1>20, <1>t DEF AcceptDone, CountsTyped, Fault
  <2>3. SessionsTyped'
    BY <1>20, <1>t DEF AcceptDone, SessionsTyped
  <2>4. ConnectionTyped'
    BY <1>20, <1>t, <1>q, <1>i, <1>c, <1>n, <1>m
    DEF AcceptDone, ConnectionTyped, Takes, AwaitCredentials, NewGeneration, DropMedia
  <2> QED
    BY <2>1, <2>2, <2>3, <2>4 DEF Typed
<1>21. CASE AcceptAck
  <2>1. FlagsTyped'
    BY <1>21, <1>t DEF AcceptAck, FlagsTyped
  <2>2. CountsTyped'
    BY <1>21, <1>t DEF AcceptAck, CountsTyped, Fault
  <2>3. SessionsTyped'
    BY <1>21, <1>t DEF AcceptAck, SessionsTyped
  <2>4. ConnectionTyped'
    BY <1>21, <1>t, <1>q, <1>i, <1>c DEF AcceptAck, ConnectionTyped, Takes
  <2> QED
    BY <2>1, <2>2, <2>3, <2>4 DEF Typed
<1>22. CASE AcceptUnusable
  <2>1. FlagsTyped'
    BY <1>22, <1>t DEF AcceptUnusable, FlagsTyped
  <2>2. CountsTyped'
    BY <1>22, <1>t DEF AcceptUnusable, CountsTyped, Fault
  <2>3. SessionsTyped'
    BY <1>22, <1>t DEF AcceptUnusable, SessionsTyped
  <2>4. ConnectionTyped'
    BY <1>22, <1>t, <1>q, <1>i, <1>c DEF AcceptUnusable, ConnectionTyped, Takes
  <2> QED
    BY <2>1, <2>2, <2>3, <2>4 DEF Typed
<1>23. CASE ServerIdentifies
  <2>1. FlagsTyped'
    BY <1>23, <1>t DEF ServerIdentifies, FlagsTyped
  <2>2. CountsTyped'
    BY <1>23, <1>t DEF ServerIdentifies, CountsTyped, Fault
  <2>3. SessionsTyped'
    BY <1>23, <1>t, <1>s DEF ServerIdentifies, SessionsTyped
  <2>4. ConnectionTyped'
    BY <1>23, <1>t, <1>q, <1>i, <1>c, <1>n, <1>m, <1>s
    DEF ServerIdentifies, ConnectionTyped, Takes, Answers, ClosesWith, Reads
  <2> QED
    BY <2>1, <2>2, <2>3, <2>4 DEF Typed
<1>24. CASE ServerResumes
  <2>1. FlagsTyped'
    BY <1>24, <1>t DEF ServerResumes, FlagsTyped
  <2>2. CountsTyped'
    BY <1>24, <1>t DEF ServerResumes, CountsTyped, Fault
  <2>3. SessionsTyped'
    BY <1>24, <1>t DEF ServerResumes, SessionsTyped
  <2>4. ConnectionTyped'
    BY <1>24, <1>t, <1>q, <1>i, <1>c, <1>n, <1>m
    DEF ServerResumes, ConnectionTyped, Takes, Answers, ClosesWith, Reads
  <2> QED
    BY <2>1, <2>2, <2>3, <2>4 DEF Typed
<1>25. CASE ServerSelects
  <2>1. FlagsTyped'
    BY <1>25, <1>t DEF ServerSelects, FlagsTyped
  <2>2. CountsTyped'
    BY <1>25, <1>t DEF ServerSelects, CountsTyped, Fault
  <2>3. SessionsTyped'
    BY <1>25, <1>t DEF ServerSelects, SessionsTyped
  <2>4. ConnectionTyped'
    BY <1>25, <1>t, <1>q, <1>i, <1>c, <1>n, <1>m, <1>t
    DEF ServerSelects, ConnectionTyped, Takes, Answers, ClosesWith, Reads, SessionsTyped
  <2> QED
    BY <2>1, <2>2, <2>3, <2>4 DEF Typed
<1>26. CASE ServerSendsDave
  <2>1. FlagsTyped'
    BY <1>26, <1>t DEF ServerSendsDave, FlagsTyped
  <2>2. CountsTyped'
    BY <1>26, <1>t DEF ServerSendsDave, CountsTyped, Fault
  <2>3. SessionsTyped'
    BY <1>26, <1>t DEF ServerSendsDave, SessionsTyped
  <2>4. ConnectionTyped'
    BY <1>26, <1>t, <1>q, <1>i, <1>c, <1>n, <1>m
    DEF ServerSendsDave, ConnectionTyped, Takes
  <2> QED
    BY <2>1, <2>2, <2>3, <2>4 DEF Typed
<1>27. CASE ServerCloses
  <2>1. FlagsTyped'
    BY <1>27, <1>t DEF ServerCloses, FlagsTyped
  <2>2. CountsTyped'
    BY <1>27, <1>t DEF ServerCloses, CountsTyped, Fault
  <2>3. SessionsTyped'
    BY <1>27, <1>t DEF ServerCloses, SessionsTyped
  <2>4. ConnectionTyped'
    BY <1>27, <1>t, <1>q, <1>i, <1>c, <1>n, <1>m
    DEF ServerCloses, ConnectionTyped, Takes, ClosesWith
  <2> QED
    BY <2>1, <2>2, <2>3, <2>4 DEF Typed
<1>28. CASE ServerForgets
  <2>1. FlagsTyped'
    BY <1>28, <1>t DEF ServerForgets, FlagsTyped
  <2>2. CountsTyped'
    BY <1>28, <1>t DEF ServerForgets, CountsTyped, Fault
  <2>3. SessionsTyped'
    BY <1>28, <1>t DEF ServerForgets, SessionsTyped
  <2>4. ConnectionTyped'
    BY <1>28, <1>t, <1>q, <1>i, <1>c DEF ServerForgets, ConnectionTyped, Takes
  <2> QED
    BY <2>1, <2>2, <2>3, <2>4 DEF Typed
<1>29. CASE LinkBreaks
  <2>1. FlagsTyped'
    BY <1>29, <1>t DEF LinkBreaks, FlagsTyped
  <2>2. CountsTyped'
    BY <1>29, <1>t DEF LinkBreaks, CountsTyped, Fault
  <2>3. SessionsTyped'
    BY <1>29, <1>t DEF LinkBreaks, SessionsTyped
  <2>4. ConnectionTyped'
    BY <1>29, <1>t, <1>q, <1>i, <1>c DEF LinkBreaks, ConnectionTyped, Takes
  <2> QED
    BY <2>1, <2>2, <2>3, <2>4 DEF Typed
<1>30. CASE BrokenLinkEnds
  <2>1. FlagsTyped'
    BY <1>30, <1>t DEF BrokenLinkEnds, FlagsTyped
  <2>2. CountsTyped'
    BY <1>30, <1>t DEF BrokenLinkEnds, CountsTyped, Fault
  <2>3. SessionsTyped'
    BY <1>30, <1>t DEF BrokenLinkEnds, SessionsTyped
  <2>4. ConnectionTyped'
    BY <1>30, <1>t, <1>q, <1>i, <1>c, <1>n, <1>m
    DEF BrokenLinkEnds, ConnectionTyped, Takes, ClosesWith
  <2> QED
    BY <2>1, <2>2, <2>3, <2>4 DEF Typed
<1>31. CASE UNCHANGED vars
  BY <1>31, <1>t, <1>c DEF vars, Typed, FlagsTyped, CountsTyped, SessionsTyped
<1> QED
  BY <1>1, <1>2, <1>3, <1>4, <1>5, <1>6, <1>7, <1>8, <1>9, <1>10, <1>11, <1>12, <1>13, <1>14, <1>15, <1>16, <1>17, <1>18, <1>19, <1>20, <1>21, <1>22, <1>23, <1>24, <1>25, <1>26, <1>27, <1>28, <1>29, <1>30, <1>31
  DEF Next, User, Timers, Media, TakeFrame, External, ServerReads


\* _scheduleReconnect, _fail and _send leave one holder, and take a turn only
\* where the socket gives up its own.
LEMMA HelpersHold ==
    ASSUME OneHolder, WireInv, QuietInv, NEW q, NEW resumable,
           listening \/ q = inbox, UNCHANGED disposal
    PROVE  /\ Unmoved(q) => OneHolder' /\ WireInv' /\ Turns' = Turns
           /\ Fail(q) => OneHolder' /\ WireInv' /\ Turns' <= Turns /\ ~dialing'
           /\ ScheduleReconnect(q, resumable) =>
                 /\ OneHolder' /\ WireInv' /\ ~dialing'
                 /\ Turns' <= Turns + 1 /\ (listening => Turns' <= Turns)
<1> USE DEF OneHolder, owner, closing, Emitted, NewGeneration, HangUp
<1>1. ASSUME Unmoved(q) PROVE OneHolder' /\ WireInv' /\ Turns' = Turns
  BY <1>1 DEF Unmoved, WireInv, Turns, Count
<1>2. ASSUME Fail(q)
      PROVE  OneHolder' /\ WireInv' /\ Turns' <= Turns /\ ~dialing'
  <2>1. CASE closing \/ failed
    BY <1>1, <1>2, <2>1
    DEF Fail, QuietInv, TerminalIsQuiet, Unmoved, Turns, Count
  <2>2. CASE ~(closing \/ failed)
    <3>1. OneHolder' /\ ~dialing'
      BY <1>2, <2>2 DEF Fail
    <3>2. WireInv'
      BY <1>2, <2>2 DEF Fail, WireInv
    <3>3. Turns' <= Turns
      BY <1>2, <2>2 DEF Fail, Turns, Count
    <3> QED
      BY <3>1, <3>2, <3>3
  <2> QED
    BY <2>1, <2>2
<1>3. ASSUME ScheduleReconnect(q, resumable)
      PROVE  /\ OneHolder' /\ WireInv' /\ ~dialing'
             /\ Turns' <= Turns + 1 /\ (listening => Turns' <= Turns)
  <2>0. Turns \in Int
    BY DEF Turns, Count
  <2>1. CASE ReconnectIgnored
    BY <1>1, <1>3, <2>0, <2>1
    DEF ScheduleReconnect, ReconnectIgnored, QuietInv, TerminalIsQuiet, Unmoved
  <2>2. CASE ~ReconnectIgnored /\ attempts >= MaxAttempts
    BY <1>2, <1>3, <2>0, <2>2 DEF ScheduleReconnect, Turns, Count
  <2>3. CASE ~ReconnectIgnored /\ ~(attempts >= MaxAttempts)
    <3>1. OneHolder' /\ ~dialing'
      BY <1>3, <2>3 DEF ScheduleReconnect, ReconnectIgnored
    <3>2. WireInv'
      BY <1>3, <2>3 DEF ScheduleReconnect, WireInv
    <3>3. Turns' <= Turns + 1 /\ (listening => Turns' <= Turns)
      BY <1>3, <2>3 DEF ScheduleReconnect, ReconnectIgnored, Turns, Count
    <3> QED
      BY <3>1, <3>2, <3>3
  <2> QED
    BY <2>1, <2>2, <2>3
<1> QED
  BY <1>1, <1>2, <1>3

\* What the helpers do to the holder: nothing, or a turn is taken.
TurnKept == OneHolder' /\ WireInv' /\ Turns' <= Turns /\ (dialing' => dialing)
TurnTaken ==
    /\ OneHolder' /\ WireInv' /\ ~dialing'
    /\ Turns' <= Turns + 1 /\ (listening => Turns' <= Turns)

LEMMA HolderStep ==
    ShapeInv /\ [Next]_vars => HolderInv'
<1> SUFFICES ASSUME ShapeInv, [Next]_vars
             PROVE  HolderInv'
  OBVIOUS
<1> USE DEF secrets, server, history, bounds, owner, wire, media, HolderInv
<1>n. dials \in Nat /\ faults \in Nat /\ writes \in Nat /\ Turns \in Int
  BY BoundsAssumption DEF ShapeInv, Typed, CountsTyped, Turns, Count
<1>v. HolderInv /\ QuietInv
  BY DEF ShapeInv
<1>q. ASSUME NEW q, NEW resumable, listening \/ q = inbox, UNCHANGED disposal
      PROVE  /\ Unmoved(q) => TurnKept
             /\ Fail(q) => TurnKept
             /\ ScheduleReconnect(q, resumable) => TurnTaken
  BY <1>q, <1>v, <1>n, HelpersHold DEF Unmoved, TurnKept, TurnTaken
<1>s. ASSUME NEW q, NEW resumable, listening \/ q = inbox, UNCHANGED disposal,
             Send(q, <<>>, resumable)
      PROVE  TurnKept \/ TurnTaken
  <2>1. CASE ScheduleReconnect(q, resumable)
    BY <1>q, <1>s, <2>1
  <2>2. CASE ~ScheduleReconnect(q, resumable)
    <3>1. OneHolder' /\ Turns' = Turns /\ UNCHANGED dialing
      BY <1>s, <1>v, <2>2 DEF Send, OneHolder, Turns, Count
    <3>2. WireInv'
      BY <1>s, <1>v, <2>2 DEF Send, WireInv
    <3> QED
      BY <3>1, <3>2, <1>n DEF TurnKept
  <2> QED
    BY <2>1, <2>2
<1>c. ASSUME UNCHANGED connection, UNCHANGED disposal PROVE TurnKept
  BY <1>c, <1>v, <1>n DEF connection, OneHolder, WireInv, Turns, Count, TurnKept
\* A turn kept, or taken by a fault, a write or the socket itself.
<1>k. ASSUME TurnKept, UNCHANGED <<dials, writes>>,
             UNCHANGED faults \/ faults' = faults + 1
      PROVE  HolderInv'
  BY <1>k, <1>v, <1>n DEF TurnKept, DialBudget, Turns, Count
<1>l. ASSUME TurnTaken, UNCHANGED <<dials, faults, writes>>, listening
      PROVE  HolderInv'
  BY <1>l, <1>v, <1>n DEF TurnTaken, DialBudget, Turns, Count
<1>e. ASSUME TurnTaken, UNCHANGED dials \/ dials' = dials - 1,
             \/ faults' = faults + 1 /\ UNCHANGED writes
             \/ writes' = writes + 1 /\ UNCHANGED faults
      PROVE  HolderInv'
  BY <1>e, <1>v, <1>n DEF TurnTaken, DialBudget, Turns, Count
<1>1. CASE Connect
  <2>1. OneHolder'
    BY <1>1, <1>v
    DEF Connect, OneHolder, Takes, NewGeneration, Emitted, ClosesWith, Answers, QuietInv, TerminalIsQuiet, closing
  <2>2. WireInv'
    BY <1>1, <1>v
    DEF Connect, WireInv, HangUp, ClosesWith, Answers, Reads, Takes, OneHolder
  <2>3. DialBudget'
    BY <1>1, <1>n, <1>v
    DEF Connect, DialBudget, Turns, Count, Fault, Emitted, OneHolder, NewGeneration, Takes
  <2> QED
    BY <2>1, <2>2, <2>3
<1>2. CASE Write
  <2>1. /\ UNCHANGED <<disposal, dials, faults>> /\ writes' = writes + 1
        /\ Send(inbox, <<>>, canResume)
    BY <1>2 DEF Write
  <2>2. CASE TurnTaken
    BY <2>1, <2>2, <1>e
  <2>3. CASE TurnKept
    BY <2>1, <2>3, <1>n, <1>v DEF TurnKept, DialBudget, Turns, Count
  <2> QED
    BY <2>1, <2>2, <2>3, <1>s
<1>3. CASE CloseBegin
  <2>1. OneHolder'
    BY <1>3, <1>v
    DEF CloseBegin, OneHolder, Takes, NewGeneration, Emitted, ClosesWith, Answers, QuietInv, TerminalIsQuiet, closing
  <2>2. WireInv'
    BY <1>3, <1>v
    DEF CloseBegin, WireInv, HangUp, ClosesWith, Answers, Reads, Takes, OneHolder
  <2>3. DialBudget'
    BY <1>3, <1>n, <1>v
    DEF CloseBegin, DialBudget, Turns, Count, Fault, Emitted, OneHolder, NewGeneration, Takes
  <2> QED
    BY <2>1, <2>2, <2>3
<1>4. CASE CloseEnd
  <2>1. OneHolder'
    BY <1>4, <1>v
    DEF CloseEnd, OneHolder, Takes, NewGeneration, Emitted, ClosesWith, Answers, QuietInv, TerminalIsQuiet, closing
  <2>2. WireInv'
    BY <1>4, <1>v
    DEF CloseEnd, WireInv, HangUp, ClosesWith, Answers, Reads, Takes, OneHolder
  <2>3. DialBudget'
    BY <1>4, <1>n, <1>v
    DEF CloseEnd, DialBudget, Turns, Count, Fault, Emitted, OneHolder, NewGeneration, Takes
  <2> QED
    BY <2>1, <2>2, <2>3
<1>5. CASE ReconnectTimer
  <2>1. OneHolder'
    BY <1>5, <1>v
    DEF ReconnectTimer, OneHolder, Takes, NewGeneration, Emitted, ClosesWith, Answers, QuietInv, TerminalIsQuiet, closing
  <2>2. WireInv'
    BY <1>5, <1>v
    DEF ReconnectTimer, WireInv, HangUp, ClosesWith, Answers, Reads, Takes, OneHolder
  <2>3. DialBudget'
    BY <1>5, <1>n, <1>v
    DEF ReconnectTimer, DialBudget, Turns, Count, Fault, Emitted, OneHolder, NewGeneration, Takes
  <2> QED
    BY <2>1, <2>2, <2>3
<1>6. CASE HeartbeatTimer
  <2>1. /\ UNCHANGED <<disposal, dials, writes>> /\ listening
        /\ UNCHANGED faults \/ faults' = faults + 1
    BY <1>6, <1>v DEF HeartbeatTimer, OneHolder, Fault
  <2>2. CASE TurnTaken
    BY <2>1, <2>2, <1>e, <1>l
  <2>3. CASE TurnKept
    BY <2>1, <2>3, <1>k
  <2>4. ScheduleReconnect(inbox, FALSE) \/ Send(inbox, <<>>, canResume)
    BY <1>6 DEF HeartbeatTimer
  <2> QED
    BY <2>1, <2>2, <2>3, <2>4, <1>q, <1>s
<1>7. CASE DialSucceeds
  <2>1. OneHolder'
    BY <1>7, <1>v
    DEF DialSucceeds, OneHolder, Takes, NewGeneration, Emitted, ClosesWith, Answers, QuietInv, TerminalIsQuiet, closing
  <2>2. WireInv'
    BY <1>7, <1>v
    DEF DialSucceeds, WireInv, HangUp, ClosesWith, Answers, Reads, Takes, OneHolder
  <2>3. DialBudget'
    BY <1>7, <1>n, <1>v
    DEF DialSucceeds, DialBudget, Turns, Count, Fault, Emitted, OneHolder, NewGeneration, Takes
  <2> QED
    BY <2>1, <2>2, <2>3
<1>8. CASE StrayArrives
  <2>1. /\ UNCHANGED connection /\ UNCHANGED <<disposal, faults, writes>>
        /\ dials' = dials - 1 /\ dials > (IF dialing THEN 1 ELSE 0)
    BY <1>8 DEF StrayArrives
  <2>2. TurnKept
    BY <2>1, <1>c
  <2> QED
    BY <2>1, <2>2, <1>n, <1>v DEF TurnKept, DialBudget, Turns, Count
<1>9. CASE DialFails
  <2>1. /\ UNCHANGED <<disposal, writes>> /\ dials' = dials - 1
        /\ faults' = faults + 1 /\ ScheduleReconnect(inbox, canResume)
    BY <1>9 DEF DialFails, Fault
  <2> QED
    BY <2>1, <1>q, <1>e
<1>10. CASE DiscoveryFinds
  <2>1. UNCHANGED <<disposal, dials, faults, writes>>
    BY <1>10 DEF DiscoveryFinds, DiscoveryIsCurrent
  <2>2. CASE UNCHANGED connection
    BY <2>1, <2>2, <1>c, <1>k
  <2>3. CASE probing /\ ScheduleReconnect(inbox, canResume)
    BY <2>1, <2>3, <1>v, <1>q, <1>l DEF OneHolder
  <2>4. CASE ~UNCHANGED connection /\ ~ScheduleReconnect(inbox, canResume)
    <3>1. TurnKept
      BY <1>10, <1>v, <1>n, <2>1, <2>4
      DEF DiscoveryFinds, DiscoveryIsCurrent, TurnKept, OneHolder, WireInv, Turns, Count
    <3> QED
      BY <2>1, <3>1, <1>k
  <2> QED
    BY <1>10, <2>2, <2>3, <2>4 DEF DiscoveryFinds, DiscoveryIsCurrent
<1>11. CASE DiscoveryFails
  <2>1. /\ UNCHANGED <<disposal, dials, writes>> /\ faults' = faults + 1
        /\ Fail(inbox) \/ UNCHANGED connection
    BY <1>11 DEF DiscoveryFails, Fault
  <2> QED
    BY <2>1, <1>q, <1>c, <1>k
<1>12. CASE UdpFails
  <2>1. /\ UNCHANGED <<disposal, dials, writes>> /\ faults' = faults + 1
        /\ UNCHANGED connection \/ ScheduleReconnect(inbox, AfterUdp)
    BY <1>12 DEF UdpFails, Fault
  <2> QED
    BY <2>1, <1>q, <1>c, <1>k, <1>e
<1>13. CASE MediaDecrypts
  <2>1. /\ UNCHANGED connection /\ UNCHANGED <<disposal, dials, writes>>
        /\ UNCHANGED faults \/ faults' = faults + 1
    BY <1>13 DEF MediaDecrypts, Fault
  <2> QED
    BY <2>1, <1>c, <1>k
<1>14. CASE DecryptGivesUp
  <2>1. OneHolder'
    BY <1>14, <1>v
    DEF DecryptGivesUp, OneHolder, Takes, NewGeneration, Emitted, ClosesWith, Answers, QuietInv, TerminalIsQuiet, closing
  <2>2. WireInv'
    BY <1>14, <1>v
    DEF DecryptGivesUp, WireInv, HangUp, ClosesWith, Answers, Reads, Takes, OneHolder
  <2>3. DialBudget'
    BY <1>14, <1>n, <1>v
    DEF DecryptGivesUp, DialBudget, Turns, Count, Fault, Emitted, OneHolder, NewGeneration, Takes
  <2> QED
    BY <2>1, <2>2, <2>3
<1>15. CASE AcceptHello
  <2>1. OneHolder'
    BY <1>15, <1>v
    DEF AcceptHello, OneHolder, Takes, NewGeneration, Emitted, ClosesWith, Answers, QuietInv, TerminalIsQuiet, closing
  <2>2. WireInv'
    BY <1>15, <1>v
    DEF AcceptHello, WireInv, HangUp, ClosesWith, Answers, Reads, Takes, OneHolder
  <2>3. DialBudget'
    BY <1>15, <1>n, <1>v
    DEF AcceptHello, DialBudget, Turns, Count, Fault, Emitted, OneHolder, NewGeneration, Takes
  <2> QED
    BY <2>1, <2>2, <2>3
<1>16. CASE AcceptReady
  <2>1. OneHolder'
    BY <1>16, <1>v
    DEF AcceptReady, OneHolder, Takes, NewGeneration, Emitted, ClosesWith, Answers, QuietInv, TerminalIsQuiet, closing
  <2>2. WireInv'
    BY <1>16, <1>v
    DEF AcceptReady, WireInv, HangUp, ClosesWith, Answers, Reads, Takes, OneHolder
  <2>3. DialBudget'
    BY <1>16, <1>n, <1>v
    DEF AcceptReady, DialBudget, Turns, Count, Fault, Emitted, OneHolder, NewGeneration, Takes
  <2> QED
    BY <2>1, <2>2, <2>3
<1>17. CASE AcceptDescription
  <2>1. UNCHANGED <<disposal, dials, faults, writes>> /\ listening
    BY <1>17 DEF AcceptDescription, Takes
  <2>2. CASE discovered = None
    BY <1>17, <2>1, <2>2, <1>q, <1>k DEF AcceptDescription
  <2>3. CASE discovered # None
    <3>1. TurnKept
      BY <1>17, <1>v, <1>n, <2>1, <2>3
      DEF AcceptDescription, TurnKept, OneHolder, WireInv, Turns, Count
    <3> QED
      BY <2>1, <3>1, <1>k
  <2> QED
    BY <2>2, <2>3
<1>18. CASE AcceptResumed
  <2>1. OneHolder'
    BY <1>18, <1>v
    DEF AcceptResumed, OneHolder, Takes, NewGeneration, Emitted, ClosesWith, Answers, QuietInv, TerminalIsQuiet, closing
  <2>2. WireInv'
    BY <1>18, <1>v
    DEF AcceptResumed, WireInv, HangUp, ClosesWith, Answers, Reads, Takes, OneHolder
  <2>3. DialBudget'
    BY <1>18, <1>n, <1>v
    DEF AcceptResumed, DialBudget, Turns, Count, Fault, Emitted, OneHolder, NewGeneration, Takes
  <2> QED
    BY <2>1, <2>2, <2>3
<1>19. CASE AcceptDave
  <2>1. /\ UNCHANGED <<disposal, dials, faults, writes>> /\ listening
        /\ Send(Tail(inbox), <<>>, canResume) \/ Fail(Tail(inbox))
    BY <1>19 DEF AcceptDave, Takes
  <2> QED
    BY <2>1, <1>q, <1>s, <1>k, <1>l
<1>20. CASE AcceptDone
  <2>1. /\ UNCHANGED <<disposal, dials, faults, writes>> /\ listening
        /\ \/ ScheduleReconnect(Tail(inbox), canResume)
           \/ AwaitCredentials
           \/ Fail(Tail(inbox))
    BY <1>20 DEF AcceptDone, Takes
  <2>2. CASE AwaitCredentials
    <3>1. TurnKept
      BY <1>v, <1>n, <2>1, <2>2
      DEF AwaitCredentials, NewGeneration, TurnKept, OneHolder, WireInv, Turns,
          Count, QuietInv, TerminalIsQuiet
    <3> QED
      BY <2>1, <3>1, <1>k
  <2> QED
    BY <2>1, <2>2, <1>q, <1>k, <1>l
<1>21. CASE AcceptAck
  <2>1. /\ UNCHANGED connection /\ UNCHANGED <<disposal, dials, writes>>
        /\ UNCHANGED faults \/ faults' = faults + 1
    BY <1>21 DEF AcceptAck, Fault
  <2> QED
    BY <2>1, <1>c, <1>k
<1>22. CASE AcceptUnusable
  <2>1. /\ UNCHANGED <<disposal, dials, writes>> /\ listening
        /\ faults' = faults + 1 /\ Fail(Tail(inbox))
    BY <1>22 DEF AcceptUnusable, Fault
  <2> QED
    BY <2>1, <1>q, <1>k
<1>23. CASE ServerIdentifies
  <2>1. OneHolder'
    BY <1>23, <1>v
    DEF ServerIdentifies, OneHolder, Takes, NewGeneration, Emitted, ClosesWith, Answers, QuietInv, TerminalIsQuiet, closing
  <2>2. WireInv'
    BY <1>23, <1>v
    DEF ServerIdentifies, WireInv, HangUp, ClosesWith, Answers, Reads, Takes, OneHolder
  <2>3. DialBudget'
    BY <1>23, <1>n, <1>v
    DEF ServerIdentifies, DialBudget, Turns, Count, Fault, Emitted, OneHolder, NewGeneration, Takes
  <2> QED
    BY <2>1, <2>2, <2>3
<1>24. CASE ServerResumes
  <2>1. OneHolder'
    BY <1>24, <1>v
    DEF ServerResumes, OneHolder, Takes, NewGeneration, Emitted, ClosesWith, Answers, QuietInv, TerminalIsQuiet, closing
  <2>2. WireInv'
    BY <1>24, <1>v
    DEF ServerResumes, WireInv, HangUp, ClosesWith, Answers, Reads, Takes, OneHolder
  <2>3. DialBudget'
    BY <1>24, <1>n, <1>v
    DEF ServerResumes, DialBudget, Turns, Count, Fault, Emitted, OneHolder, NewGeneration, Takes
  <2> QED
    BY <2>1, <2>2, <2>3
<1>25. CASE ServerSelects
  <2>1. OneHolder'
    BY <1>25, <1>v
    DEF ServerSelects, OneHolder, Takes, NewGeneration, Emitted, ClosesWith, Answers, QuietInv, TerminalIsQuiet, closing
  <2>2. WireInv'
    BY <1>25, <1>v
    DEF ServerSelects, WireInv, HangUp, ClosesWith, Answers, Reads, Takes, OneHolder
  <2>3. DialBudget'
    BY <1>25, <1>n, <1>v
    DEF ServerSelects, DialBudget, Turns, Count, Fault, Emitted, OneHolder, NewGeneration, Takes
  <2> QED
    BY <2>1, <2>2, <2>3
<1>26. CASE ServerSendsDave
  <2>1. OneHolder'
    BY <1>26, <1>v
    DEF ServerSendsDave, OneHolder, Takes, NewGeneration, Emitted, ClosesWith, Answers, QuietInv, TerminalIsQuiet, closing
  <2>2. WireInv'
    BY <1>26, <1>v
    DEF ServerSendsDave, WireInv, HangUp, ClosesWith, Answers, Reads, Takes, OneHolder
  <2>3. DialBudget'
    BY <1>26, <1>n, <1>v
    DEF ServerSendsDave, DialBudget, Turns, Count, Fault, Emitted, OneHolder, NewGeneration, Takes
  <2> QED
    BY <2>1, <2>2, <2>3
<1>27. CASE ServerCloses
  <2>1. OneHolder'
    BY <1>27, <1>v
    DEF ServerCloses, OneHolder, Takes, NewGeneration, Emitted, ClosesWith, Answers, QuietInv, TerminalIsQuiet, closing
  <2>2. WireInv'
    BY <1>27, <1>v
    DEF ServerCloses, WireInv, HangUp, ClosesWith, Answers, Reads, Takes, OneHolder
  <2>3. DialBudget'
    BY <1>27, <1>n, <1>v
    DEF ServerCloses, DialBudget, Turns, Count, Fault, Emitted, OneHolder, NewGeneration, Takes
  <2> QED
    BY <2>1, <2>2, <2>3
<1>28. CASE ServerForgets
  <2>1. /\ UNCHANGED connection /\ UNCHANGED <<disposal, dials, writes>>
        /\ UNCHANGED faults \/ faults' = faults + 1
    BY <1>28 DEF ServerForgets, Fault
  <2> QED
    BY <2>1, <1>c, <1>k
<1>29. CASE LinkBreaks
  <2>1. OneHolder'
    BY <1>29, <1>v
    DEF LinkBreaks, OneHolder, Takes, NewGeneration, Emitted, ClosesWith, Answers, QuietInv, TerminalIsQuiet, closing
  <2>2. WireInv'
    BY <1>29, <1>v
    DEF LinkBreaks, WireInv, HangUp, ClosesWith, Answers, Reads, Takes, OneHolder
  <2>3. DialBudget'
    BY <1>29, <1>n, <1>v
    DEF LinkBreaks, DialBudget, Turns, Count, Fault, Emitted, OneHolder, NewGeneration, Takes
  <2> QED
    BY <2>1, <2>2, <2>3
<1>30. CASE BrokenLinkEnds
  <2>1. OneHolder'
    BY <1>30, <1>v
    DEF BrokenLinkEnds, OneHolder, Takes, NewGeneration, Emitted, ClosesWith, Answers, QuietInv, TerminalIsQuiet, closing
  <2>2. WireInv'
    BY <1>30, <1>v
    DEF BrokenLinkEnds, WireInv, HangUp, ClosesWith, Answers, Reads, Takes, OneHolder
  <2>3. DialBudget'
    BY <1>30, <1>n, <1>v
    DEF BrokenLinkEnds, DialBudget, Turns, Count, Fault, Emitted, OneHolder, NewGeneration, Takes
  <2> QED
    BY <2>1, <2>2, <2>3
<1>31. CASE UNCHANGED vars
  <2>1. UNCHANGED connection /\ UNCHANGED <<disposal, dials, faults, writes>>
    BY <1>31 DEF vars
  <2> QED
    BY <2>1, <1>c, <1>k
<1> QED
  BY <1>1, <1>2, <1>3, <1>4, <1>5, <1>6, <1>7, <1>8, <1>9, <1>10, <1>11, <1>12, <1>13, <1>14, <1>15, <1>16, <1>17, <1>18, <1>19, <1>20, <1>21, <1>22, <1>23, <1>24, <1>25, <1>26, <1>27, <1>28, <1>29, <1>30, <1>31
  DEF Next, User, Timers, Media, TakeFrame, External, ServerReads


LEMMA ShapeHolds == Spec => []ShapeInv
<1>1. Init => ShapeInv
  <2> SUFFICES ASSUME Init PROVE ShapeInv
    OBVIOUS
  <2>1. <<>> \in Seq(ServerFrames) /\ <<>> \in Seq(ClientFrames)
    OBVIOUS
  <2>2. ConnectionTyped
    <3>1. attempts \in 0 .. MaxAttempts
      BY PolicyAssumption DEF Init
    <3>2. {discovered, session, cipher} \subseteq Sessions \cup {None}
      BY DEF Init
    <3> QED
      BY <2>1, <3>1, <3>2 DEF Init, ConnectionTyped, Transports, Statuses
  <2>3. FlagsTyped
    BY DEF Init, FlagsTyped
  <2>4. CountsTyped /\ SessionsTyped
    BY BoundsAssumption, PolicyAssumption DEF Init, CountsTyped, SessionsTyped
  <2>5. QuietInv
    BY DEF Init, QuietInv, TerminalIsQuiet, FreshUntilConnected, closing
  <2>6. HolderInv
    BY DEF Init, HolderInv, OneHolder, DialBudget, Turns, Count, WireInv
  <2> QED
    BY <2>2, <2>3, <2>4, <2>5, <2>6 DEF ShapeInv, Typed
<1>2. ShapeInv /\ [Next]_vars => Typed' /\ HolderInv'
  BY TypedStep, HolderStep
<1> QED
  BY <1>1, <1>2, QuietStays, PTL DEF Spec, ShapeInv

\* Every variable keeps its type: no more dials are ever in flight than faults
\* and writes can have asked for, the backoff and the watchdog stop where they
\* should, and the queues hold frames.
THEOREM TypeCorrect == Spec => []TypeOK
<1>1. ShapeInv => TypeOK
  <2> SUFFICES ASSUME ShapeInv PROVE TypeOK
    OBVIOUS
  <2>1. dials \in 0 .. (MaxFaults + MaxWrites + 1)
    BY BoundsAssumption
    DEF ShapeInv, Typed, CountsTyped, HolderInv, DialBudget, Turns, Count
  <2> QED
    BY <2>1 DEF ShapeInv, Typed, ConnectionTyped, FlagsTyped, CountsTyped,
                SessionsTyped, TypeOK
<1> QED
  BY <1>1, ShapeHolds, PTL

-----------------------------------------------------------------------------
(* The media of the session: what each frame on its way says of it.         *)

\* The frames of a queue.
Held(q) == {q[i] : i \in 1 .. Len(q)}

\* READY comes once on a socket.
ReadyOnce(q) ==
    \A i, j \in 1 .. Len(q) : q[i].op = "ready" /\ q[j].op = "ready" => i = j

Opening == {"ready", "description", "resumed"}
Without(q, ops) == \A f \in Held(q) : f.op \notin ops

LEMMA HeldByTail ==
    ASSUME NEW S, NEW q \in Seq(S), q # <<>>
    PROVE  /\ Head(q) \in Held(q) /\ Held(Tail(q)) \subseteq Held(q)
           /\ ReadyOnce(q) => ReadyOnce(Tail(q))
           /\ ReadyOnce(q) /\ Head(q).op = "ready" => Without(Tail(q), {"ready"})
<1>1. /\ Len(q) \in Nat \ {0} /\ Head(q) = q[1] /\ Len(Tail(q)) = Len(q) - 1
      /\ \A i \in 1 .. Len(Tail(q)) : Tail(q)[i] = q[i + 1]
  OBVIOUS
<1>2. Head(q) \in Held(q)
  BY <1>1 DEF Held
<1>3. Held(Tail(q)) \subseteq Held(q)
  BY <1>1 DEF Held
<1>4. ASSUME ReadyOnce(q) PROVE ReadyOnce(Tail(q))
  <2> SUFFICES ASSUME NEW i \in 1 .. Len(Tail(q)), NEW j \in 1 .. Len(Tail(q)),
                      Tail(q)[i].op = "ready", Tail(q)[j].op = "ready"
               PROVE  i = j
    BY DEF ReadyOnce
  <2>1. i + 1 = j + 1
    BY <1>1, <1>4 DEF ReadyOnce
  <2> QED
    BY <2>1
<1>5. ASSUME ReadyOnce(q), Head(q).op = "ready"
      PROVE  Without(Tail(q), {"ready"})
  <2> SUFFICES ASSUME NEW i \in 1 .. Len(Tail(q)), Tail(q)[i].op = "ready"
               PROVE  FALSE
    BY DEF Without, Held
  <2>1. i + 1 = 1
    BY <1>1, <1>5 DEF ReadyOnce
  <2> QED
    BY <2>1
<1> QED
  BY <1>2, <1>3, <1>4, <1>5

LEMMA HeldByAppend ==
    ASSUME NEW S, NEW q \in Seq(S), NEW f \in S
    PROVE  /\ Held(Append(q, f)) = Held(q) \cup {f}
           /\ ReadyOnce(q) /\ (f.op # "ready" \/ Without(q, {"ready"}))
                 => ReadyOnce(Append(q, f))
<1>1. /\ Len(q) \in Nat /\ Len(Append(q, f)) = Len(q) + 1
      /\ Append(q, f)[Len(q) + 1] = f
      /\ \A i \in 1 .. Len(q) : Append(q, f)[i] = q[i]
  OBVIOUS
<1>2. Held(Append(q, f)) = Held(q) \cup {f}
  BY <1>1 DEF Held
<1>3. ASSUME ReadyOnce(q), f.op # "ready" \/ Without(q, {"ready"})
      PROVE  ReadyOnce(Append(q, f))
  <2> SUFFICES ASSUME NEW i \in 1 .. Len(q) + 1, NEW j \in 1 .. Len(q) + 1,
                      Append(q, f)[i].op = "ready", Append(q, f)[j].op = "ready"
               PROVE  i = j
    BY <1>1 DEF ReadyOnce
  <2>1. \A k \in 1 .. Len(q) : q[k] \in Held(q)
    BY DEF Held
  <2>2. CASE f.op # "ready"
    BY <1>1, <1>3, <2>2 DEF ReadyOnce
  <2>3. CASE Without(q, {"ready"})
    BY <1>1, <2>1, <2>3 DEF Without
  <2> QED
    BY <1>3, <2>2, <2>3
<1> QED
  BY <1>2, <1>3

LEMMA HeldByPrefix ==
    ASSUME NEW S, NEW q \in Seq(S), NEW k \in 0 .. Len(q)
    PROVE  /\ Held(SubSeq(q, 1, k)) \subseteq Held(q)
           /\ ReadyOnce(q) => ReadyOnce(SubSeq(q, 1, k))
<1>1. /\ Len(q) \in Nat /\ Len(SubSeq(q, 1, k)) = k
      /\ \A i \in 1 .. k : SubSeq(q, 1, k)[i] = q[i]
  OBVIOUS
<1>2. Held(SubSeq(q, 1, k)) \subseteq Held(q)
  BY <1>1 DEF Held
<1>3. ReadyOnce(q) => ReadyOnce(SubSeq(q, 1, k))
  BY <1>1 DEF ReadyOnce
<1> QED
  BY <1>2, <1>3

LEMMA HeldByOne ==
    ASSUME NEW f
    PROVE  /\ Held(<<>>) = {} /\ ReadyOnce(<<>>)
           /\ Held(<<f>>) = {f} /\ ReadyOnce(<<f>>)
           /\ <<f>> # <<>> /\ Head(<<f>>) = f /\ Tail(<<f>>) = <<>>
           /\ Append(<<>>, f) = <<f>>
  BY DEF Held, ReadyOnce

\* The session, its key and its UDP path are those of the last session the
\* server handed out, and no discovery is about to replace the path.
MediaLive ==
    /\ session # None /\ cipher = session /\ path = session
    /\ probe = None /\ session = issued

\* No new credentials were asked for, or the server would still resume.
Trusted == ~asked \/ (token /\ alive)

\* What may be resumed is live.
ResumableInv == (canResume /\ ~failed /\ ~closing /\ Trusted) => MediaLive

\* Only AwaitCredentials leaves no socket, and no session the server knows.
SocketlessInv == (socket = "none" /\ canResume) => ~Trusted

\* One frame is on its way to the server: it opens the connection, or it
\* selects the path that was just found.
OutboxInv ==
    \/ outbox = <<>>
    \/ /\ outbox = <<Op("identify")>> /\ bound = None
       /\ ~canResume /\ status # "ready"
    \/ outbox = <<Op("resume")>> /\ bound = None /\ (Trusted => MediaLive)
    \/ /\ outbox = <<Op("select")>> /\ bound # None
       /\ discovered = issued /\ path = issued /\ probe = None

\* What a frame on its way to the client says of the session.
ReadyFrame(f) == f.op = "ready" =>
    /\ f.session = bound /\ ~canResume /\ ~probing /\ status # "ready"
    /\ Without(inbox, {"description", "resumed"})
DescriptionFrame(f) == f.op = "description" =>
    f.session = bound /\ discovered = issued /\ path = issued /\ probe = None
DoneFrame(f) == f.op = "done" =>
    socket = "ended" /\ (f.cause = "ended" => ~(token /\ alive))
InboxInv == \A f \in Held(inbox) :
    /\ f.op \in Opening \cup {"dave"} => bound # None
    /\ f.op \in Opening => outbox = <<>>
    /\ f.op = "resumed" => MediaLive
    /\ ReadyFrame(f) /\ DescriptionFrame(f) /\ DoneFrame(f)

BoundInv == bound # None => bound = issued

\* A discovery of the current generation is for the session READY announced.
ProbeInv == probing =>
    /\ probe = issued /\ probe # None /\ bound # None
    /\ ~canResume /\ outbox = <<>> /\ status # "ready"
    /\ Without(inbox, Opening)

ReadyInv == (status = "ready" /\ listening) =>
    MediaLive /\ bound # None /\ Without(inbox, {"ready"})

MediaInv ==
    /\ ResumableInv /\ SocketlessInv /\ OutboxInv /\ InboxInv
    /\ BoundInv /\ ProbeInv /\ ReadyInv /\ ReadyOnce(inbox)

\* The state MediaInv is about but for the frames, the status and canResume.
scene == <<session, cipher, discovered, path, probe, probing, bound, issued,
           token, alive, asked, failed, disposal, listening, socket, outbox>>

\* Frames that go away, a status that is not ready, and a session that is no
\* longer to be resumed disturb nothing.
LEMMA CalmStep ==
    ASSUME MediaInv, UNCHANGED scene, canResume' = canResume \/ ~canResume',
           status' = status \/ status' # "ready",
           Held(inbox') \subseteq Held(inbox), ReadyOnce(inbox')
    PROVE  MediaInv'
<1> USE DEF MediaInv, scene, MediaLive, Trusted, closing, Without
<1>1. ResumableInv' /\ SocketlessInv' /\ BoundInv'
  BY DEF ResumableInv, SocketlessInv, BoundInv
<1>2. OutboxInv'
  BY DEF OutboxInv
<1>3. InboxInv'
  BY DEF InboxInv, ReadyFrame, DescriptionFrame, DoneFrame
<1>4. ProbeInv' /\ ReadyInv'
  BY DEF ProbeInv, ReadyInv
<1> QED
  BY <1>1, <1>2, <1>3, <1>4

\* A socket that was hung up leaves only what may be resumed.
LEMMA HungUpStep ==
    ASSUME inbox' = <<>>, outbox' = <<>>, ~listening', ~probing',
           BoundInv', ResumableInv', SocketlessInv'
    PROVE  MediaInv'
<1>1. Held(<<>>) = {} /\ ReadyOnce(<<>>)
  BY HeldByOne
<1> QED
  BY <1>1 DEF MediaInv, OutboxInv, InboxInv, ProbeInv, ReadyInv

\* _fail and _scheduleReconnect, when canResume stays or falls: a reconnect
\* keeps the media of what it is going to resume.
LEMMA HelpersKeepMedia ==
    ASSUME MediaInv, NEW q, Held(q) \subseteq Held(inbox), ReadyOnce(q),
           UNCHANGED <<disposal, bound, issued, token, alive, asked>>,
           canResume' = canResume \/ ~canResume'
    PROVE  /\ Fail(q) /\ UNCHANGED <<path, probe>> => MediaInv'
           /\ Fail(q) /\ ~closing /\ ~failed => MediaInv'
           /\ \A resumable :
                 /\ ScheduleReconnect(q, resumable) /\ (canResume' => resumable)
                 /\ UNCHANGED <<path, probe>> \/ (~canResume' /\ ~ReconnectIgnored)
                 => MediaInv'
<1> USE DEF MediaInv, closing
<1>1. ASSUME Unmoved(q), UNCHANGED <<path, probe>> PROVE MediaInv'
  BY <1>1, CalmStep DEF Unmoved, owner, media, scene
<1>2. ASSUME Fail(q), ~closing, ~failed PROVE MediaInv'
  <2>1. inbox' = <<>> /\ outbox' = <<>> /\ ~listening' /\ ~probing' /\ failed'
    BY <1>2 DEF Fail, HangUp, NewGeneration
  <2>2. BoundInv' /\ ResumableInv'
    BY <2>1 DEF BoundInv, ResumableInv
  <2>3. SocketlessInv'
    BY <1>2 DEF Fail, HangUp, SocketlessInv, Trusted
  <2> QED
    BY <2>1, <2>2, <2>3, HungUpStep
<1>3. ASSUME Fail(q), UNCHANGED <<path, probe>> PROVE MediaInv'
  BY <1>1, <1>2, <1>3 DEF Fail
<1>4. ASSUME NEW resumable, ScheduleReconnect(q, resumable),
             canResume' => resumable,
             UNCHANGED <<path, probe>> \/ (~canResume' /\ ~ReconnectIgnored)
      PROVE  MediaInv'
  <2>1. CASE ReconnectIgnored \/ attempts >= MaxAttempts
    BY <1>1, <1>2, <1>3, <1>4, <2>1 DEF ScheduleReconnect, ReconnectIgnored
  <2>2. CASE ~(ReconnectIgnored \/ attempts >= MaxAttempts)
    <3>1. /\ inbox' = <<>> /\ outbox' = <<>> /\ ~listening' /\ ~probing'
          /\ ~failed /\ ~closing
          /\ socket' = (IF socket = "none" THEN "none" ELSE "ended")
      BY <1>4, <2>2
      DEF ScheduleReconnect, HangUp, NewGeneration, ReconnectIgnored
    <3>2. BoundInv'
      BY DEF BoundInv
    <3>3. SocketlessInv'
      BY <3>1 DEF SocketlessInv, Trusted
    <3>4. canResume' => UNCHANGED media
      BY <1>4, <2>2 DEF ScheduleReconnect, KeepsMedia
    <3>5. ResumableInv'
      BY <1>4, <3>1, <3>4 DEF ResumableInv, Trusted, MediaLive, media
    <3> QED
      BY <3>1, <3>2, <3>3, <3>5, HungUpStep
  <2> QED
    BY <2>1, <2>2
<1> QED
  BY <1>2, <1>3, <1>4

\* A path found, or lost, while a discovery was in flight: nothing live used
\* the path.
LEMMA StrayDiscoveryStep ==
    ASSUME MediaInv, probe # None, ~probing, probe' = None, ~probing',
           UNCHANGED <<session, cipher, discovered, bound, issued, token, alive,
                       asked, failed, disposal, status, listening, socket,
                       outbox, inbox, canResume>>
    PROVE  MediaInv'
<1> USE DEF MediaInv, MediaLive, Trusted, closing, Without
<1>1. ResumableInv' /\ SocketlessInv' /\ BoundInv'
  BY DEF ResumableInv, SocketlessInv, BoundInv
<1>2. OutboxInv'
  BY DEF OutboxInv
<1>3. InboxInv'
  BY DEF InboxInv, ReadyFrame, DescriptionFrame, DoneFrame
<1>4. ProbeInv' /\ ReadyInv'
  BY DEF ProbeInv, ReadyInv
<1> QED
  BY <1>1, <1>2, <1>3, <1>4

\* A UDP path that is lost while the client closes disturbs MediaInv, and
\* nothing goes on with it: it is kept up to close().
LEMMA MediaStep ==
    MediaInv /\ ~closing /\ ShapeInv /\ [Next]_vars => MediaInv'
<1> SUFFICES ASSUME MediaInv, ~closing, ShapeInv, [Next]_vars
             PROVE  MediaInv'
  OBVIOUS
<1> USE DEF secrets, server, history, bounds, owner, wire, media
<1>v. QuietInv /\ OneHolder /\ WireInv
  BY DEF ShapeInv, HolderInv
<1>i. /\ inbox \in Seq(ServerFrames) /\ outbox \in Seq(ClientFrames)
      /\ MaxSessions \in Nat /\ issued \in Nat
  BY BoundsAssumption
  DEF ShapeInv, Typed, ConnectionTyped, SessionsTyped, Sessions, None
<1>o. Held(inbox) \subseteq Held(inbox) /\ ReadyOnce(inbox)
  BY DEF MediaInv
<1>t. inbox # <<>> =>
         /\ Head(inbox) \in Held(inbox) /\ Held(Tail(inbox)) \subseteq Held(inbox)
         /\ ReadyOnce(Tail(inbox))
         /\ Head(inbox).op = "ready" => Without(Tail(inbox), {"ready"})
  BY <1>i, <1>o, HeldByTail
<1>a. \A f \in ServerFrames :
         /\ Held(Append(inbox, f)) = Held(inbox) \cup {f}
         /\ f.op # "ready" \/ Without(inbox, {"ready"}) => ReadyOnce(Append(inbox, f))
  BY <1>i, <1>o, HeldByAppend
<1>f. ASSUME NEW q, Held(q) \subseteq Held(inbox), ReadyOnce(q), Fail(q),
             UNCHANGED <<disposal, path, probe, bound, issued, token, alive,
                         asked, canResume>>
      PROVE  MediaInv'
  BY <1>f, HelpersKeepMedia
<1>r. ASSUME NEW q, Held(q) \subseteq Held(inbox), ReadyOnce(q),
             ScheduleReconnect(q, canResume),
             UNCHANGED <<disposal, path, probe, bound, issued, token, alive,
                         asked, canResume>>
      PROVE  MediaInv'
  BY <1>r, HelpersKeepMedia
<1>s. ASSUME NEW q, Held(q) \subseteq Held(inbox), ReadyOnce(q),
             Send(q, <<>>, canResume),
             UNCHANGED <<disposal, path, probe, bound, issued, token, alive,
                         asked, canResume>>
      PROVE  MediaInv'
  <2>1. CASE ScheduleReconnect(q, canResume)
    BY <1>r, <1>s, <2>1
  <2>2. CASE ~ScheduleReconnect(q, canResume)
    <3>1. outbox \o <<>> = outbox
      BY <1>i
    <3>2. inbox' = q /\ UNCHANGED <<owner, socket, media, outbox>>
      BY <1>s, <2>2, <3>1 DEF Send
    <3> QED
      BY <1>s, <3>2, CalmStep DEF scene
  <2> QED
    BY <2>1, <2>2
<1>1. CASE Connect
  BY <1>1, <1>o, CalmStep DEF Connect, scene
<1>2. CASE Write
  BY <1>2, <1>o, <1>s DEF Write
<1>3. CASE CloseBegin
  <2> USE <1>3 DEF CloseBegin, NewGeneration, MediaInv, MediaLive, Trusted, Without
  <2>1. ResumableInv' /\ SocketlessInv' /\ BoundInv' /\ ProbeInv' /\ ReadyInv'
    BY DEF ResumableInv, closing, SocketlessInv, BoundInv, ProbeInv, ReadyInv
  <2>2. OutboxInv'
    BY DEF OutboxInv
  <2>3. InboxInv'
    BY DEF InboxInv, ReadyFrame, DescriptionFrame, DoneFrame
  <2> QED
    BY <2>1, <2>2, <2>3
<1>4. CASE CloseEnd
  <2>1. inbox' = <<>> /\ outbox' = <<>> /\ ~listening' /\ ~probing'
    BY <1>4, <1>v DEF CloseEnd, HangUp, QuietInv, TerminalIsQuiet, closing
  <2>2. BoundInv' /\ ResumableInv' /\ SocketlessInv'
    BY <1>4 DEF CloseEnd, HangUp, MediaInv, BoundInv, ResumableInv, closing,
                SocketlessInv, Trusted
  <2> QED
    BY <2>1, <2>2, HungUpStep
<1>5. CASE ReconnectTimer
  <2>1. status' = status \/ status' # "ready"
    BY <1>5 DEF ReconnectTimer, Emitted
  <2> QED
    BY <1>5, <1>o, <2>1, CalmStep DEF ReconnectTimer, scene
<1>6. CASE HeartbeatTimer
  <2>1. UNCHANGED <<disposal, path, probe, bound, issued, token, alive, asked>>
    BY <1>6 DEF HeartbeatTimer
  <2>2. CASE HasExceededTolerance
    BY <1>6, <1>o, <2>1, <2>2, HelpersKeepMedia DEF HeartbeatTimer
  <2>3. CASE ~HasExceededTolerance
    BY <1>6, <1>o, <1>s, <2>1, <2>3 DEF HeartbeatTimer
  <2> QED
    BY <2>2, <2>3
<1>7. CASE DialSucceeds
  <2> USE <1>7 DEF DialSucceeds, MediaLive, Trusted
  <2>1. ~failed /\ ~closing /\ ~probing /\ status # "ready"
    BY <1>v DEF QuietInv, TerminalIsQuiet, OneHolder
  <2>2. ResumableInv' /\ SocketlessInv' /\ BoundInv' /\ ProbeInv' /\ ReadyInv'
    BY <2>1 DEF MediaInv, ResumableInv, closing, SocketlessInv, BoundInv,
                ProbeInv, ReadyInv
  <2>3. OutboxInv'
    BY <2>1 DEF MediaInv, ResumableInv, OutboxInv, OpeningFrame
  <2>4. Held(inbox') = {Op("hello")} /\ ReadyOnce(inbox')
    BY HeldByOne
  <2>5. InboxInv'
    BY <2>4 DEF InboxInv, ReadyFrame, DescriptionFrame, DoneFrame, Opening, Op
  <2> QED
    BY <2>2, <2>3, <2>4, <2>5 DEF MediaInv
<1>8. CASE StrayArrives
  BY <1>8, <1>o, CalmStep DEF StrayArrives, connection, scene
<1>9. CASE DialFails
  BY <1>9, <1>o, <1>r DEF DialFails
<1>10. CASE DiscoveryFinds
  <2>1. UNCHANGED <<disposal, bound, issued, token, alive, asked, canResume>>
        /\ probe # None /\ probe' = None
    BY <1>10 DEF DiscoveryFinds, DiscoveryIsCurrent
  <2>2. CASE ~probing
    BY <1>10, <1>o, <2>1, <2>2, StrayDiscoveryStep
    DEF DiscoveryFinds, DiscoveryIsCurrent, connection
  <2>3. CASE probing
    <3>1. ~canResume /\ ~ReconnectIgnored
      BY <1>v, <2>3
      DEF MediaInv, ProbeInv, QuietInv, TerminalIsQuiet, OneHolder,
                        ReconnectIgnored
    <3>2. CASE ScheduleReconnect(inbox, canResume)
      BY <1>o, <2>1, <3>1, <3>2, HelpersKeepMedia
    <3>3. CASE ~ScheduleReconnect(inbox, canResume)
      <4>1. /\ probing' = FALSE /\ status' = "negotiating"
            /\ discovered' = issued /\ path' = issued
            /\ outbox' \in {<<>>, <<Op("select")>>}
            /\ bound # None /\ Without(inbox, Opening)
            /\ UNCHANGED <<failed, listening, inbox, socket>>
        BY <1>10, <2>3, <3>3, HeldByOne
        DEF DiscoveryFinds, DiscoveryIsCurrent, MediaInv, ProbeInv
      <4>2. ResumableInv' /\ SocketlessInv' /\ BoundInv' /\ ProbeInv' /\ ReadyInv'
        BY <2>1, <3>1, <4>1
        DEF MediaInv, ResumableInv, SocketlessInv, BoundInv, ProbeInv, ReadyInv
      <4>3. OutboxInv'
        BY <2>1, <4>1 DEF OutboxInv
      <4>4. InboxInv'
        BY <2>1, <4>1 DEF MediaInv, InboxInv, ReadyFrame, DescriptionFrame,
                          DoneFrame, Without, Opening
      <4> QED
        BY <1>o, <4>1, <4>2, <4>3, <4>4 DEF MediaInv
    <3> QED
      BY <3>2, <3>3
  <2> QED
    BY <2>2, <2>3
<1>11. CASE DiscoveryFails
  <2>1. UNCHANGED <<disposal, bound, issued, token, alive, asked, canResume>>
        /\ probe # None /\ probe' = None
    BY <1>11 DEF DiscoveryFails
  <2>2. CASE ~probing
    BY <1>11, <1>o, <2>1, <2>2, StrayDiscoveryStep
    DEF DiscoveryFails, DiscoveryIsCurrent, connection
  <2>3. CASE probing
    <3>1. Fail(inbox) /\ ~closing /\ ~failed
      BY <1>11, <1>v, <2>3
      DEF DiscoveryFails, DiscoveryIsCurrent, QuietInv, TerminalIsQuiet
    <3> QED
      BY <1>o, <2>1, <3>1, HelpersKeepMedia
  <2> QED
    BY <2>2, <2>3
<1>12. CASE UdpFails
  <2>1. UNCHANGED <<disposal, bound, issued, token, alive, asked>>
        /\ disposal = "none"
    BY <1>12 DEF UdpFails, closing
  <2>2. CASE socket = "none"
    <3>1. UNCHANGED <<canResume, owner, wire, media>>
      BY <1>12, <2>2 DEF UdpFails, connection
    <3>2. ~listening /\ ~probing /\ inbox = <<>> /\ outbox = <<>>
      BY <1>v, <2>1, <2>2 DEF OneHolder, WireInv
    <3>3. BoundInv' /\ ResumableInv' /\ SocketlessInv'
      BY <2>1, <2>2, <3>1
      DEF MediaInv, BoundInv, ResumableInv, SocketlessInv, Trusted
    <3> QED
      BY <3>1, <3>2, <3>3, HungUpStep
  <2>3. CASE socket # "none"
    <3>1. ~canResume' /\ ScheduleReconnect(inbox, FALSE)
      BY <1>12, <2>3 DEF UdpFails, AfterUdp
    <3>2. CASE ~ReconnectIgnored
      BY <1>o, <2>1, <3>1, <3>2, HelpersKeepMedia
    <3>3. CASE ReconnectIgnored
      <4>1. ~listening /\ ~probing /\ inbox = <<>> /\ outbox = <<>>
        BY <1>v, <2>1, <3>3
        DEF ReconnectIgnored, closing, QuietInv, TerminalIsQuiet, OneHolder, WireInv
      <4>2. UNCHANGED <<inbox, outbox, listening, probing, socket>>
        BY <3>1, <3>3 DEF ScheduleReconnect, Unmoved
      <4>3. BoundInv' /\ ResumableInv' /\ SocketlessInv'
        BY <2>1, <3>1 DEF MediaInv, BoundInv, ResumableInv, SocketlessInv
      <4> QED
        BY <4>1, <4>2, <4>3, HungUpStep
    <3> QED
      BY <3>2, <3>3
  <2> QED
    BY <2>2, <2>3
<1>13. CASE MediaDecrypts
  BY <1>13, <1>o, CalmStep DEF MediaDecrypts, connection, scene
<1>14. CASE DecryptGivesUp
  BY <1>14, <1>o, CalmStep DEF DecryptGivesUp, scene, Emitted
<1>15. CASE AcceptHello
  BY <1>15, <1>t, CalmStep DEF AcceptHello, Takes, scene
<1>16. CASE AcceptReady
  <2> USE <1>16 DEF AcceptReady
  <2>1. Head(inbox).op = "ready" /\ Head(inbox) \in Held(inbox) /\ listening
    BY <1>t DEF Takes
  <2>2. /\ Head(inbox).session = bound /\ bound = issued /\ bound # None
        /\ ~canResume /\ outbox = <<>>
        /\ Without(inbox, {"description", "resumed"})
    BY <2>1 DEF MediaInv, InboxInv, ReadyFrame, Opening, BoundInv
  <2>3. Without(Tail(inbox), Opening)
    BY <1>t, <2>1, <2>2 DEF Without, Opening, Takes
  <2>4. ResumableInv' /\ SocketlessInv' /\ BoundInv' /\ ReadyInv'
    BY <2>2 DEF MediaInv, ResumableInv, SocketlessInv, BoundInv, ReadyInv
  <2>5. ProbeInv'
    BY <2>2, <2>3 DEF ProbeInv, Without
  <2>6. OutboxInv'
    BY <2>2 DEF OutboxInv
  <2>7. InboxInv'
    BY <1>t, <2>2, <2>3 DEF MediaInv, InboxInv, ReadyFrame, DescriptionFrame,
                            DoneFrame, Without, Opening, Takes
  <2> QED
    BY <1>t, <2>4, <2>5, <2>6, <2>7 DEF MediaInv, Takes
<1>17. CASE AcceptDescription
  <2>1. /\ Head(inbox).op = "description" /\ Head(inbox) \in Held(inbox)
        /\ listening /\ inbox # <<>>
        /\ UNCHANGED <<disposal, path, probe, bound, issued, token, alive, asked>>
    BY <1>17, <1>t DEF AcceptDescription, Takes
  <2>2. CASE discovered = None
    BY <1>17, <1>t, <1>f, <2>1, <2>2 DEF AcceptDescription
  <2>3. CASE discovered # None
    <3>1. /\ Head(inbox).session = bound /\ bound = issued /\ bound # None
          /\ path = issued /\ probe = None /\ outbox = <<>>
          /\ Without(inbox, {"ready"}) /\ ~probing
      BY <2>1 DEF MediaInv, InboxInv, ReadyFrame, DescriptionFrame, Opening,
                  BoundInv, ProbeInv, Without
    <3>2. MediaLive' /\ inbox' = Tail(inbox)
          /\ UNCHANGED <<outbox, socket, listening, probing, discovered, failed>>
      BY <1>17, <2>1, <2>3, <3>1 DEF AcceptDescription, MediaLive
    <3>3. Held(inbox') \subseteq Held(inbox) /\ ReadyOnce(inbox')
      BY <1>t, <2>1, <3>2
    <3>4. ResumableInv' /\ SocketlessInv' /\ BoundInv' /\ ProbeInv' /\ ReadyInv'
      BY <1>v, <2>1, <3>1, <3>2, <3>3
      DEF ResumableInv, SocketlessInv, BoundInv, ProbeInv, ReadyInv, Without,
          OneHolder
    <3>5. OutboxInv'
      BY <3>1, <3>2 DEF OutboxInv
    <3>6. InboxInv'
      BY <2>1, <3>1, <3>2, <3>3
      DEF MediaInv, InboxInv, ReadyFrame, DescriptionFrame, DoneFrame, Without,
          Opening
    <3> QED
      BY <3>3, <3>4, <3>5, <3>6 DEF MediaInv
  <2> QED
    BY <2>2, <2>3
<1>18. CASE AcceptResumed
  <2> USE <1>18 DEF AcceptResumed
  <2>1. Head(inbox).op = "resumed" /\ Head(inbox) \in Held(inbox)
        /\ listening /\ inbox # <<>>
    BY <1>t DEF Takes
  <2>2. /\ MediaLive /\ bound = issued /\ bound # None /\ outbox = <<>>
        /\ Without(inbox, {"ready"}) /\ ~probing
    BY <2>1 DEF MediaInv, InboxInv, ReadyFrame, Opening, BoundInv, ProbeInv,
                Without
  <2>3. Held(inbox') \subseteq Held(inbox) /\ ReadyOnce(inbox')
    BY <1>t, <2>1
  <2>4. MediaLive'
    BY <2>2 DEF MediaLive
  <2>5. ResumableInv' /\ SocketlessInv' /\ BoundInv' /\ ProbeInv' /\ ReadyInv'
    BY <1>v, <2>1, <2>2, <2>3, <2>4
    DEF ResumableInv, SocketlessInv, BoundInv, ProbeInv, ReadyInv, Without,
        OneHolder
  <2>6. OutboxInv'
    BY <2>2 DEF OutboxInv
  <2>7. InboxInv'
    BY <2>2, <2>3, <2>4
    DEF MediaInv, InboxInv, ReadyFrame, DescriptionFrame, DoneFrame, Without,
        Opening
  <2> QED
    BY <2>3, <2>5, <2>6, <2>7 DEF MediaInv
<1>19. CASE AcceptDave
  BY <1>19, <1>t, <1>s, <1>f DEF AcceptDave, Takes
<1>20. CASE AcceptDone
  <2>1. /\ Head(inbox).op = "done" /\ Head(inbox) \in Held(inbox)
        /\ listening /\ inbox # <<>>
        /\ UNCHANGED <<disposal, path, probe, bound, issued, token, alive,
                       canResume>>
    BY <1>20, <1>t DEF AcceptDone, Takes
  <2>2. CASE Head(inbox).cause = "ended" /\ AwaitCredentials
    <3>1. /\ inbox' = <<>> /\ outbox' = <<>> /\ ~listening' /\ ~probing' /\ asked'
      BY <2>2 DEF AwaitCredentials, NewGeneration
    <3>2. ~(token /\ alive)
      BY <2>1, <2>2 DEF MediaInv, InboxInv, DoneFrame
    <3>3. BoundInv' /\ ResumableInv' /\ SocketlessInv'
      BY <2>1, <3>1, <3>2
      DEF MediaInv, BoundInv, ResumableInv, SocketlessInv, Trusted
    <3> QED
      BY <3>1, <3>3, HungUpStep
  <2>3. CASE ScheduleReconnect(Tail(inbox), canResume) /\ UNCHANGED asked
    BY <1>t, <1>r, <2>1, <2>3
  <2>4. CASE Fail(Tail(inbox)) /\ UNCHANGED asked
    BY <1>t, <1>f, <2>1, <2>4
  <2> QED
    BY <1>20, <2>2, <2>3, <2>4 DEF AcceptDone
<1>21. CASE AcceptAck
  BY <1>21, <1>o, CalmStep DEF AcceptAck, connection, scene
<1>22. CASE AcceptUnusable
  BY <1>22, <1>t, <1>f DEF AcceptUnusable
<1>23. CASE ServerIdentifies
  <2>1. outbox # <<>> /\ Head(outbox).op = "identify" /\ socket = "open"
    BY <1>23 DEF ServerIdentifies, Reads
  <2>2. /\ outbox = <<Op("identify")>> /\ bound = None /\ ~canResume
        /\ status # "ready"
    BY <2>1, HeldByOne DEF MediaInv, OutboxInv, Op
  <2>3. Without(inbox, Opening \cup {"dave", "done"}) /\ ~probing
    BY <2>1, <2>2 DEF MediaInv, InboxInv, DoneFrame, ProbeInv, Without
  <2>4. /\ outbox' = <<>>
        /\ UNCHANGED <<failed, disposal, canResume, probing, status, listening>>
    BY <1>23, <2>2, HeldByOne
    DEF ServerIdentifies, Answers, ClosesWith
  <2>5. OutboxInv' /\ ResumableInv' /\ SocketlessInv' /\ ProbeInv' /\ ReadyInv'
    BY <2>2, <2>3, <2>4
    DEF OutboxInv, ResumableInv, SocketlessInv, ProbeInv, ReadyInv
  <2>6. CASE token
    <3>1. /\ issued' = issued + 1 /\ bound' = issued + 1
          /\ inbox' = Append(inbox, Ready(issued + 1))
          /\ Ready(issued + 1) \in ServerFrames
      BY <1>23, <1>i, <2>6
      DEF ServerIdentifies, Answers, Ready, ServerFrames, Sessions
    <3>2. Held(inbox') = Held(inbox) \cup {Ready(issued + 1)} /\ ReadyOnce(inbox')
      BY <1>a, <2>3, <3>1 DEF Without, Opening
    <3>3. BoundInv' /\ bound' # None
      BY <1>i, <3>1 DEF BoundInv, None
    <3>4. InboxInv'
      BY <2>2, <2>3, <2>4, <3>1, <3>2, <3>3
      DEF InboxInv, ReadyFrame, DescriptionFrame, DoneFrame, Without, Opening,
          Ready
    <3> QED
      BY <2>5, <3>2, <3>3, <3>4 DEF MediaInv
  <2>7. CASE ~token
    <3>1. /\ inbox' = Append(inbox, Done("ended")) /\ socket' = "ended"
          /\ Done("ended") \in ServerFrames
          /\ UNCHANGED <<issued, bound, alive, token>>
      BY <1>23, <2>7
      DEF ServerIdentifies, ClosesWith, Done, ServerFrames, Causes
    <3>2. Held(inbox') = Held(inbox) \cup {Done("ended")} /\ ReadyOnce(inbox')
      BY <1>a, <3>1 DEF Done
    <3>3. InboxInv'
      BY <2>3, <2>4, <2>7, <3>1, <3>2
      DEF InboxInv, ReadyFrame, DescriptionFrame, DoneFrame, Without, Opening,
          Done
    <3>4. BoundInv'
      BY <3>1 DEF MediaInv, BoundInv
    <3> QED
      BY <2>5, <3>2, <3>3, <3>4 DEF MediaInv
  <2> QED
    BY <2>6, <2>7
<1>24. CASE ServerResumes
  <2>1. outbox # <<>> /\ Head(outbox).op = "resume" /\ socket = "open"
    BY <1>24 DEF ServerResumes, Reads
  <2>2. outbox = <<Op("resume")>> /\ bound = None /\ (Trusted => MediaLive)
    BY <2>1, HeldByOne DEF MediaInv, OutboxInv, Op
  <2>3. Without(inbox, Opening \cup {"dave", "done"}) /\ ~probing
        /\ ~(status = "ready" /\ listening)
    BY <2>1, <2>2 DEF MediaInv, InboxInv, DoneFrame, ProbeInv, ReadyInv, Without
  <2>4. /\ outbox' = <<>> /\ socket' # "none"
        /\ UNCHANGED <<failed, disposal, canResume, probing, status, listening,
                       session, cipher, path, probe, issued, asked, token, alive,
                       discovered>>
    BY <1>24, <2>1, <2>2, HeldByOne
    DEF ServerResumes, Answers, ClosesWith
  <2>5. OutboxInv' /\ ResumableInv' /\ SocketlessInv' /\ ProbeInv' /\ ReadyInv'
    BY <2>3, <2>4
    DEF MediaInv, OutboxInv, ResumableInv, closing, Trusted, MediaLive,
        SocketlessInv, ProbeInv, ReadyInv
  <2>6. CASE token /\ alive
    <3>1. /\ bound' = issued /\ inbox' = Append(inbox, Op("resumed"))
          /\ Op("resumed") \in ServerFrames
      BY <1>24, <2>6
      DEF ServerResumes, Answers, Op, ServerFrames
    <3>2. Held(inbox') = Held(inbox) \cup {Op("resumed")} /\ ReadyOnce(inbox')
      BY <1>a, <3>1 DEF Op
    <3>3. MediaLive' /\ bound' # None
      BY <2>2, <2>4, <2>6, <3>1 DEF Trusted, MediaLive
    <3>4. InboxInv'
      BY <2>3, <2>4, <3>1, <3>2, <3>3
      DEF InboxInv, ReadyFrame, DescriptionFrame, DoneFrame, Without, Opening, Op
    <3>5. BoundInv'
      BY <2>4, <3>1 DEF BoundInv
    <3> QED
      BY <2>5, <3>2, <3>4, <3>5 DEF MediaInv
  <2>7. CASE ~(token /\ alive)
    <3>1. /\ inbox' = Append(inbox, Done("ended")) /\ socket' = "ended"
          /\ Done("ended") \in ServerFrames /\ UNCHANGED bound
      BY <1>24, <2>7
      DEF ServerResumes, ClosesWith, Done, ServerFrames, Causes
    <3>2. Held(inbox') = Held(inbox) \cup {Done("ended")} /\ ReadyOnce(inbox')
      BY <1>a, <3>1 DEF Done
    <3>3. InboxInv'
      BY <2>3, <2>4, <2>7, <3>1, <3>2
      DEF InboxInv, ReadyFrame, DescriptionFrame, DoneFrame, Without, Opening,
          Done
    <3>4. BoundInv'
      BY <2>4, <3>1 DEF MediaInv, BoundInv
    <3> QED
      BY <2>5, <3>2, <3>3, <3>4 DEF MediaInv
  <2> QED
    BY <2>6, <2>7
<1>25. CASE ServerSelects
  <2>1. outbox # <<>> /\ Head(outbox).op = "select" /\ bound # None
    BY <1>25 DEF ServerSelects, Reads
  <2>2. /\ outbox = <<Op("select")>> /\ discovered = issued /\ path = issued
        /\ probe = None
    BY <2>1, HeldByOne DEF MediaInv, OutboxInv, Op
  <2>3. Without(inbox, Opening) /\ ~probing
    BY <2>1, <2>2 DEF MediaInv, InboxInv, ProbeInv, Without
  <2>4. /\ outbox' = <<>> /\ inbox' = Append(inbox, Description(bound))
        /\ Description(bound) \in ServerFrames
        /\ UNCHANGED <<owner, socket, media, disposal, canResume, path, probe,
                       server, asked>>
    BY <1>25, <2>1, <2>2, HeldByOne
    DEF ServerSelects, Answers, Description, ServerFrames, ShapeInv, Typed,
        SessionsTyped
  <2>5. Held(inbox') = Held(inbox) \cup {Description(bound)} /\ ReadyOnce(inbox')
    BY <1>a, <2>4 DEF Description
  <2>6. /\ OutboxInv' /\ ResumableInv' /\ SocketlessInv' /\ BoundInv'
        /\ ProbeInv' /\ ReadyInv'
    BY <2>3, <2>4, <2>5
    DEF MediaInv, OutboxInv, ResumableInv, closing, Trusted, MediaLive,
        SocketlessInv, BoundInv, ProbeInv, ReadyInv, Without, Description
  <2>7. InboxInv'
    BY <2>1, <2>2, <2>3, <2>4, <2>5
    DEF MediaInv, InboxInv, ReadyFrame, DescriptionFrame, DoneFrame, Without,
        Opening, Description
  <2> QED
    BY <2>5, <2>6, <2>7 DEF MediaInv
<1>26. CASE ServerSendsDave
  <2>1. /\ inbox' = <<Op("dave")>> /\ bound # None
        /\ UNCHANGED <<owner, socket, outbox, media, disposal, canResume, path,
                       probe, server, asked>>
    BY <1>26 DEF ServerSendsDave
  <2>2. Held(inbox') = {Op("dave")} /\ ReadyOnce(inbox')
    BY <2>1, HeldByOne
  <2>3. /\ OutboxInv' /\ ResumableInv' /\ SocketlessInv' /\ BoundInv'
        /\ ProbeInv' /\ ReadyInv'
    BY <2>1, <2>2
    DEF MediaInv, OutboxInv, ResumableInv, closing, Trusted, MediaLive,
        SocketlessInv, BoundInv, ProbeInv, ReadyInv, Without, Op, Opening
  <2>4. InboxInv'
    BY <2>1, <2>2
    DEF InboxInv, ReadyFrame, DescriptionFrame, DoneFrame, Opening,
                      Op
  <2> QED
    BY <2>2, <2>3, <2>4 DEF MediaInv
<1>e. ASSUME NEW cause \in Causes, ClosesWith(cause), socket # "none",
             cause = "ended" => ~(token' /\ alive'),
             token' => token, alive' => alive,
             UNCHANGED <<owner, media, disposal, canResume, path, probe, bound,
                         issued, asked>>
      PROVE  MediaInv'
  <2>1. /\ inbox' = Append(inbox, Done(cause)) /\ outbox' = <<>>
        /\ socket' = "ended" /\ Done(cause) \in ServerFrames
    BY <1>e DEF ClosesWith, Done, ServerFrames
  <2>2. Held(inbox') = Held(inbox) \cup {Done(cause)} /\ ReadyOnce(inbox')
    BY <1>a, <2>1 DEF Done
  <2>3. /\ OutboxInv' /\ ResumableInv' /\ SocketlessInv' /\ BoundInv'
        /\ ProbeInv' /\ ReadyInv'
    BY <1>e, <2>1, <2>2
    DEF MediaInv, OutboxInv, ResumableInv, closing, Trusted, MediaLive,
        SocketlessInv, BoundInv, ProbeInv, ReadyInv, Without, Done, Opening
  <2>4. InboxInv'
    BY <1>e, <2>1, <2>2
    DEF MediaInv, InboxInv, ReadyFrame, DescriptionFrame, DoneFrame, MediaLive,
        Without, Opening, Done
  <2> QED
    BY <2>2, <2>3, <2>4 DEF MediaInv
<1>27. CASE ServerCloses
  <2> PICK cause \in Causes :
           /\ ClosesWith(cause)
           /\ alive' = (alive /\ cause = "lost")
           /\ token' = (token /\ cause # "ended")
    BY <1>27 DEF ServerCloses
  <2> QED
    BY <1>27, <1>e DEF ServerCloses
<1>28. CASE ServerForgets
  <2> USE <1>28 DEF ServerForgets, connection, MediaInv, MediaLive, Trusted, closing
  <2>1. /\ OutboxInv' /\ ResumableInv' /\ SocketlessInv' /\ BoundInv'
        /\ ProbeInv' /\ ReadyInv'
    BY DEF OutboxInv, ResumableInv, SocketlessInv, BoundInv, ProbeInv, ReadyInv,
           Without
  <2>2. InboxInv'
    BY DEF InboxInv, ReadyFrame, DescriptionFrame, DoneFrame, Without
  <2> QED
    BY <1>o, <2>1, <2>2
<1>29. CASE LinkBreaks
  <2>1. /\ socket = "open" /\ socket' = "broken" /\ outbox' = <<>>
        /\ UNCHANGED <<owner, media, disposal, canResume, path, probe, server,
                       asked>>
    BY <1>29 DEF LinkBreaks
  <2>2. Held(inbox') \subseteq Held(inbox) /\ ReadyOnce(inbox')
    <3> PICK k \in 0 .. Len(inbox) : inbox' = SubSeq(inbox, 1, k)
      BY <1>29 DEF LinkBreaks
    <3> QED
      BY <1>i, <1>o, HeldByPrefix
  <2>3. /\ OutboxInv' /\ ResumableInv' /\ SocketlessInv' /\ BoundInv'
        /\ ProbeInv' /\ ReadyInv'
    BY <2>1, <2>2
    DEF MediaInv, OutboxInv, ResumableInv, closing, Trusted, MediaLive,
        SocketlessInv, BoundInv, ProbeInv, ReadyInv, Without
  <2>4. InboxInv'
    BY <2>1, <2>2
    DEF MediaInv, InboxInv, ReadyFrame, DescriptionFrame, DoneFrame,
                      MediaLive, Without
  <2> QED
    BY <2>2, <2>3, <2>4 DEF MediaInv
<1>30. CASE BrokenLinkEnds
  <2>1. "lost" \in Causes
    BY DEF Causes
  <2> QED
    BY <1>30, <1>e, <2>1 DEF BrokenLinkEnds
<1>31. CASE UNCHANGED vars
  BY <1>31, <1>o, CalmStep DEF vars, connection, scene
<1> QED
  BY <1>1, <1>2, <1>3, <1>4, <1>5, <1>6, <1>7, <1>8, <1>9, <1>10, <1>11, <1>12,
     <1>13, <1>14, <1>15, <1>16, <1>17, <1>18, <1>19, <1>20, <1>21, <1>22, <1>23,
     <1>24, <1>25, <1>26, <1>27, <1>28, <1>29, <1>30, <1>31
  DEF Next, User, Timers, Media, TakeFrame, External, ServerReads

\* close() is not undone.
LEMMA ClosingStays == closing /\ [Next]_vars => closing'
<1> SUFFICES ASSUME closing, [Next]_vars PROVE closing'
  OBVIOUS
<1> USE DEF closing
<1>1. CASE User
  BY <1>1 DEF User, Connect, Write, CloseBegin, CloseEnd
<1>2. CASE Timers
  BY <1>2
  DEF Timers, ReconnectTimer, HeartbeatTimer, DialSucceeds, StrayArrives, DialFails
<1>3. CASE Media
  BY <1>3
  DEF Media, DiscoveryFinds, DiscoveryFails, UdpFails, MediaDecrypts, DecryptGivesUp
<1>4. CASE TakeFrame \/ AcceptAck \/ AcceptUnusable
  BY <1>4
  DEF TakeFrame, AcceptHello, AcceptReady, AcceptDescription, AcceptResumed,
      AcceptDave, AcceptDone, AcceptAck, AcceptUnusable
<1>5. CASE External
  BY <1>5
  DEF External, ServerReads, ServerIdentifies, ServerResumes, ServerSelects,
      ServerSendsDave, ServerCloses, ServerForgets, LinkBreaks, BrokenLinkEnds
<1>6. CASE UNCHANGED vars
  BY <1>6 DEF vars
<1> QED
  BY <1>1, <1>2, <1>3, <1>4, <1>5, <1>6 DEF Next

\* MediaInv, of a client that is not closing.
MediaKept == closing \/ MediaInv

LEMMA MediaHolds == Spec => [](MediaKept /\ ShapeInv)
<1>1. Init => MediaKept
  BY HeldByOne
  DEF Init, MediaKept, MediaInv, ResumableInv, SocketlessInv, OutboxInv,
      InboxInv, BoundInv, ProbeInv, ReadyInv
<1>2. MediaKept /\ ShapeInv /\ [Next]_vars => MediaKept'
  BY MediaStep, ClosingStays DEF MediaKept
<1> QED
  BY <1>1, <1>2, ShapeHolds, PTL DEF Spec

\* A connection that says ready has what media needs, and all of it of the
\* session the server has on that link: it holds of every mix of resumes,
\* redials, lost paths and late discoveries.  The argument is MediaInv: what
\* may be resumed is live, and each frame on its way says of which session it
\* is.
THEOREM ReadyHoldsItsTransport == Spec => []ReadyHasTransport
<1>1. MediaKept /\ ShapeInv => ReadyHasTransport
  BY DEF MediaKept, MediaInv, ReadyInv, BoundInv, MediaLive, ReadyHasTransport,
         ShapeInv, QuietInv, TerminalIsQuiet
<1> QED
  BY <1>1, MediaHolds, PTL

\* A RESUME goes out only for a session whose key is still held and whose UDP
\* path is up, whatever was lost before and whatever dial was late.
THEOREM ResumeFindsItsPath == Spec => []ResumesLivePath
<1>1. MediaKept => ResumesLivePath
  BY HeldByOne
  DEF MediaKept, MediaInv, OutboxInv, Trusted, MediaLive, ResumesLivePath, Op
<1> QED
  BY <1>1, MediaHolds, PTL

-----------------------------------------------------------------------------
(* What the owner is told.  A status is one of the few that fit the frame  *)
(* on its way, the timer, the dial or the discovery that will change it.   *)

\* Of the frames that open a connection one is on its way at a time.
OpeningOnce(q) ==
    \A i, j \in 1 .. Len(q) : q[i].op \in Opening /\ q[j].op \in Opening => i = j

Awaits(op, st) ==
    /\ op \in {"identify", "ready"} => st \in {"connecting", "reconnecting"}
    /\ op \in {"resume", "resumed"} => st = "reconnecting"
    /\ op \in {"select", "description"} => st \in {"negotiating", "reconnecting"}

\* Before connect() there is nothing that could end or get ahead.
BeforeInv == status = "idle" =>
    /\ dials = 0 /\ path = None /\ probe = None /\ ~canResume
    /\ socket = "none" /\ disposal = "none"

DueInv ==
    /\ reconnectDue => status = "reconnecting"
    /\ dialing => status \in {"connecting", "reconnecting"}
    /\ dialing /\ canResume => status = "reconnecting"
    /\ probing => status \in {"discovering", "reconnecting"}

FrameInv == listening => /\ \A f \in Held(inbox) : Awaits(f.op, status)
                         /\ \A f \in Held(outbox) : Awaits(f.op, status)

ToldInv ==
    /\ BeforeInv /\ DueInv /\ FrameInv
    /\ closing \/ OpeningOnce(inbox)
    /\ status \in {"failure", "disconnected"} => failed \/ closing

LEMMA OpeningOnceKept ==
    ASSUME NEW S, NEW q \in Seq(S), OpeningOnce(q)
    PROVE  /\ q # <<>> => OpeningOnce(Tail(q))
           /\ q # <<>> /\ Head(q).op \in Opening => Without(Tail(q), Opening)
           /\ \A f \in S : f.op \notin Opening \/ Without(q, Opening)
                 => OpeningOnce(Append(q, f))
           /\ \A k \in 0 .. Len(q) : OpeningOnce(SubSeq(q, 1, k))
<1>1. ASSUME q # <<>> PROVE OpeningOnce(Tail(q))
  <2>1. /\ Len(q) \in Nat /\ Len(Tail(q)) = Len(q) - 1
        /\ \A i \in 1 .. Len(Tail(q)) : Tail(q)[i] = q[i + 1]
    BY <1>1
  <2> SUFFICES ASSUME NEW i \in 1 .. Len(Tail(q)), NEW j \in 1 .. Len(Tail(q)),
                      Tail(q)[i].op \in Opening, Tail(q)[j].op \in Opening
               PROVE  i = j
    BY DEF OpeningOnce
  <2>2. i + 1 = j + 1
    BY <2>1 DEF OpeningOnce
  <2> QED
    BY <2>2
<1>2. ASSUME q # <<>>, Head(q).op \in Opening PROVE Without(Tail(q), Opening)
  <2>1. /\ Len(q) \in Nat \ {0} /\ Len(Tail(q)) = Len(q) - 1 /\ Head(q) = q[1]
        /\ \A i \in 1 .. Len(Tail(q)) : Tail(q)[i] = q[i + 1]
    BY <1>2
  <2> SUFFICES ASSUME NEW i \in 1 .. Len(Tail(q)), Tail(q)[i].op \in Opening
               PROVE  FALSE
    BY DEF Without, Held
  <2>2. i + 1 = 1
    BY <1>2, <2>1 DEF OpeningOnce
  <2> QED
    BY <2>2
<1>3. ASSUME NEW f \in S, f.op \notin Opening \/ Without(q, Opening)
      PROVE  OpeningOnce(Append(q, f))
  <2>1. /\ Len(q) \in Nat /\ Len(Append(q, f)) = Len(q) + 1
        /\ Append(q, f)[Len(q) + 1] = f
        /\ \A i \in 1 .. Len(q) : Append(q, f)[i] = q[i] /\ q[i] \in Held(q)
    BY DEF Held
  <2> SUFFICES ASSUME NEW i \in 1 .. Len(q) + 1, NEW j \in 1 .. Len(q) + 1,
                      Append(q, f)[i].op \in Opening,
                      Append(q, f)[j].op \in Opening
               PROVE  i = j
    BY <2>1 DEF OpeningOnce
  <2>2. CASE f.op \notin Opening
    BY <2>1, <2>2 DEF OpeningOnce
  <2>3. CASE Without(q, Opening)
    BY <2>1, <2>3 DEF Without
  <2> QED
    BY <1>3, <2>2, <2>3
<1>4. ASSUME NEW k \in 0 .. Len(q) PROVE OpeningOnce(SubSeq(q, 1, k))
  <2>1. /\ Len(q) \in Nat /\ Len(SubSeq(q, 1, k)) = k
        /\ \A i \in 1 .. k : SubSeq(q, 1, k)[i] = q[i]
    OBVIOUS
  <2> QED
    BY <2>1 DEF OpeningOnce
<1> QED
  BY <1>1, <1>2, <1>3, <1>4

LEMMA OpeningOnceStart ==
    ASSUME NEW f
    PROVE  OpeningOnce(<<>>) /\ OpeningOnce(<<f>>)
BY DEF OpeningOnce

\* What a handler leaves: ToldInv, and a step of the contract or none.
Tells == ToldInv' /\ [Client!Next]_(Client!vars)

\* Frames that go away, and a session no longer to be resumed, tell nothing.
LEMMA NothingTold ==
    ASSUME ToldInv, status # "idle" \/ UNCHANGED <<dials, path, probe, socket>>,
           UNCHANGED <<failed, status, dialing, listening, reconnectDue, probing,
                       disposal>>,
           canResume' = canResume \/ ~canResume',
           Held(inbox') \subseteq Held(inbox),
           Held(outbox') \subseteq Held(outbox), OpeningOnce(inbox')
    PROVE  Tells
<1>1. ToldInv'
  BY DEF ToldInv, BeforeInv, DueInv, FrameInv, closing
<1>2. UNCHANGED Client!vars
  BY DEF Client!vars, Over
<1> QED
  BY <1>1, <1>2 DEF Tells

\* A client that is told to go on from a connection that is over.
LEMMA LossTold ==
    ASSUME ShapeInv, ToldInv, status # "idle", ~failed, ~closing,
           status' = "reconnecting", UNCHANGED <<failed, disposal>>,
           ~dialing' /\ ~listening' /\ ~probing', inbox' = <<>>
    PROVE  Tells
<1>1. ToldInv'
  BY OpeningOnceStart DEF ToldInv, BeforeInv, DueInv, FrameInv
<1>2. status \in Client!Stages \cup {"reconnecting"}
  BY DEF Client!Stages, ShapeInv, Typed, ConnectionTyped, Statuses, ToldInv
<1>3. Over = "no" /\ Over' = "no"
  BY DEF Over, closing
<1> QED
  BY <1>1, <1>2, <1>3
  DEF Tells, Client!vars, Client!Next, Client!Lose

\* _fail, _scheduleReconnect and _send.
LEMMA HelpersTell ==
    ASSUME ShapeInv, ToldInv, status # "idle", UNCHANGED disposal,
           NEW q, Held(q) \subseteq Held(inbox), OpeningOnce(q),
           canResume' = canResume \/ ~canResume'
    PROVE  /\ Unmoved(q) => Tells
           /\ Fail(q) => Tells
           /\ \A resumable : ScheduleReconnect(q, resumable) => Tells
           /\ \A resumable : Send(q, <<>>, resumable) => Tells
<1>1. ASSUME Unmoved(q) PROVE Tells
  <2>1. Held(inbox') \subseteq Held(inbox) /\ OpeningOnce(inbox')
        /\ UNCHANGED <<owner, outbox>>
    BY <1>1 DEF Unmoved
  <2> QED
    BY <2>1, NothingTold DEF owner
<1>2. ASSUME Fail(q) PROVE Tells
  <2>1. CASE closing \/ failed
    BY <1>1, <1>2, <2>1 DEF Fail
  <2>2. CASE ~(closing \/ failed)
    <3>1. /\ failed' = TRUE /\ status' = "failure" /\ inbox' = <<>>
          /\ ~dialing' /\ ~listening' /\ ~probing' /\ ~reconnectDue'
      BY <1>2, <2>2 DEF Fail, NewGeneration, HangUp, Emitted, closing
    <3>2. ToldInv'
      BY <3>1, OpeningOnceStart DEF ToldInv, BeforeInv, DueInv, FrameInv
    <3>3. Over = "no" /\ Over' = "failed"
      BY <2>2, <3>1 DEF Over, closing
    <3> QED
      BY <3>1, <3>2, <3>3 DEF Tells, Client!Next, Client!Fail
  <2> QED
    BY <2>1, <2>2
<1>3. ASSUME NEW resumable, ScheduleReconnect(q, resumable) PROVE Tells
  <2>1. CASE ReconnectIgnored \/ attempts >= MaxAttempts
    BY <1>1, <1>2, <1>3, <2>1 DEF ScheduleReconnect
  <2>2. CASE ~(ReconnectIgnored \/ attempts >= MaxAttempts)
    <3>1. /\ ~failed /\ ~closing /\ failed' = failed
          /\ status' = "reconnecting" /\ inbox' = <<>>
          /\ ~dialing' /\ ~listening' /\ ~probing'
      BY <1>3, <2>2
      DEF ScheduleReconnect, NewGeneration, HangUp, Emitted, closing,
          ReconnectIgnored
    <3> QED
      BY <3>1, LossTold
  <2> QED
    BY <2>1, <2>2
<1>4. ASSUME NEW resumable, Send(q, <<>>, resumable) PROVE Tells
  <2>1. CASE ScheduleReconnect(q, resumable)
    BY <1>3, <2>1
  <2>2. CASE ~ScheduleReconnect(q, resumable)
    <3>1. outbox \o <<>> = outbox
      BY DEF ShapeInv, Typed, ConnectionTyped
    <3>2. Unmoved(q)
      BY <1>4, <2>2, <3>1 DEF Send, Unmoved
    <3> QED
      BY <1>1, <3>2
  <2> QED
    BY <2>1, <2>2
<1> QED
  BY <1>1, <1>2, <1>3, <1>4

\* A socket that is listened to carries only frames the status fits; one that
\* is not is of no interest, as no dial is told of but by its own turn.
LEMMA ToldStep ==
    ToldInv /\ MediaInv /\ ~closing /\ ShapeInv /\ [Next]_vars => Tells
<1> SUFFICES ASSUME ToldInv, MediaInv, ~closing, ShapeInv, [Next]_vars
             PROVE  Tells
  OBVIOUS
<1> USE DEF secrets, server, history, bounds, owner, wire, media
<1>v. QuietInv /\ OneHolder /\ WireInv /\ DialBudget
  BY DEF ShapeInv, HolderInv
<1>i. /\ inbox \in Seq(ServerFrames) /\ outbox \in Seq(ClientFrames)
      /\ dials \in Nat /\ disposal \in {"none", "awaiting", "done"}
  BY DEF ShapeInv, Typed, ConnectionTyped, CountsTyped
<1>o. /\ Held(inbox) \subseteq Held(inbox) /\ Held(outbox) \subseteq Held(outbox)
      /\ OpeningOnce(inbox)
  BY DEF ToldInv
<1>h. /\ heart \/ probing \/ listening => status # "idle"
      /\ reconnectDue \/ dialing => status # "idle"
      /\ socket # "none" \/ path # None \/ probe # None \/ dials > 0
            => status # "idle"
  BY <1>i, <1>v DEF ToldInv, BeforeInv, OneHolder
<1>q. /\ reconnectDue \/ dialing \/ listening \/ probing => ~failed /\ ~closing
      /\ ~closing => disposal = "none"
  BY <1>v DEF QuietInv, TerminalIsQuiet, closing
<1>t. inbox # <<>> =>
         /\ Head(inbox) \in Held(inbox) /\ Held(Tail(inbox)) \subseteq Held(inbox)
         /\ OpeningOnce(Tail(inbox))
         /\ Head(inbox).op \in Opening => Without(Tail(inbox), Opening)
  BY <1>i, <1>o, HeldByTail, OpeningOnceKept
<1>a. \A f \in ServerFrames :
         /\ Held(Append(inbox, f)) = Held(inbox) \cup {f}
         /\ f.op \notin Opening \/ Without(inbox, Opening)
               => OpeningOnce(Append(inbox, f))
  BY <1>i, <1>o, HeldByAppend, OpeningOnceKept
<1>w. ASSUME NEW q \in Seq(ServerFrames), Without(q, Opening),
             NEW f \in Held(q), NEW st
      PROVE  Awaits(f.op, st)
  <2>1. f \in ServerFrames /\ f.op \notin Opening
    BY <1>w DEF Without, Held
  <2>2. f.op \in {"hello", "dave", "done"}
    BY <2>1 DEF ServerFrames, Opening
  <2> QED
    BY <2>2 DEF Awaits
<1>x. inbox # <<>> => Tail(inbox) \in Seq(ServerFrames)
  BY <1>i
<1>n. ASSUME status # "idle" \/ UNCHANGED <<dials, path, probe, socket>>,
             UNCHANGED <<failed, status, dialing, listening, reconnectDue,
                         probing, disposal, inbox, outbox>>,
             canResume' = canResume \/ ~canResume'
      PROVE  Tells
  BY <1>n, <1>o, NothingTold
<1>1. CASE Connect
  <2>1. ToldInv'
    BY <1>1, <1>v DEF Connect, ToldInv, BeforeInv, DueInv, FrameInv, OneHolder
  <2>2. Over = "no" /\ Over' = "no" /\ status = "idle" /\ status' = "connecting"
    BY <1>1, <1>v DEF Connect, ToldInv, BeforeInv, Over, QuietInv,
                      FreshUntilConnected
  <2>3. Client!Advance("connecting")
    BY <2>2 DEF Client!Advance, Client!Follows
  <2> QED
    BY <2>1, <2>3 DEF Tells, Client!Next, Client!Stages
<1>2. CASE Write
  BY <1>2, <1>h, <1>o, HelpersTell DEF Write
<1>3. CASE CloseBegin
  <2>1. ToldInv'
    BY <1>3 DEF CloseBegin, NewGeneration, ToldInv, BeforeInv, DueInv, FrameInv,
                closing
  <2>2. Client!Closing
    BY <1>3 DEF CloseBegin, Client!Closing, Over
  <2> QED
    BY <2>1, <2>2 DEF Tells, Client!Next
<1>4. CASE CloseEnd
  <2>1. ToldInv'
    BY <1>4, <1>q, OpeningOnceStart
    DEF CloseEnd, HangUp, ToldInv, BeforeInv, DueInv, FrameInv, closing
  <2>2. Client!Close
    BY <1>4 DEF CloseEnd, Client!Close, Over
  <2> QED
    BY <2>1, <2>2 DEF Tells, Client!Next
<1>5. CASE ReconnectTimer
  <2>1. /\ reconnectDue /\ status = "reconnecting" /\ disposal = "none" /\ ~failed
        /\ ~listening /\ ~probing
    BY <1>5, <1>q, <1>v DEF ReconnectTimer, ToldInv, DueInv, OneHolder
  <2>2. /\ status' = IF canResume THEN "reconnecting" ELSE "connecting"
        /\ ~reconnectDue'
        /\ UNCHANGED <<failed, disposal, listening, probing, inbox, canResume>>
    BY <1>5, <2>1 DEF ReconnectTimer, Emitted
  <2>3. ToldInv'
    BY <2>1, <2>2 DEF ToldInv, BeforeInv, DueInv, FrameInv
  <2>4. Over = "no" /\ Over' = "no"
    BY <2>1, <2>2 DEF Over
  <2>5. Client!Recover("connecting") \/ UNCHANGED Client!vars
    BY <2>1, <2>2, <2>4 DEF Client!Recover, Client!vars
  <2> QED
    BY <2>3, <2>5 DEF Tells, Client!Next, Client!Stages
<1>6. CASE HeartbeatTimer
  BY <1>6, <1>h, <1>o, HelpersTell DEF HeartbeatTimer
<1>7. CASE DialSucceeds
  <2>1. /\ status' = status /\ status \in {"connecting", "reconnecting"}
        /\ canResume => status = "reconnecting"
        /\ ~reconnectDue /\ ~probing /\ listening' /\ ~dialing'
        /\ inbox' = <<Op("hello")>> /\ outbox' = <<OpeningFrame>>
        /\ UNCHANGED <<failed, disposal, reconnectDue, probing>>
    BY <1>7, <1>v DEF DialSucceeds, ToldInv, DueInv, OneHolder
  <2>2. Held(inbox') = {Op("hello")} /\ Held(outbox') = {OpeningFrame}
        /\ OpeningOnce(inbox')
    BY <2>1, HeldByOne, OpeningOnceStart
  <2>3. FrameInv'
    BY <2>1, <2>2 DEF FrameInv, Awaits, Op, OpeningFrame
  <2>4. ToldInv'
    BY <2>1, <2>2, <2>3 DEF ToldInv, BeforeInv, DueInv
  <2>5. UNCHANGED Client!vars
    BY <2>1 DEF Client!vars, Over
  <2> QED
    BY <2>4, <2>5 DEF Tells
<1>8. CASE StrayArrives
  <2>1. status # "idle"
    BY <1>8, <1>h, <1>i DEF StrayArrives
  <2> QED
    BY <1>8, <1>n, <2>1 DEF StrayArrives, connection
<1>9. CASE DialFails
  BY <1>9, <1>h, <1>o, HelpersTell DEF DialFails
<1>10. CASE DiscoveryFinds
  <2>1. status # "idle" /\ UNCHANGED <<disposal, canResume>>
    BY <1>10, <1>h DEF DiscoveryFinds, DiscoveryIsCurrent
  <2>2. CASE ~probing
    BY <1>10, <1>n, <2>1, <2>2
    DEF DiscoveryFinds, DiscoveryIsCurrent, connection
  <2>3. CASE ScheduleReconnect(inbox, canResume)
    BY <1>o, <2>1, <2>3, HelpersTell
  <2>4. CASE probing /\ ~ScheduleReconnect(inbox, canResume)
    <3>1. /\ probing' = FALSE /\ status' = "negotiating"
          /\ outbox' \in {<<>>, <<Op("select")>>} /\ Without(inbox, Opening)
          /\ status \in {"discovering", "reconnecting"}
          /\ ~reconnectDue /\ ~dialing /\ ~failed /\ disposal = "none"
          /\ UNCHANGED <<failed, listening, inbox, socket, dialing, reconnectDue>>
      BY <1>10, <1>q, <1>v, <2>4, HeldByOne
      DEF DiscoveryFinds, DiscoveryIsCurrent, MediaInv, ProbeInv, ToldInv, DueInv, OneHolder
    <3>2. Held(outbox') \in {{}, {Op("select")}}
      BY <3>1, HeldByOne
    <3>3. FrameInv'
      <4>1. \A f \in Held(outbox') : Awaits(f.op, status')
        BY <3>1, <3>2 DEF Awaits, Op
      <4>2. \A f \in Held(inbox') : Awaits(f.op, status')
        BY <1>i, <1>w, <3>1
      <4> QED
        BY <4>1, <4>2 DEF FrameInv
    <3>4. ToldInv'
      BY <1>o, <3>1, <3>3 DEF ToldInv, BeforeInv, DueInv
    <3>5. Over = "no" /\ Over' = "no"
      BY <2>1, <3>1 DEF Over
    <3>6. Client!Advance("negotiating") \/ Client!Recover("negotiating")
      BY <3>1, <3>5 DEF Client!Advance, Client!Recover, Client!Follows
    <3> QED
      BY <3>4, <3>6 DEF Tells, Client!Next, Client!Stages
  <2> QED
    BY <2>2, <2>3, <2>4
<1>11. CASE DiscoveryFails
  <2>1. status # "idle" /\ UNCHANGED <<disposal, canResume>>
    BY <1>11, <1>h DEF DiscoveryFails
  <2>2. CASE ~probing
    BY <1>11, <1>n, <2>1, <2>2
    DEF DiscoveryFails, DiscoveryIsCurrent, connection
  <2>3. CASE probing
    BY <1>11, <1>o, <2>1, <2>3, HelpersTell
    DEF DiscoveryFails, DiscoveryIsCurrent
  <2> QED
    BY <2>2, <2>3
<1>12. CASE UdpFails
  <2>1. status # "idle" /\ UNCHANGED disposal
    BY <1>12, <1>h DEF UdpFails
  <2>2. CASE socket = "none"
    BY <1>12, <1>n, <2>1, <2>2 DEF UdpFails, connection
  <2>3. CASE socket # "none"
    BY <1>12, <1>o, <2>1, <2>3, HelpersTell DEF UdpFails, AfterUdp
  <2> QED
    BY <2>2, <2>3
<1>13. CASE MediaDecrypts \/ AcceptAck
  BY <1>13, <1>n DEF MediaDecrypts, AcceptAck, connection
<1>14. CASE DecryptGivesUp
  <2>1. /\ status # "idle" /\ disposal = "none" /\ status' = "reconnecting"
        /\ ~canResume'
        /\ UNCHANGED <<failed, disposal, dialing, listening, reconnectDue,
                       probing, inbox, outbox>>
    BY <1>14, <1>h, <1>q DEF DecryptGivesUp, Emitted
  <2>2. FrameInv'
    BY <2>1 DEF FrameInv, Awaits
  <2>3. ToldInv'
    BY <1>o, <2>1, <2>2 DEF ToldInv, BeforeInv, DueInv
  <2>4. CASE failed
    BY <2>1, <2>3, <2>4 DEF Tells, Client!Next, Client!Blame, Over
  <2>5. CASE ~failed
    <3>1. status \in Client!Stages \cup {"reconnecting"}
      BY <2>1, <2>5
      DEF Client!Stages, ShapeInv, Typed, ConnectionTyped, Statuses, ToldInv,
          closing
    <3>2. Over = "no" /\ Over' = "no"
      BY <2>1, <2>5 DEF Over
    <3> QED
      BY <2>1, <2>3, <3>1, <3>2
      DEF Tells, Client!vars, Client!Next, Client!Lose
  <2> QED
    BY <2>4, <2>5
<1>15. CASE AcceptHello
  <2>1. inbox # <<>> /\ inbox' = Tail(inbox) /\ status # "idle"
    BY <1>15, <1>h DEF AcceptHello, Takes
  <2> QED
    BY <1>15, <1>o, <1>t, <2>1, NothingTold DEF AcceptHello
<1>16. CASE AcceptReady
  <2>1. /\ Head(inbox).op = "ready" /\ Head(inbox) \in Held(inbox) /\ listening
        /\ inbox # <<>> /\ inbox' = Tail(inbox) /\ status' = "discovering"
        /\ UNCHANGED <<failed, disposal, listening, dialing, reconnectDue,
                       outbox>>
    BY <1>16, <1>t DEF AcceptReady, Takes
  <2>2. /\ status \in {"connecting", "reconnecting"} /\ outbox = <<>>
        /\ ~reconnectDue /\ ~dialing /\ ~failed /\ disposal = "none"
    BY <1>q, <1>v, <2>1
    DEF ToldInv, FrameInv, Awaits, MediaInv, InboxInv, Opening, OneHolder
  <2>3. Without(inbox', Opening) /\ OpeningOnce(inbox')
    BY <1>t, <2>1 DEF Opening
  <2>4. FrameInv'
    <3>1. \A f \in Held(inbox') : Awaits(f.op, status')
      BY <1>w, <1>x, <2>1, <2>3
    <3> QED
      BY <2>1, <2>2, <3>1, HeldByOne DEF FrameInv
  <2>5. ToldInv'
    BY <2>1, <2>2, <2>3, <2>4 DEF ToldInv, BeforeInv, DueInv
  <2>6. Over = "no" /\ Over' = "no"
    BY <2>1, <2>2 DEF Over
  <2>7. Client!Advance("discovering") \/ Client!Recover("discovering")
    BY <2>1, <2>2, <2>6 DEF Client!Advance, Client!Recover, Client!Follows
  <2> QED
    BY <2>5, <2>7 DEF Tells, Client!Next, Client!Stages
<1>17. CASE AcceptDescription
  <2>1. /\ Head(inbox).op = "description" /\ Head(inbox) \in Held(inbox)
        /\ listening /\ inbox # <<>> /\ disposal' = disposal
    BY <1>17, <1>t DEF AcceptDescription, Takes
  <2>2. CASE discovered = None
    BY <1>17, <1>h, <1>t, <2>1, <2>2, HelpersTell DEF AcceptDescription
  <2>3. CASE discovered # None /\ status' # "ready"
    <3>1. /\ inbox' = Tail(inbox)
          /\ UNCHANGED <<failed, status, listening, dialing, reconnectDue,
                         probing, outbox>>
      BY <1>17, <2>3 DEF AcceptDescription
    <3>2. Held(inbox') \subseteq Held(inbox) /\ OpeningOnce(inbox')
      BY <1>t, <2>1, <3>1
    <3>3. status # "idle" /\ ~dialing
      BY <1>h, <1>v, <2>1 DEF OneHolder
    <3>4. ToldInv'
      BY <2>1, <3>1, <3>2, <3>3 DEF ToldInv, BeforeInv, DueInv, FrameInv, closing
    <3>5. UNCHANGED Client!vars
      BY <2>1, <3>1 DEF Client!vars, Over
    <3> QED
      BY <3>4, <3>5 DEF Tells
  <2>4. CASE discovered # None /\ status' = "ready"
    <3>1. /\ inbox' = Tail(inbox)
          /\ UNCHANGED <<failed, listening, dialing, reconnectDue, probing,
                         outbox>>
      BY <1>17, <2>4 DEF AcceptDescription
    <3>2. /\ status \in {"negotiating", "reconnecting"} /\ outbox = <<>>
          /\ ~reconnectDue /\ ~dialing /\ ~probing /\ ~failed /\ ~closing
      BY <1>q, <1>v, <2>1
      DEF ToldInv, FrameInv, Awaits, MediaInv, InboxInv, ProbeInv, Without,
          Opening, OneHolder
    <3>3. Without(inbox', Opening) /\ OpeningOnce(inbox')
      BY <1>t, <2>1, <3>1 DEF Opening
    <3>4. \A f \in Held(inbox') : Awaits(f.op, status')
      BY <1>w, <1>x, <2>1, <3>1, <3>3
    <3>5. FrameInv'
      BY <2>4, <3>1, <3>2, <3>4, HeldByOne DEF FrameInv
    <3>6. ToldInv'
      BY <2>4, <3>1, <3>2, <3>3, <3>5 DEF ToldInv, BeforeInv, DueInv
    <3>7. Over = "no" /\ Over' = "no"
      BY <1>q, <2>1, <3>1, <3>2 DEF Over
    <3>8. Client!Advance("ready") \/ Client!Recover("ready")
      BY <2>4, <3>1, <3>2, <3>7 DEF Client!Advance, Client!Recover, Client!Follows
    <3> QED
      BY <3>6, <3>8 DEF Tells, Client!Next, Client!Stages
  <2> QED
    BY <2>2, <2>3, <2>4
<1>18. CASE AcceptResumed
  <2>1. /\ Head(inbox).op = "resumed" /\ Head(inbox) \in Held(inbox)
        /\ listening /\ inbox # <<>> /\ inbox' = Tail(inbox) /\ status' = "ready"
        /\ UNCHANGED <<failed, disposal, listening, dialing, reconnectDue,
                       probing, outbox>>
    BY <1>18, <1>t DEF AcceptResumed, Takes
  <2>2. /\ status = "reconnecting" /\ outbox = <<>>
        /\ ~reconnectDue /\ ~dialing /\ ~probing /\ ~failed /\ ~closing
    BY <1>q, <1>v, <2>1
    DEF ToldInv, FrameInv, Awaits, MediaInv, InboxInv, ProbeInv, Without,
        Opening, OneHolder
  <2>3. Without(inbox', Opening) /\ OpeningOnce(inbox')
    BY <1>t, <2>1 DEF Opening
  <2>4. \A f \in Held(inbox') : Awaits(f.op, status')
    BY <1>w, <1>x, <2>1, <2>3
  <2>5. FrameInv'
    BY <2>1, <2>2, <2>4, HeldByOne DEF FrameInv
  <2>6. ToldInv'
    BY <2>1, <2>2, <2>3, <2>5 DEF ToldInv, BeforeInv, DueInv
  <2>7. Over = "no" /\ Over' = "no"
    BY <1>q, <2>1, <2>2 DEF Over
  <2>8. Client!Recover("ready")
    BY <2>1, <2>2, <2>7 DEF Client!Recover
  <2> QED
    BY <2>6, <2>8 DEF Tells, Client!Next, Client!Stages
<1>19. CASE AcceptDave
  BY <1>19, <1>h, <1>t, HelpersTell DEF AcceptDave, Takes
<1>20. CASE AcceptDone
  <2>1. listening /\ inbox # <<>> /\ UNCHANGED <<disposal, canResume>>
    BY <1>20 DEF AcceptDone, Takes
  <2>2. CASE AwaitCredentials
    <3>1. /\ status' = "reconnecting" /\ inbox' = <<>> /\ failed' = failed
          /\ ~dialing' /\ ~listening' /\ ~probing'
      BY <2>2 DEF AwaitCredentials, NewGeneration
    <3> QED
      BY <1>h, <1>q, <2>1, <3>1, LossTold
  <2>3. CASE ScheduleReconnect(Tail(inbox), canResume) \/ Fail(Tail(inbox))
    BY <1>h, <1>t, <2>1, <2>3, HelpersTell
  <2> QED
    BY <1>20, <2>2, <2>3 DEF AcceptDone
<1>21. CASE AcceptUnusable
  BY <1>21, <1>h, <1>t, HelpersTell DEF AcceptUnusable
<1>e. ASSUME NEW f \in ServerFrames, inbox' = Append(inbox, f),
             Held(outbox') \subseteq Held(outbox),
             f.op \notin Opening \/ Without(inbox, Opening),
             listening => Awaits(f.op, status),
             UNCHANGED <<owner, disposal, canResume, dials, path, probe>>,
             socket # "none"
      PROVE  Tells
  <2>1. OpeningOnce(inbox') /\ Held(inbox') = Held(inbox) \cup {f}
    BY <1>a, <1>e
  <2>2. FrameInv'
    BY <1>e, <2>1 DEF ToldInv, FrameInv
  <2>3. ToldInv'
    BY <1>e, <1>h, <2>1, <2>2 DEF ToldInv, BeforeInv, DueInv, closing
  <2>4. UNCHANGED Client!vars
    BY <1>e DEF Client!vars, Over
  <2> QED
    BY <2>3, <2>4 DEF Tells
<1>c. ASSUME NEW cause \in Causes, ClosesWith(cause), socket # "none",
             UNCHANGED <<owner, disposal, canResume, dials, path, probe>>
      PROVE  Tells
  <2>1. /\ Done(cause) \in ServerFrames /\ Done(cause).op \notin Opening
        /\ Awaits(Done(cause).op, status)
    BY DEF Done, ServerFrames, Opening, Awaits
  <2>2. inbox' = Append(inbox, Done(cause)) /\ outbox' = <<>>
    BY <1>c DEF ClosesWith
  <2>3. Held(outbox') \subseteq Held(outbox)
    BY <2>2, HeldByOne
  <2> QED
    BY <1>c, <1>e, <2>1, <2>2, <2>3
<1>p. ASSUME NEW op, Reads(op)
      PROVE  /\ listening => Awaits(op, status)
             /\ Held(Tail(outbox)) \subseteq Held(outbox)
             /\ Without(inbox, Opening) /\ socket # "none"
  <2>1. outbox # <<>> /\ Head(outbox).op = op /\ socket # "none"
    BY <1>p DEF Reads
  <2>2. Head(outbox) \in Held(outbox) /\ Held(Tail(outbox)) \subseteq Held(outbox)
    BY <1>i, <2>1, HeldByTail
  <2>3. Without(inbox, Opening)
    BY <2>1 DEF MediaInv, InboxInv, Without
  <2> QED
    BY <2>1, <2>2, <2>3 DEF ToldInv, FrameInv
<1>22. CASE ServerIdentifies
  <2>1. UNCHANGED <<owner, disposal, canResume, dials, path, probe>>
    BY <1>22 DEF ServerIdentifies
  <2>2. Reads("identify")
    BY <1>22 DEF ServerIdentifies
  <2>3. CASE token
    <3> DEFINE f == Ready(issued + 1)
    <3>1. issued < MaxSessions /\ inbox' = Append(inbox, f) /\ outbox' = Tail(outbox)
      BY <1>22, <2>3 DEF ServerIdentifies, Answers
    <3>2. f \in ServerFrames /\ f.op = "ready"
      <4>1. issued + 1 \in Sessions
        BY <3>1, BoundsAssumption
        DEF ShapeInv, Typed, CountsTyped, SessionsTyped, Sessions, None
      <4> QED
        BY <4>1 DEF Ready, ServerFrames
    <3>3. listening => Awaits("ready", status)
      BY <1>p, <2>2 DEF Awaits
    <3> HIDE DEF f
    <3> QED
      BY <1>e, <1>p, <2>1, <2>2, <3>1, <3>2, <3>3
  <2>4. CASE ~token
    BY <1>22, <1>c, <1>p, <2>1, <2>2, <2>4 DEF ServerIdentifies, Causes
  <2> QED
    BY <2>3, <2>4
<1>23. CASE ServerResumes
  <2>1. UNCHANGED <<owner, disposal, canResume, dials, path, probe>>
    BY <1>23 DEF ServerResumes
  <2>2. Reads("resume")
    BY <1>23 DEF ServerResumes
  <2>3. CASE token /\ alive
    <3> DEFINE f == Op("resumed")
    <3>1. inbox' = Append(inbox, f) /\ outbox' = Tail(outbox)
      BY <1>23, <2>3 DEF ServerResumes, Answers
    <3>2. f \in ServerFrames /\ f.op = "resumed"
      BY DEF Op, ServerFrames
    <3>3. listening => Awaits("resumed", status)
      BY <1>p, <2>2 DEF Awaits
    <3> HIDE DEF f
    <3> QED
      BY <1>e, <1>p, <2>1, <2>2, <3>1, <3>2, <3>3
  <2>4. CASE ~(token /\ alive)
    BY <1>23, <1>c, <1>p, <2>1, <2>2, <2>4 DEF ServerResumes, Causes
  <2> QED
    BY <2>3, <2>4
<1>24. CASE ServerSelects
  <2>1. UNCHANGED <<owner, disposal, canResume, dials, path, probe>>
    BY <1>24 DEF ServerSelects
  <2>2. Reads("select")
    BY <1>24 DEF ServerSelects
  <2> DEFINE f == Description(bound)
  <2>3. inbox' = Append(inbox, f) /\ outbox' = Tail(outbox) /\ bound # None
    BY <1>24 DEF ServerSelects, Answers
  <2>4. f \in ServerFrames /\ f.op = "description"
    <3>1. bound \in Sessions
      BY <2>3 DEF ShapeInv, Typed, SessionsTyped
    <3> QED
      BY <3>1 DEF Description, ServerFrames
  <2>5. listening => Awaits("description", status)
    BY <1>p, <2>2 DEF Awaits
  <2> HIDE DEF f
  <2> QED
    BY <1>e, <1>p, <2>1, <2>2, <2>3, <2>4, <2>5
<1>25. CASE ServerSendsDave
  <2>1. inbox' = Append(inbox, Op("dave")) /\ socket # "none"
        /\ UNCHANGED <<outbox, owner, disposal, canResume, dials, path, probe>>
    BY <1>25, HeldByOne DEF ServerSendsDave
  <2>2. /\ Op("dave") \in ServerFrames /\ Op("dave").op \notin Opening
        /\ Awaits(Op("dave").op, status)
    BY DEF Op, ServerFrames, Opening, Awaits
  <2> QED
    BY <1>e, <2>1, <2>2
<1>26. CASE ServerCloses
  BY <1>26, <1>c DEF ServerCloses
<1>27. CASE ServerForgets
  BY <1>27, <1>n DEF ServerForgets, connection
<1>28. CASE LinkBreaks
  <2>1. PICK k \in 0 .. Len(inbox) : inbox' = SubSeq(inbox, 1, k)
    BY <1>28 DEF LinkBreaks
  <2>2. Held(inbox') \subseteq Held(inbox) /\ OpeningOnce(inbox')
    BY <1>i, <1>o, <2>1, HeldByPrefix, OpeningOnceKept
  <2>3. Held(outbox') \subseteq Held(outbox)
    BY <1>28, HeldByOne DEF LinkBreaks
  <2>4. socket # "none"
        /\ UNCHANGED <<owner, disposal, canResume, dials, path, probe>>
    BY <1>28 DEF LinkBreaks
  <2> QED
    BY <1>h, <2>2, <2>3, <2>4, NothingTold
<1>29. CASE BrokenLinkEnds
  BY <1>29, <1>c DEF BrokenLinkEnds, Causes
<1>30. CASE UNCHANGED vars
  BY <1>30, <1>n DEF vars, connection
<1> QED
  BY <1>1, <1>2, <1>3, <1>4, <1>5, <1>6, <1>7, <1>8, <1>9, <1>10, <1>11, <1>12,
     <1>13, <1>14, <1>15, <1>16, <1>17, <1>18, <1>19, <1>20, <1>21, <1>22, <1>23,
     <1>24, <1>25, <1>26, <1>27, <1>28, <1>29, <1>30
  DEF Next, User, Timers, Media, TakeFrame, External, ServerReads

\* A client that is closing takes nothing more from its socket, its timers or
\* a discovery: it tells of packets that do not decrypt, until it is closed.
LEMMA ClosingTold ==
    ToldInv /\ closing /\ ShapeInv /\ [Next]_vars => Tells
<1> SUFFICES ASSUME ToldInv, closing, ShapeInv, [Next]_vars
             PROVE  Tells
  OBVIOUS
<1> USE DEF secrets, server, history, bounds, owner, wire, media
<1>q. /\ ~reconnectDue /\ ~heart /\ ~listening /\ ~dialing /\ ~probing
      /\ status # "idle" /\ disposal \in {"awaiting", "done"}
  BY DEF ShapeInv, QuietInv, TerminalIsQuiet, FreshUntilConnected, closing,
         Typed, CountsTyped
<1>u. ASSUME UNCHANGED <<owner, disposal>> PROVE Tells
  <2>1. ToldInv'
    BY <1>q, <1>u DEF ToldInv, BeforeInv, DueInv, FrameInv, closing
  <2>2. UNCHANGED Client!vars
    BY <1>u DEF Client!vars, Over
  <2> QED
    BY <2>1, <2>2 DEF Tells
<1>r. \A q, resumable : ScheduleReconnect(q, resumable) => UNCHANGED owner
  BY DEF ScheduleReconnect, ReconnectIgnored, Unmoved
<1>1. CASE Write
  <2>1. UNCHANGED owner
    BY <1>1, <1>r DEF Write, Send
  <2> QED
    BY <1>1, <1>u, <2>1 DEF Write
<1>2. CASE CloseEnd
  <2>1. /\ disposal = "awaiting" /\ disposal' = "done"
        /\ status' = "disconnected"
        /\ UNCHANGED <<failed, dialing, listening, reconnectDue, probing>>
    BY <1>2 DEF CloseEnd
  <2>2. ToldInv'
    BY <1>q, <2>1 DEF ToldInv, BeforeInv, DueInv, FrameInv, closing
  <2>3. Over = "closing" /\ Over' = "closed"
    BY <2>1 DEF Over
  <2> QED
    BY <2>1, <2>2, <2>3 DEF Tells, Client!Next, Client!Close
<1>3. CASE StrayArrives \/ MediaDecrypts
  BY <1>3, <1>u DEF StrayArrives, MediaDecrypts, connection
<1>4. CASE DialFails
  BY <1>4, <1>r, <1>u DEF DialFails
<1>5. CASE DiscoveryFinds \/ DiscoveryFails
  BY <1>5, <1>q, <1>u
  DEF DiscoveryFinds, DiscoveryFails, DiscoveryIsCurrent, connection
<1>6. CASE UdpFails
  BY <1>6, <1>r, <1>u DEF UdpFails, connection
<1>7. CASE DecryptGivesUp
  <2>1. /\ status' = Emitted("reconnecting")
        /\ UNCHANGED <<failed, disposal, attempts, dialing, listening,
                       reconnectDue, heart, probing>>
    BY <1>7 DEF DecryptGivesUp
  <2>2. CASE disposal = "done"
    BY <1>u, <2>1, <2>2 DEF Emitted
  <2>3. CASE disposal = "awaiting"
    <3>1. status' = "reconnecting"
      BY <2>1, <2>3 DEF Emitted
    <3>2. ToldInv'
      BY <1>q, <2>1, <3>1 DEF ToldInv, BeforeInv, DueInv, FrameInv, closing
    <3>3. Over = "closing" /\ Over' = "closing"
      BY <2>1, <2>3 DEF Over
    <3> QED
      BY <3>1, <3>2, <3>3 DEF Tells, Client!Next, Client!Blame
  <2> QED
    BY <1>q, <2>2, <2>3
<1>8. CASE External
  BY <1>8, <1>u
  DEF External, ServerReads, ServerIdentifies, ServerResumes, ServerSelects,
      ServerSendsDave, ServerCloses, ServerForgets, LinkBreaks, BrokenLinkEnds,
      connection
<1>9. CASE UNCHANGED vars
  BY <1>9, <1>u DEF vars, connection
<1>10. CASE \/ Connect \/ CloseBegin \/ ReconnectTimer \/ HeartbeatTimer
           \/ DialSucceeds \/ TakeFrame \/ AcceptAck \/ AcceptUnusable
  BY <1>10, <1>q
  DEF Connect, CloseBegin, ReconnectTimer, HeartbeatTimer, DialSucceeds,
      TakeFrame, AcceptHello, AcceptReady, AcceptDescription, AcceptResumed,
      AcceptDave, AcceptDone, AcceptAck, AcceptUnusable, Takes
<1> QED
  BY <1>1, <1>2, <1>3, <1>4, <1>5, <1>6, <1>7, <1>8, <1>9, <1>10
  DEF Next, User, Timers, Media

LEMMA ToldHolds == Spec => []ToldInv
<1>1. Init => ToldInv
  BY HeldByOne, OpeningOnceStart
  DEF Init, ToldInv, BeforeInv, DueInv, FrameInv
<1>2. ToldInv /\ (MediaKept /\ ShapeInv) /\ [Next]_vars => ToldInv'
  BY ToldStep, ClosingTold DEF MediaKept, Tells
<1> QED
  BY <1>1, <1>2, MediaHolds, PTL DEF Spec

\* Whatever the sockets, dials, timers and discoveries of a client do, in every
\* order: the statuses on its stream come as the contract VoiceClient has them,
\* each stage behind the one before it, none after close() has ended, and after
\* a failure or the begin of close() none but that of a blamed key
\* (_emitStatus, _fail, close, _decryptOrDrop).
THEOREM ClientTellsItsStages == Spec => TellsItsStages
<1>1. Init => Client!Init
  BY DEF Init, Client!Init, Over
<1>2. ToldInv /\ (MediaKept /\ ShapeInv) /\ [Next]_vars
         => [Client!Next]_(Client!vars)
  BY ToldStep, ClosingTold DEF MediaKept, Tells
<1> QED
  BY <1>1, <1>2, ToldHolds, MediaHolds, PTL DEF Spec, Client!Spec, TellsItsStages

-----------------------------------------------------------------------------
(* What a connection has left to go on with.                               *)

\* Somebody has the connection in hand.
OwnedInv == (status # "idle" /\ ~failed /\ ~closing) =>
    reconnectDue \/ dialing \/ listening \/ (asked /\ socket = "none")

\* A socket that is listened to brings its end, its first heartbeat and the
\* next step of the handshake, unless it died without a word.
EndsInv == (listening /\ socket = "ended") => ~Without(inbox, {"done"})
BeatsInv == (listening /\ socket = "open") => heart \/ ~Without(inbox, {"hello"})
GoesOnInv == (listening /\ socket = "open" /\ status # "ready" /\ ~gaveUp) =>
    probing \/ outbox # <<>> \/ ~Without(inbox, Opening)

WayInv == OwnedInv /\ EndsInv /\ BeatsInv /\ GoesOnInv

\* What a queue holds is its head and what its tail holds.
LEMMA HeldSplit ==
    ASSUME NEW S, NEW q \in Seq(S), q # <<>>
    PROVE  Held(q) \subseteq {Head(q)} \cup Held(Tail(q))
<1>1. /\ Len(q) \in Nat \ {0} /\ Head(q) = q[1] /\ Len(Tail(q)) = Len(q) - 1
      /\ \A i \in 1 .. Len(q) - 1 : Tail(q)[i] = q[i + 1]
  OBVIOUS
<1> SUFFICES ASSUME NEW i \in 1 .. Len(q), i # 1 PROVE q[i] \in Held(Tail(q))
  BY <1>1 DEF Held
<1>2. i - 1 \in 1 .. Len(Tail(q)) /\ Tail(q)[i - 1] = q[i]
  BY <1>1
<1> QED
  BY <1>2 DEF Held

\* What is left of the queue still brings what the queue brought.
Brought(q) == \A ops \in {{"done"}, {"hello"}, Opening} :
    Without(q, ops) => Without(inbox, ops)

\* A client that does not listen needs no more than an owner.
LEMMA UnheardWay == ASSUME ~listening', OwnedInv' PROVE WayInv'
BY DEF WayInv, EndsInv, BeatsInv, GoesOnInv

\* _fail, _scheduleReconnect and _send: the way there was is still there, or
\* there is the timer, or there is nothing to go on with.
LEMMA HelpersKeepWay ==
    ASSUME WayInv, QuietInv, OneHolder, outbox \in Seq(ClientFrames),
           UNCHANGED disposal, asked' = asked, gaveUp' = gaveUp, NEW q
    PROVE  /\ Brought(q) /\ Unmoved(q) => WayInv'
           /\ (Brought(q) \/ listening) /\ Fail(q) => WayInv'
           /\ \A resumable :
                 /\ (Brought(q) \/ listening) /\ ScheduleReconnect(q, resumable)
                       => WayInv'
                 /\ Brought(q) /\ Send(q, <<>>, resumable) => WayInv'
<1>q. listening => ~failed /\ ~closing /\ ~reconnectDue
  BY DEF QuietInv, TerminalIsQuiet, OneHolder
<1>1. ASSUME Brought(q), Unmoved(q) PROVE WayInv'
  <2>1. inbox' = q /\ UNCHANGED <<owner, socket, outbox>>
    BY <1>1 DEF Unmoved
  <2>2. OwnedInv'
    BY <2>1 DEF owner, WayInv, OwnedInv, closing
  <2>3. EndsInv' /\ BeatsInv'
    BY <1>1, <2>1 DEF owner, WayInv, EndsInv, BeatsInv, Brought
  <2>4. GoesOnInv'
    BY <1>1, <2>1 DEF owner, WayInv, GoesOnInv, Brought
  <2> QED
    BY <2>2, <2>3, <2>4 DEF WayInv
<1>2. ASSUME Brought(q) \/ listening, Fail(q) PROVE WayInv'
  <2>1. CASE closing \/ failed
    BY <1>1, <1>2, <1>q, <2>1 DEF Fail
  <2>2. CASE ~(closing \/ failed)
    BY <1>2, <2>2, UnheardWay DEF Fail, NewGeneration, OwnedInv
  <2> QED
    BY <2>1, <2>2
<1>3. ASSUME Brought(q) \/ listening, NEW resumable,
             ScheduleReconnect(q, resumable)
      PROVE  WayInv'
  <2>1. CASE ReconnectIgnored
    BY <1>1, <1>3, <1>q, <2>1 DEF ScheduleReconnect, ReconnectIgnored
  <2>2. CASE ~ReconnectIgnored /\ attempts >= MaxAttempts
    BY <1>2, <1>3, <2>2 DEF ScheduleReconnect
  <2>3. CASE ~ReconnectIgnored /\ ~(attempts >= MaxAttempts)
    BY <1>3, <2>3, UnheardWay DEF ScheduleReconnect, NewGeneration, OwnedInv
  <2> QED
    BY <2>1, <2>2, <2>3
<1>4. ASSUME Brought(q), NEW resumable, Send(q, <<>>, resumable) PROVE WayInv'
  <2>1. CASE ScheduleReconnect(q, resumable)
    BY <1>3, <1>4, <2>1
  <2>2. CASE ~ScheduleReconnect(q, resumable)
    <3>1. outbox \o <<>> = outbox
      OBVIOUS
    <3>2. Unmoved(q)
      BY <1>4, <2>2, <3>1 DEF Send, Unmoved
    <3> QED
      BY <1>1, <1>4, <3>2
  <2> QED
    BY <2>1, <2>2
<1> QED
  BY <1>1, <1>2, <1>3, <1>4

\* Each turn that uses up what a connection has to go on with provides the
\* next: a dial takes the timer's place, a socket the dial's, and each frame
\* of the handshake is answered by a step of its own.
LEMMA WayStep ==
    WayInv /\ ToldInv /\ ShapeInv /\ [Next]_vars => WayInv'
<1> SUFFICES ASSUME WayInv, ToldInv, ShapeInv, [Next]_vars
             PROVE  WayInv'
  OBVIOUS
<1> USE DEF secrets, server, history, bounds, owner, wire, media
<1>v. QuietInv /\ OneHolder /\ WireInv
  BY DEF ShapeInv, HolderInv
<1>i. inbox \in Seq(ServerFrames) /\ outbox \in Seq(ClientFrames)
  BY DEF ShapeInv, Typed, ConnectionTyped
<1>q. /\ reconnectDue \/ dialing \/ listening \/ probing => ~failed /\ ~closing
      /\ listening => ~reconnectDue /\ ~dialing
      /\ probing \/ heart => listening
  BY <1>v DEF QuietInv, TerminalIsQuiet, closing, OneHolder
<1>b. Brought(inbox)
  BY DEF Brought
<1>t. inbox # <<>> =>
         \A ops : Without(Tail(inbox), ops) /\ Head(inbox).op \notin ops
                     => Without(inbox, ops)
  BY <1>i, HeldSplit DEF Without
<1>d. inbox # <<>> /\ Head(inbox).op = "dave" => Brought(Tail(inbox))
  BY <1>t DEF Brought, Opening
<1>a. \A f \in ServerFrames : \A ops :
         /\ f.op \in ops => ~Without(Append(inbox, f), ops)
         /\ Without(Append(inbox, f), ops) => Without(inbox, ops)
  BY <1>i, HeldByAppend DEF Without
<1>n. ASSUME UNCHANGED <<owner, wire, disposal, asked, gaveUp>> PROVE WayInv'
  BY <1>n DEF WayInv, OwnedInv, EndsInv, BeatsInv, GoesOnInv, closing
<1>e. ASSUME NEW f \in ServerFrames, inbox' = Append(inbox, f),
             UNCHANGED <<owner, disposal, asked, gaveUp>>,
             \/ f.op = "done" /\ socket # "none" /\ socket' = "ended"
             \/ socket' = socket /\ socket # "ended"
                /\ (outbox' = outbox \/ f.op \in Opening)
      PROVE  WayInv'
  <2>1. OwnedInv' /\ EndsInv'
    BY <1>a, <1>e DEF WayInv, OwnedInv, EndsInv, closing
  <2>2. BeatsInv'
    BY <1>a, <1>e DEF WayInv, BeatsInv
  <2>3. GoesOnInv'
    BY <1>a, <1>e DEF WayInv, GoesOnInv
  <2> QED
    BY <2>1, <2>2, <2>3 DEF WayInv
<1>c. ASSUME NEW cause \in Causes, ClosesWith(cause), socket # "none",
             UNCHANGED <<owner, disposal, asked, gaveUp>>
      PROVE  WayInv'
  <2>1. Done(cause) \in ServerFrames /\ Done(cause).op = "done"
    BY DEF Done, ServerFrames
  <2> QED
    BY <1>c, <1>e, <2>1 DEF ClosesWith
<1>1. CASE Connect
  BY <1>1, <1>v, UnheardWay DEF Connect, OwnedInv, OneHolder
<1>2. CASE Write
  BY <1>2, <1>b, <1>i, <1>v, HelpersKeepWay DEF Write
<1>3. CASE CloseBegin
  BY <1>3, UnheardWay DEF CloseBegin, NewGeneration, OwnedInv, closing
<1>4. CASE CloseEnd
  BY <1>4, <1>q, UnheardWay DEF CloseEnd, OwnedInv, closing
<1>5. CASE ReconnectTimer
  BY <1>5, <1>q, UnheardWay DEF ReconnectTimer, OwnedInv
<1>6. CASE HeartbeatTimer
  BY <1>6, <1>b, <1>i, <1>v, HelpersKeepWay DEF HeartbeatTimer
<1>7. CASE DialSucceeds
  <2>1. /\ listening' /\ socket' = "open" /\ outbox' # <<>>
        /\ inbox' = <<Op("hello")>>
    BY <1>7, HeldByOne DEF DialSucceeds
  <2>2. ~Without(inbox', {"hello"})
    BY <2>1, HeldByOne DEF Without, Op
  <2> QED
    BY <2>1, <2>2 DEF WayInv, OwnedInv, EndsInv, BeatsInv, GoesOnInv
<1>8. CASE StrayArrives \/ MediaDecrypts \/ AcceptAck \/ ServerForgets
  BY <1>8, <1>n DEF StrayArrives, MediaDecrypts, AcceptAck, ServerForgets, connection
<1>9. CASE DialFails
  BY <1>9, <1>b, <1>i, <1>v, HelpersKeepWay DEF DialFails
<1>10. CASE DiscoveryFinds
  <2>1. UNCHANGED <<disposal, asked, gaveUp>>
    BY <1>10 DEF DiscoveryFinds
  <2>2. CASE ~probing
    BY <1>10, <1>n, <2>1, <2>2 DEF DiscoveryFinds, DiscoveryIsCurrent, connection
  <2>3. CASE ScheduleReconnect(inbox, canResume)
    BY <1>b, <1>i, <1>v, <2>1, <2>3, HelpersKeepWay
  <2>4. CASE probing /\ ~ScheduleReconnect(inbox, canResume)
    <3>1. /\ UNCHANGED <<failed, listening, inbox, socket, dialing, reconnectDue,
                         heart>>
          /\ listening /\ status' # "ready"
          /\ socket = "open" => outbox' # <<>>
      <4>1. Append(outbox, Op("select")) # <<>>
        BY <1>i
      <4> QED
        BY <1>10, <1>q, <2>4, <4>1 DEF DiscoveryFinds, DiscoveryIsCurrent
    <3> QED
      BY <2>1, <3>1 DEF WayInv, OwnedInv, EndsInv, BeatsInv, GoesOnInv
  <2> QED
    BY <2>2, <2>3, <2>4
<1>11. CASE DiscoveryFails
  <2>1. UNCHANGED <<disposal, asked, gaveUp>>
    BY <1>11 DEF DiscoveryFails
  <2>2. CASE ~probing
    BY <1>11, <1>n, <2>1, <2>2 DEF DiscoveryFails, DiscoveryIsCurrent, connection
  <2>3. CASE probing
    BY <1>11, <1>b, <1>i, <1>v, <2>1, <2>3, HelpersKeepWay
    DEF DiscoveryFails, DiscoveryIsCurrent
  <2> QED
    BY <2>2, <2>3
<1>12. CASE UdpFails
  <2>1. UNCHANGED <<disposal, asked, gaveUp>>
    BY <1>12 DEF UdpFails
  <2>2. CASE socket = "none"
    BY <1>12, <1>n, <2>1, <2>2 DEF UdpFails, connection
  <2>3. CASE socket # "none"
    BY <1>12, <1>b, <1>i, <1>v, <2>1, <2>3, HelpersKeepWay DEF UdpFails
  <2> QED
    BY <2>2, <2>3
<1>13. CASE DecryptGivesUp
  <2>1. gaveUp' /\ UNCHANGED <<failed, dialing, listening, reconnectDue, heart,
                               probing, wire, disposal, asked>>
    BY <1>13 DEF DecryptGivesUp
  <2>2. status # "idle"
    BY <1>13 DEF DecryptGivesUp, ToldInv, BeforeInv
  <2> QED
    BY <2>1, <2>2 DEF WayInv, OwnedInv, EndsInv, BeatsInv, GoesOnInv, closing
<1>14. CASE AcceptHello
  <2>1. /\ heart' /\ inbox' = Tail(inbox) /\ Head(inbox).op = "hello"
        /\ inbox # <<>>
        /\ UNCHANGED <<failed, status, dialing, listening, reconnectDue, probing,
                       socket, outbox, disposal, asked, gaveUp>>
    BY <1>14 DEF AcceptHello, Takes
  <2>2. \A ops \in {{"done"}, Opening} :
           Without(inbox', ops) => Without(inbox, ops)
    BY <1>t, <2>1 DEF Opening
  <2> QED
    BY <2>1, <2>2 DEF WayInv, OwnedInv, EndsInv, BeatsInv, GoesOnInv, closing
<1>15. CASE AcceptReady
  <2>1. /\ probing' /\ inbox' = Tail(inbox) /\ Head(inbox).op = "ready"
        /\ inbox # <<>> /\ listening
        /\ UNCHANGED <<failed, dialing, listening, reconnectDue, heart, socket>>
    BY <1>15 DEF AcceptReady, Takes
  <2>2. \A ops \in {{"done"}, {"hello"}} :
           Without(inbox', ops) => Without(inbox, ops)
    BY <1>t, <2>1
  <2> QED
    BY <2>1, <2>2 DEF WayInv, OwnedInv, EndsInv, BeatsInv, GoesOnInv
<1>r. ASSUME listening, inbox # <<>>, Head(inbox).op \in Opening,
             inbox' = Tail(inbox), status' = "ready",
             UNCHANGED <<failed, dialing, listening, reconnectDue, heart, socket>>
      PROVE  WayInv'
  <2>1. \A ops \in {{"done"}, {"hello"}} :
           Without(inbox', ops) => Without(inbox, ops)
    BY <1>r, <1>t DEF Opening
  <2> QED
    BY <1>r, <2>1 DEF WayInv, OwnedInv, EndsInv, BeatsInv, GoesOnInv
<1>16. CASE AcceptDescription
  <2>1. /\ Head(inbox).op = "description" /\ listening /\ inbox # <<>>
        /\ UNCHANGED <<disposal, asked, gaveUp>>
    BY <1>16 DEF AcceptDescription, Takes
  <2>2. CASE discovered = None
    BY <1>16, <1>i, <1>v, <2>1, <2>2, HelpersKeepWay DEF AcceptDescription
  <2>3. CASE discovered # None /\ status' = "ready"
    BY <1>16, <1>r, <2>1, <2>3 DEF AcceptDescription, Opening
  <2>4. CASE discovered # None /\ status' # "ready"
    <3>1. /\ inbox' = Tail(inbox) /\ socket = "ended"
          /\ UNCHANGED <<failed, dialing, listening, reconnectDue, heart, socket>>
      BY <1>16, <2>4 DEF AcceptDescription
    <3>2. Without(inbox', {"done"}) => Without(inbox, {"done"})
      BY <1>t, <2>1, <3>1
    <3> QED
      BY <2>1, <3>1, <3>2 DEF WayInv, OwnedInv, EndsInv, BeatsInv, GoesOnInv
  <2> QED
    BY <2>2, <2>3, <2>4
<1>17. CASE AcceptResumed
  BY <1>17, <1>r DEF AcceptResumed, Takes, Opening
<1>18. CASE AcceptDave
  BY <1>18, <1>d, <1>i, <1>v, HelpersKeepWay DEF AcceptDave, Takes
<1>19. CASE AcceptDone
  <2>1. listening /\ UNCHANGED <<disposal, gaveUp>>
    BY <1>19 DEF AcceptDone, Takes
  <2>2. CASE AwaitCredentials
    BY <2>2, UnheardWay DEF AwaitCredentials, NewGeneration, OwnedInv
  <2>3. CASE (\/ ScheduleReconnect(Tail(inbox), canResume)
              \/ Fail(Tail(inbox))) /\ asked' = asked
    BY <1>i, <1>v, <2>1, <2>3, HelpersKeepWay
  <2> QED
    BY <1>19, <2>2, <2>3 DEF AcceptDone
<1>20. CASE AcceptUnusable
  BY <1>20, <1>i, <1>v, HelpersKeepWay DEF AcceptUnusable
<1>21. CASE ServerIdentifies
  <2>1. UNCHANGED <<owner, disposal, asked, gaveUp>> /\ socket = "open"
    BY <1>21 DEF ServerIdentifies, Reads
  <2>2. CASE token
    <3> DEFINE f == Ready(issued + 1)
    <3>1. /\ issued < MaxSessions /\ inbox' = Append(inbox, f)
          /\ socket' = socket
      BY <1>21, <2>2 DEF ServerIdentifies, Answers
    <3>2. f \in ServerFrames /\ f.op \in Opening
      <4>1. issued + 1 \in Sessions
        BY <3>1, BoundsAssumption
        DEF ShapeInv, Typed, SessionsTyped, Sessions, None
      <4> QED
        BY <4>1 DEF Ready, ServerFrames, Opening
    <3> HIDE DEF f
    <3> QED
      BY <1>e, <2>1, <3>1, <3>2
  <2>3. CASE ~token
    BY <1>21, <1>c, <2>1, <2>3 DEF ServerIdentifies, Causes
  <2> QED
    BY <2>2, <2>3
<1>22. CASE ServerResumes
  <2>1. UNCHANGED <<owner, disposal, asked, gaveUp>> /\ socket = "open"
    BY <1>22 DEF ServerResumes, Reads
  <2>2. CASE token /\ alive
    <3>1. Op("resumed") \in ServerFrames /\ Op("resumed").op \in Opening
      BY DEF Op, ServerFrames, Opening
    <3> QED
      BY <1>22, <1>e, <2>1, <2>2, <3>1 DEF ServerResumes, Answers
  <2>3. CASE ~(token /\ alive)
    BY <1>22, <1>c, <2>1, <2>3 DEF ServerResumes, Causes
  <2> QED
    BY <2>2, <2>3
<1>23. CASE ServerSelects
  <2>1. UNCHANGED <<owner, disposal, asked, gaveUp, socket>> /\ socket = "open"
        /\ bound # None /\ inbox' = Append(inbox, Description(bound))
    BY <1>23 DEF ServerSelects, Reads, Answers
  <2>2. Description(bound) \in ServerFrames /\ Description(bound).op \in Opening
    BY <2>1
    DEF ShapeInv, Typed, SessionsTyped, Description, ServerFrames, Opening
  <2> QED
    BY <1>e, <2>1, <2>2
<1>24. CASE ServerSendsDave
  <2>1. inbox' = Append(inbox, Op("dave")) /\ Op("dave") \in ServerFrames
    BY <1>24, HeldByOne DEF ServerSendsDave, Op, ServerFrames
  <2> QED
    BY <1>24, <1>e, <2>1 DEF ServerSendsDave
<1>25. CASE ServerCloses
  BY <1>25, <1>c DEF ServerCloses
<1>26. CASE LinkBreaks
  BY <1>26 DEF LinkBreaks, WayInv, OwnedInv, EndsInv, BeatsInv, GoesOnInv, closing
<1>27. CASE BrokenLinkEnds
  BY <1>27, <1>c DEF BrokenLinkEnds, Causes
<1>28. CASE UNCHANGED vars
  BY <1>28, <1>n DEF vars, connection
<1> QED
  BY <1>1, <1>2, <1>3, <1>4, <1>5, <1>6, <1>7, <1>8, <1>9, <1>10, <1>11, <1>12,
     <1>13, <1>14, <1>15, <1>16, <1>17, <1>18, <1>19, <1>20, <1>21, <1>22, <1>23,
     <1>24, <1>25, <1>26, <1>27, <1>28
  DEF Next, User, Timers, Media, TakeFrame, External, ServerReads

\* A connection that is meant to last always has somebody or something that
\* takes it on: the reconnect timer, a dial, the client of new credentials, or
\* a socket that will end, beat or bring the next step of the handshake.  It
\* is what liveness rests on, here for every bound.
THEOREM NeverLeftWaiting == Spec => []NeverWaitsInVain
<1>1. Init => WayInv
  BY DEF Init, WayInv, OwnedInv, EndsInv, BeatsInv, GoesOnInv
<1>2. ShapeInv /\ WayInv => NeverWaitsInVain
  <2> SUFFICES ASSUME ShapeInv, WayInv, status # "idle", ~failed, ~closing,
                      ~reconnectDue, ~dialing, ~(asked /\ socket = "none")
               PROVE  NeverWaitsInVain
    BY DEF NeverWaitsInVain
  <2>1. listening /\ socket \in {"open", "broken", "ended"}
    BY DEF WayInv, OwnedInv, ShapeInv, HolderInv, OneHolder, Typed,
           ConnectionTyped, Transports
  <2>2. \A ops : ~Without(inbox, ops) => Brings(ops)
    BY DEF Without, Held, Brings
  <2> QED
    BY <2>1, <2>2
    DEF NeverWaitsInVain, WayInv, EndsInv, BeatsInv, GoesOnInv, Opening
<1> QED
  BY <1>1, <1>2, WayStep, ToldHolds, ShapeHolds, PTL DEF Spec

=============================================================================
