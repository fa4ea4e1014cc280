---------------------------- MODULE VoiceGateway ----------------------------
(***************************************************************************)
(* The voice connection: the socket owner DiscordVoiceGatewayClient, the   *)
(* protocol object it drives, its reconnect backoff and the UDP path the   *)
(* media takes, against a voice server and a network that lose things.     *)
(*                                                                         *)
(* One action is one turn of the event loop.  The code guards callbacks    *)
(* with a generation number; what matters of it is whether the callback's  *)
(* number is the current one, so a new generation is modelled by what it   *)
(* makes stale: the socket that is listened to, the dial in flight, and    *)
(* the UDP discovery in flight.  A media session is what one IDENTIFY      *)
(* negotiates: its key, its SSRC and its UDP path carry its number.        *)
(*                                                                         *)
(* The owner of the client calls connect() once, right after making it;    *)
(* new credentials make a new client.                                      *)
(***************************************************************************)
EXTENDS Integers, Sequences, FiniteSets

CONSTANTS
    MaxSessions,  \* media sessions the voice server hands out
    MaxAttempts,  \* maxAttempts of VoiceReconnectBackoff
    MaxFaults,    \* faults of network, server, frames and media
    MaxWrites,    \* frames the user makes the client write
    Tolerance     \* heartbeats that may stay unanswered

ASSUME BoundsAssumption ==
    /\ MaxSessions \in Nat \ {0}
    /\ MaxFaults \in Nat
    /\ MaxWrites \in Nat

ASSUME PolicyAssumption ==
    /\ MaxAttempts \in Nat
    /\ Tolerance \in Nat \ {0}

Sessions == 1 .. MaxSessions
None == 0

Op(op) == [op |-> op]
Ready(k) == [op |-> "ready", session |-> k]
Description(k) == [op |-> "description", session |-> k]
Done(cause) == [op |-> "done", cause |-> cause]

\* Why a socket ended: lost, or closed with a code that says the session is
\* over (sessionInvalid, serverMoved, sessionExpired) or refused for good.
Causes == {"lost", "ended", "refused"}

ServerFrames ==
    [op : {"hello", "resumed", "dave"}]
    \cup [op : {"ready", "description"}, session : Sessions]
    \cup [op : {"done"}, cause : Causes]

ClientFrames == [op : {"identify", "resume", "select"}]

Transports == {"none", "open", "broken", "ended"}
Statuses == {"idle", "connecting", "discovering", "negotiating", "ready",
             "reconnecting", "failure", "disconnected"}

-----------------------------------------------------------------------------

VARIABLES
    \* The socket owner.
    disposal,      \* close(): "none", "awaiting" what it cancels, "done"
    failed,        \* _failed
    dials,         \* dials in flight
    dialing,       \* the last of them is of the current generation
    socket,        \* _socket: none, or how its transport is
    listening,     \* its subscription is of the current generation
    reconnectDue,  \* _reconnectTimer is active
    heart,         \* _heartbeatTimer is active
    attempts,      \* _attempts of the backoff
    status,        \* the last status on the event stream
    \* The protocol.
    canResume,
    discovered,    \* the path SELECT_PROTOCOL announced, _discovered
    session,       \* the negotiated session, _session
    unacked,
    \* The media plane.
    cipher,        \* _transportCipher
    path,          \* the UDP socket, by the session it was opened for
    probe,         \* the session a UDP discovery in flight is for
    probing,       \* that discovery is of the current generation
    proven,        \* _hasDecryptedAnyPacket
    gaveUp,        \* so many packets failed to decrypt that the key is blamed
    \* The socket's queues, and a heartbeat not yet answered.
    inbox, outbox, owed,
    \* External: the voice server.
    bound,         \* the media session the socket carries
    issued, alive, \* the last session handed out; whether it can be resumed
    token,         \* whether the credentials are still good
    \* History, for properties only.
    asked,         \* the client asked for new credentials
    faults, writes

owner    == <<failed, attempts, status, dialing, listening, reconnectDue,
              heart, probing>>
wire     == <<socket, inbox, outbox>>
media    == <<session, discovered, cipher>>
secrets  == <<proven, gaveUp>>
server   == <<bound, issued, alive, token>>
history  == <<asked>>
bounds   == <<faults, writes>>

\* What _scheduleReconnect and _fail may change.
connection == <<owner, wire, media>>

vars == <<connection, disposal, dials, canResume, unacked, path, probe, owed,
          secrets, server, history, bounds>>

closing == disposal # "none"

\* Type invariant.
TypeOK ==
    /\ disposal \in {"none", "awaiting", "done"}
    /\ {failed, dialing, listening, reconnectDue, heart, probing} \subseteq BOOLEAN
    /\ {canResume, proven, gaveUp, owed, alive, token, asked} \subseteq BOOLEAN
    /\ dials \in 0 .. (MaxFaults + MaxWrites + 1)
    /\ socket \in Transports
    /\ attempts \in 0 .. MaxAttempts
    /\ status \in Statuses
    /\ {discovered, session, cipher, path, probe, bound, issued}
          \subseteq Sessions \cup {None}
    /\ unacked \in 0 .. Tolerance
    /\ inbox \in Seq(ServerFrames)
    /\ outbox \in Seq(ClientFrames)
    /\ faults \in 0 .. MaxFaults
    /\ writes \in 0 .. MaxWrites

Init ==
    /\ disposal = "none" /\ failed = FALSE /\ attempts = 0 /\ status = "idle"
    /\ dials = 0 /\ dialing = FALSE /\ listening = FALSE
    /\ reconnectDue = FALSE /\ heart = FALSE
    /\ socket = "none" /\ inbox = <<>> /\ outbox = <<>> /\ owed = FALSE
    /\ canResume = FALSE /\ unacked = 0
    /\ session = None /\ discovered = None /\ cipher = None
    /\ path = None /\ probe = None /\ probing = FALSE
    /\ proven = FALSE /\ gaveUp = FALSE
    /\ bound = None /\ issued = None /\ alive = FALSE /\ token = TRUE
    /\ asked = FALSE
    /\ faults = 0 /\ writes = 0

-----------------------------------------------------------------------------
(* Helpers of the socket owner.  A handler that took a frame says what it   *)
(* left in the queue, q, in case the connection stays.                      *)

\* _emitStatus: nothing goes out on a closed event stream.
Emitted(st) == IF disposal = "done" THEN status ELSE st

\* ++_generation: whatever belongs to the old number is stale.
NewGeneration == listening' = FALSE /\ dialing' = FALSE /\ probing' = FALSE

\* The socket is closed.  What it had not delivered is not listened to, and
\* what the server had not read opens nothing this client goes on with.
HangUp ==
    /\ socket' = IF socket = "none" THEN "none" ELSE "ended"
    /\ inbox' = <<>> /\ outbox' = <<>>

\* The session, what its discovery found and its key are forgotten.
DropMedia == session' = None /\ discovered' = None /\ cipher' = None

Unmoved(q) ==
    /\ inbox' = q
    /\ UNCHANGED <<owner, socket, outbox, media>>

\* _fail.
Fail(q) ==
    IF closing \/ failed
    THEN Unmoved(q)
    ELSE /\ failed' = TRUE /\ status' = Emitted("failure")
         /\ NewGeneration /\ HangUp /\ DropMedia
         /\ heart' = FALSE /\ reconnectDue' = FALSE
         /\ UNCHANGED attempts

\* Mutant: a failed connection schedules a reconnect all the same.
IgnoredUnlessFailed == closing \/ reconnectDue

ReconnectIgnored == closing \/ failed \/ reconnectDue

\* Mutant: every redial starts from nothing.
KeepsNothing(resumable) == FALSE

\* A resume goes on with the same session over the same path.
KeepsMedia(resumable) == resumable

\* _scheduleReconnect, when canResume has become `resumable`.
ScheduleReconnect(q, resumable) ==
    IF ReconnectIgnored
    THEN Unmoved(q)
    ELSE IF attempts >= MaxAttempts
    THEN Fail(q)
    ELSE /\ attempts' = attempts + 1
         /\ NewGeneration /\ HangUp
         /\ heart' = FALSE /\ reconnectDue' = TRUE
         /\ IF KeepsMedia(resumable) THEN UNCHANGED media ELSE DropMedia
         /\ status' = Emitted("reconnecting")
         /\ UNCHANGED failed

\* _send: frames written to a broken link vanish; frames written to a socket
\* that is over vanish or throw, and the throw is answered with a reconnect.
Send(q, frames, resumable) ==
    \/ /\ inbox' = q
       /\ outbox' = IF socket = "open" THEN outbox \o frames ELSE outbox
       /\ UNCHANGED <<owner, socket, media>>
    \/ /\ socket = "ended"
       /\ ScheduleReconnect(q, resumable)

Fault == faults < MaxFaults /\ faults' = faults + 1

-----------------------------------------------------------------------------
(* Calls of the user.                                                      *)

Connect ==
    /\ status = "idle"
    /\ dials' = 1 /\ dialing' = TRUE /\ status' = "connecting"
    /\ UNCHANGED <<failed, attempts, listening, reconnectDue, heart, probing,
                   wire, media, disposal, canResume, unacked, path, probe,
                   owed, secrets, server, history, bounds>>

\* setSpeaking, announceVideo, sendMediaSinkWants and the like: a write at any
\* moment, to whatever _socket holds.
Write ==
    /\ writes < MaxWrites /\ writes' = writes + 1
    /\ socket # "none"
    /\ Send(inbox, <<>>, canResume)
    /\ UNCHANGED <<disposal, dials, canResume, unacked, path, probe, owed,
                   secrets, server, history, faults>>

\* close(): first what is cancelled at once, then what it waits for.
CloseBegin ==
    /\ status # "idle" /\ disposal = "none" /\ disposal' = "awaiting"
    /\ failed' = FALSE
    /\ NewGeneration
    /\ heart' = FALSE /\ reconnectDue' = FALSE
    /\ UNCHANGED <<attempts, status, dials, wire, media, canResume, unacked,
                   path, probe, owed, secrets, server, history, bounds>>

CloseEnd ==
    /\ disposal = "awaiting" /\ disposal' = "done"
    /\ HangUp /\ DropMedia
    /\ path' = None /\ probe' = None
    /\ status' = "disconnected"
    /\ UNCHANGED <<failed, attempts, dials, dialing, listening, reconnectDue,
                   heart, probing, canResume, unacked, owed, secrets, server,
                   history, bounds>>

-----------------------------------------------------------------------------
(* Timers, dials and the UDP path.                                         *)

\* _open, from the timer: close() and _fail() cancel it.
ReconnectTimer ==
    /\ reconnectDue /\ reconnectDue' = FALSE
    /\ dials' = dials + 1 /\ dialing' = TRUE
    /\ status' = Emitted(IF canResume THEN "reconnecting" ELSE "connecting")
    /\ UNCHANGED <<failed, attempts, listening, heart, probing, wire, media,
                   disposal, canResume, unacked, path, probe, owed, secrets,
                   server, history, bounds>>

OpeningFrame == Op(IF canResume THEN "resume" ELSE "identify")

\* The current dial ends with a socket: the session is resumed or opened on it.
DialSucceeds ==
    /\ dialing /\ dialing' = FALSE /\ dials' = dials - 1
    /\ socket' = "open" /\ listening' = TRUE
    /\ inbox' = <<Op("hello")>> /\ outbox' = <<OpeningFrame>>
    /\ owed' = FALSE /\ bound' = None
    /\ UNCHANGED <<failed, attempts, status, reconnectDue, heart, probing,
                   media, disposal, canResume, unacked, path, probe, secrets,
                   issued, alive, token, history, bounds>>

\* An older dial ends with a socket: it is closed.
StrayArrives ==
    /\ dials > (IF dialing THEN 1 ELSE 0) /\ dials' = dials - 1
    /\ UNCHANGED <<connection, disposal, canResume, unacked, path, probe, owed,
                   secrets, server, history, bounds>>

\* A dial fails, the current one or an older one: the catch does not ask which.
DialFails ==
    /\ dials > 0 /\ dials' = dials - 1
    /\ Fault
    /\ ScheduleReconnect(inbox, canResume)
    /\ UNCHANGED <<disposal, canResume, unacked, path, probe, owed, secrets,
                   server, history, writes>>

\* Mutant: none of the heartbeats is counted.
RecordsNothing == unacked

\* DiscordGatewayHeartbeatWatchdog.
HasExceededTolerance == unacked >= Tolerance
RecordSent == unacked + 1

\* _heartbeat.  A session that stopped answering is not resumed.  A healthy
\* server answers in time: one that does not is a fault.
HeartbeatTimer ==
    /\ heart
    /\ IF HasExceededTolerance
       THEN /\ IF socket = "open" THEN Fault ELSE UNCHANGED faults
            /\ canResume' = FALSE
            /\ ScheduleReconnect(inbox, FALSE)
            /\ UNCHANGED <<unacked, owed>>
       ELSE /\ unacked' = RecordSent
            /\ owed' = (owed \/ socket = "open")
            /\ Send(inbox, <<>>, canResume)
            /\ UNCHANGED <<canResume, faults>>
    /\ UNCHANGED <<disposal, dials, path, probe, secrets, server, history,
                   writes>>

\* Mutant: a discovery that ends is taken for the current one.
EveryDiscovery == probe # None

\* What _discoverUdp asks of its generation.
DiscoveryIsCurrent == probing

\* The address is found.  The newest discovery has the UDP socket, whether or
\* not its connection is still the current one.
DiscoveryFinds ==
    /\ probe # None /\ probe' = None /\ path' = probe
    /\ IF DiscoveryIsCurrent
       THEN \/ /\ probing' = FALSE
               /\ status' = "negotiating" /\ discovered' = probe
               /\ outbox' = IF socket = "open"
                            THEN Append(outbox, Op("select")) ELSE outbox
               /\ UNCHANGED <<failed, attempts, dialing, listening, inbox,
                              reconnectDue, heart, socket, session, cipher>>
            \/ /\ socket = "ended"
               /\ ScheduleReconnect(inbox, canResume)
       ELSE UNCHANGED connection
    /\ UNCHANGED <<disposal, dials, canResume, unacked, owed, secrets, server,
                   history, bounds>>

\* A discovery times out, and keeps its socket, or loses it.
DiscoveryFails ==
    /\ probe # None /\ probe' = None
    /\ path' \in {None, probe}
    /\ Fault
    /\ IF DiscoveryIsCurrent THEN Fail(inbox) ELSE UNCHANGED connection
    /\ UNCHANGED <<disposal, dials, canResume, unacked, owed, secrets, server,
                   asked, writes>>

\* Mutant: a lost media path leaves the session resumable.
ResumableAfterUdp == canResume

\* revokeResume of _onUdpSocketFailure.
AfterUdp == FALSE

\* _onUdpSocketFailure: the media path is gone, and no resume brings it back.
\* close() may still be on its way to cancel the subscription.
UdpFails ==
    /\ path # None /\ path' = None
    /\ Fault
    /\ IF socket = "none"
       THEN UNCHANGED <<canResume, connection>>
       ELSE /\ canResume' = AfterUdp
            /\ ScheduleReconnect(inbox, AfterUdp)
    /\ UNCHANGED <<disposal, dials, unacked, probe, owed, secrets, server,
                   history, writes>>

\* _decryptOrDrop: the first packet decrypts, or so many do not, and none
\* ever did, that the key is blamed and the session is not to be resumed.  It
\* asks for nothing but an open event stream: packets arrive, also at a client
\* that failed or is closing, until the UDP socket is closed.
MediaDecrypts ==
    /\ path # None /\ cipher = path /\ ~proven /\ proven' = TRUE
    /\ UNCHANGED <<connection, disposal, dials, canResume, unacked, path, probe,
                   owed, gaveUp, server, history, bounds>>

DecryptGivesUp ==
    /\ path # None /\ ~proven /\ ~gaveUp
    /\ Fault /\ gaveUp' = TRUE
    /\ canResume' = FALSE /\ status' = Emitted("reconnecting")
    /\ UNCHANGED <<failed, attempts, dialing, listening, reconnectDue, heart,
                   probing, wire, media, disposal, dials, unacked, path, probe,
                   owed, proven, server, history, writes>>

-----------------------------------------------------------------------------
(* Frames of the socket that is listened to.                               *)

Takes(op) == listening /\ inbox # <<>> /\ Head(inbox).op = op

AcceptHello ==
    /\ Takes("hello")
    /\ unacked' = 0 /\ heart' = TRUE /\ inbox' = Tail(inbox)
    /\ UNCHANGED <<failed, attempts, status, dialing, listening, reconnectDue,
                   probing, socket, outbox, media, disposal, dials, canResume,
                   path, probe, owed, secrets, server, history, bounds>>

\* The answer to a heartbeat, taken once everything before it has been.
AcceptAck ==
    /\ listening /\ socket = "open" /\ inbox = <<>> /\ owed
    /\ unacked' = 0 /\ owed' = FALSE
    /\ UNCHANGED <<connection, disposal, dials, canResume, path, probe,
                   secrets, server, history, bounds>>

\* READY: a discovery starts, in place of the UDP socket there was.
AcceptReady ==
    /\ Takes("ready")
    /\ inbox' = Tail(inbox)
    /\ discovered' = None /\ status' = "discovering"
    /\ probe' = Head(inbox).session /\ probing' = TRUE /\ path' = None
    /\ UNCHANGED <<failed, attempts, dialing, listening, reconnectDue, heart,
                   socket, outbox, session, cipher, disposal, dials,
                   canResume, unacked, owed, secrets, server, history, bounds>>

\* The session description: the media plane is built from it.  The key package
\* of DAVE is written to the socket itself, outside any try: a write that
\* throws leaves the rest of _activateTransport undone.
AcceptDescription ==
    /\ Takes("description")
    /\ IF discovered = None
       THEN /\ Fail(Tail(inbox))
            /\ UNCHANGED canResume
       ELSE /\ canResume' = TRUE
            /\ session' = Head(inbox).session /\ cipher' = session'
            /\ \/ status' = "ready" /\ attempts' = 0
               \/ socket = "ended" /\ UNCHANGED <<status, attempts>>
            /\ inbox' = Tail(inbox)
            /\ UNCHANGED <<failed, dialing, listening, reconnectDue, heart,
                           probing, socket, outbox, discovered>>
    /\ UNCHANGED <<disposal, dials, unacked, path, probe, owed, secrets,
                   server, asked, bounds>>

\* RESUMED: the session there was goes on.
AcceptResumed ==
    /\ Takes("resumed")
    /\ canResume' = TRUE
    /\ status' = "ready" /\ attempts' = 0
    /\ inbox' = Tail(inbox)
    /\ UNCHANGED <<failed, dialing, listening, reconnectDue, heart, probing,
                   socket, outbox, media, disposal, dials, unacked, path,
                   probe, owed, secrets, server, history, bounds>>

\* A DAVE frame.  Its JSON answer is written with _send; its binary answer is
\* written to the socket itself, and a write that throws is taken for a
\* failure of DAVE.
AcceptDave ==
    /\ Takes("dave")
    /\ \/ Send(Tail(inbox), <<>>, canResume)
       \/ socket = "ended" /\ Fail(Tail(inbox))
    /\ UNCHANGED <<disposal, dials, canResume, unacked, path, probe, owed,
                   secrets, server, asked, bounds>>

\* A READY or a description that does not parse or asks for what this client
\* does not speak, or a transition DAVE refuses.
AcceptUnusable ==
    /\ listening /\ inbox # <<>>
    /\ Head(inbox).op \in {"ready", "description", "dave"}
    /\ Fault
    /\ Fail(Tail(inbox))
    /\ UNCHANGED <<disposal, dials, canResume, unacked, path, probe, owed,
                   secrets, server, asked, writes>>

\* AwaitCredentials of _apply: this socket is finished, and so are its timers.
AwaitCredentials ==
    /\ NewGeneration /\ DropMedia
    /\ heart' = FALSE
    /\ socket' = "none" /\ inbox' = <<>> /\ outbox' = <<>>
    /\ status' = "reconnecting" /\ asked' = TRUE
    /\ UNCHANGED <<failed, attempts, reconnectDue>>

\* closedWithCode.
AcceptDone ==
    /\ Takes("done")
    /\ LET cause == Head(inbox).cause IN
         \/ /\ cause = "lost"
            /\ ScheduleReconnect(Tail(inbox), canResume) /\ UNCHANGED history
         \/ /\ cause = "ended" /\ AwaitCredentials
         \/ cause = "refused" /\ Fail(Tail(inbox)) /\ UNCHANGED asked
    /\ UNCHANGED <<disposal, dials, canResume, unacked, path, probe, owed,
                   secrets, server, bounds>>

TakeFrame ==
    \/ AcceptHello \/ AcceptReady \/ AcceptDescription \/ AcceptResumed
    \/ AcceptDave \/ AcceptDone

-----------------------------------------------------------------------------
(* External: the voice server and the network.                             *)

Reads(op) == socket = "open" /\ outbox # <<>> /\ Head(outbox).op = op

ClosesWith(cause) ==
    /\ socket' = "ended" /\ outbox' = <<>>
    /\ inbox' = Append(inbox, Done(cause))

Answers(frame) ==
    /\ inbox' = Append(inbox, frame) /\ outbox' = Tail(outbox)
    /\ UNCHANGED socket

ServerIdentifies ==
    /\ Reads("identify")
    /\ IF token
       THEN /\ issued < MaxSessions
            /\ issued' = issued + 1 /\ bound' = issued' /\ alive' = TRUE
            /\ Answers(Ready(issued'))
       ELSE ClosesWith("ended") /\ UNCHANGED <<issued, bound, alive>>
    /\ UNCHANGED <<owner, media, disposal, dials, canResume, unacked, path,
                   probe, owed, secrets, token, history, bounds>>

\* A resume names no media session: the server goes on with its last one.
ServerResumes ==
    /\ Reads("resume")
    /\ IF token /\ alive
       THEN bound' = issued /\ Answers(Op("resumed"))
       ELSE ClosesWith("ended") /\ UNCHANGED bound
    /\ UNCHANGED <<owner, media, disposal, dials, canResume, unacked, path,
                   probe, owed, secrets, issued, alive, token, history, bounds>>

ServerSelects ==
    /\ Reads("select") /\ bound # None
    /\ Answers(Description(bound))
    /\ UNCHANGED <<owner, media, disposal, dials, canResume, unacked, path,
                   probe, owed, secrets, server, history, bounds>>

ServerReads == ServerIdentifies \/ ServerResumes \/ ServerSelects

\* A step of the encrypted group's protocol.
ServerSendsDave ==
    /\ socket = "open" /\ bound # None /\ inbox = <<>>
    /\ inbox' = <<Op("dave")>>
    /\ UNCHANGED <<owner, socket, outbox, media, disposal, dials, canResume,
                   unacked, path, probe, owed, secrets, server, history, bounds>>

\* The server closes the socket, or ends the session and its credentials.
ServerCloses ==
    /\ socket = "open" /\ Fault
    /\ \E cause \in Causes :
         /\ ClosesWith(cause)
         /\ alive' = (alive /\ cause = "lost")
         /\ token' = (token /\ cause # "ended")
    /\ UNCHANGED <<owner, media, disposal, dials, canResume, unacked, path,
                   probe, owed, secrets, bound, issued, history, writes>>

\* A session nobody came back to in time.
ServerForgets ==
    /\ alive /\ alive' = FALSE
    /\ socket # "open" /\ Fault
    /\ UNCHANGED <<connection, disposal, dials, canResume, unacked, path,
                   probe, owed, secrets, bound, issued, token, history, writes>>

\* The connection dies without a word: what was on its way is lost.
LinkBreaks ==
    /\ socket = "open" /\ Fault
    /\ socket' = "broken" /\ outbox' = <<>> /\ owed' = FALSE
    /\ \E k \in 0 .. Len(inbox) : inbox' = SubSeq(inbox, 1, k)
    /\ UNCHANGED <<owner, media, disposal, dials, canResume, unacked, path,
                   probe, secrets, server, history, writes>>

\* The platform may find out; the heartbeat does not rely on it.
BrokenLinkEnds ==
    /\ socket = "broken" /\ ClosesWith("lost")
    /\ UNCHANGED <<owner, media, disposal, dials, canResume, unacked, path,
                   probe, owed, secrets, server, history, bounds>>

-----------------------------------------------------------------------------

User == Connect \/ Write \/ CloseBegin \/ CloseEnd

Timers ==
    \/ ReconnectTimer \/ HeartbeatTimer \/ DialSucceeds \/ StrayArrives
    \/ DialFails

Media ==
    \/ DiscoveryFinds \/ DiscoveryFails \/ UdpFails \/ MediaDecrypts
    \/ DecryptGivesUp

External ==
    \/ ServerReads \/ ServerSendsDave \/ ServerCloses \/ ServerForgets
    \/ LinkBreaks \/ BrokenLinkEnds

Next == User \/ Timers \/ Media \/ TakeFrame \/ AcceptAck \/ AcceptUnusable \/ External

Spec == Init /\ [][Next]_vars

\* Timers fire, dials and discoveries end, frames are taken, and a server that
\* is there answers what it reads.  Faults and the user's writes run out.
\* Nothing is assumed of acknowledgements or of the platform noticing a dead
\* link: the heartbeat has to.
Fairness ==
    /\ WF_vars(ReconnectTimer) /\ WF_vars(HeartbeatTimer)
    /\ WF_vars(DialSucceeds) /\ WF_vars(StrayArrives)
    /\ WF_vars(DiscoveryFinds) /\ WF_vars(TakeFrame) /\ WF_vars(ServerReads)

FairSpec == Spec /\ Fairness

-----------------------------------------------------------------------------
(* Properties.                                                             *)

\* A connection that says ready, on a link that works, has everything media
\* needs, and all of it of the session the server has on that link: the
\* negotiated session, its key and its UDP path, after any mix of resumes,
\* redials, lost paths and late discoveries (_acceptResumed, _activateTransport,
\* the media kept by _scheduleReconnect).
ReadyHasTransport ==
    (status = "ready" /\ listening /\ socket = "open" /\ inbox = <<>>) =>
        session # None /\ cipher = session /\ path = session /\ bound = session

\* A RESUME is sent only for a session whose media can go on: its key is still
\* held and its UDP path is up (_onUdpSocketFailure, revokeResume).  A client
\* that is closing goes on with nothing.
ResumesLivePath ==
    (outbox # <<>> /\ Head(outbox).op = "resume" /\ ~asked /\ ~closing) =>
        session # None /\ cipher = session /\ path = session

\* A connection that failed or is closing has nothing left that could start
\* again, whatever dial, discovery or write was in flight.
TerminalIsQuiet ==
    (failed \/ closing) =>
        ~reconnectDue /\ ~heart /\ ~listening /\ ~dialing /\ ~probing

Brings(ops) == \E i \in 1 .. Len(inbox) : inbox[i].op \in ops

\* A connection that is meant to last is in somebody's hands: the reconnect
\* timer, a dial, an owner who makes a client of new credentials, or a socket
\* that is listened to.  That socket brings its end, or else a heartbeat watches
\* it, now or from HELLO on, and until the client is ready the next step of the
\* handshake is on its way.  Left out are a link that died without a word and a
\* client that blamed its key, which redials nothing (_decryptOrDrop).
NeverWaitsInVain ==
    (status # "idle" /\ ~failed /\ ~closing) =>
        \/ reconnectDue \/ dialing \/ (asked /\ socket = "none")
        \/ /\ listening
           /\ \/ socket = "broken"
              \/ socket = "ended" /\ Brings({"done"})
              \/ /\ socket = "open"
                 /\ heart \/ Brings({"hello"})
                 /\ \/ status = "ready" \/ gaveUp \/ probing \/ outbox # <<>>
                    \/ Brings({"ready", "description", "resumed"})

\* A link that died before HELLO: no heartbeat runs yet.
Unwatched == socket = "broken" /\ ~heart

\* Once faults stop, a connection settles: it is ready for good, or it said
\* that it failed, or it asked for new credentials (also by way of packets
\* that do not decrypt), or it was closed, or waits on a link that died
\* before HELLO.
Settles ==
    <>[](\/ status \in {"idle", "ready"} \/ failed \/ closing \/ asked \/ gaveUp
         \/ Unwatched)

-----------------------------------------------------------------------------
(* What the signaling service, which makes the client, can tell of it.      *)

Over == CASE disposal = "done"     -> "closed"
          [] disposal = "awaiting" -> "closing"
          [] disposal = "none"     -> IF failed THEN "failed" ELSE "no"

Client == INSTANCE VoiceClient WITH told <- status, over <- Over

\* However sockets, dials, timers and the media path interleave, the statuses
\* on the stream come as VoiceClient has them: no stage is skipped, only a lost
\* connection is resumed, and a client that failed or was closed does not come
\* back, though packets may have it say that it is reconnecting (_emitStatus).
TellsItsStages == Client!Spec

=============================================================================
