--------------------------- MODULE DesktopGateway ---------------------------
(***************************************************************************)
(* The main gateway session of the desktop client: the socket owner        *)
(* DiscordDesktopGatewayClient, the protocol object it drives, the         *)
(* heartbeat watchdog and the per-socket step queue, against a network     *)
(* that drops connections and a server that can be resumed.                *)
(*                                                                         *)
(* One action is one turn of the event loop: a timer, a dial that ended,   *)
(* a frame taken from a socket's queue, or a call of the user.  The server *)
(* and the network (the "External" part) are modelled from how the client  *)
(* uses them: dispatches are numbered per session, a resume replays what   *)
(* comes after the number it names.                                        *)
(***************************************************************************)
EXTENDS Integers, Sequences, FiniteSets, Functions

CONSTANTS
    MaxSockets,   \* sockets that exist at once; drained ones are used again
    MaxSessions,  \* gateway sessions the server hands out
    MaxEvents,    \* dispatches of one session, READY and RESUMED included
    MaxQueue,     \* frames the server leaves waiting on one socket
    MaxFaults,    \* faults of network, server and decoder, and retries
    MaxConnects,  \* calls of connectAndReadWorkspace: the first and retries
    MaxToggles,   \* voice and subscription calls of the user
    Tolerance,    \* heartbeats that may stay unanswered
    Rooms,        \* voice intents: guild calls and private calls
    Channels      \* member-list subscriptions of one guild

ASSUME BoundsAssumption ==
    /\ MaxSockets \in Nat \ {0}
    /\ MaxSessions \in Nat \ {0}
    /\ MaxEvents \in Nat \ {0}
    /\ MaxQueue \in Nat \ {0}
    /\ MaxFaults \in Nat
    /\ MaxConnects \in Nat \ {0}
    /\ MaxToggles \in Nat

ASSUME ToleranceAssumption == Tolerance \in Nat \ {0}

ASSUME IntentsAssumption == Rooms \cap Channels = {}

Sockets  == 1 .. MaxSockets
Sessions == 1 .. MaxSessions
Intents  == Rooms \cup Channels

NoSocket   == 0
NoSession  == 0
NoSequence == -1

-----------------------------------------------------------------------------
(* Frames.  A dispatch carries its session only so that properties can     *)
(* name it: the client reads its number and, from READY, the session.      *)

Op(op) == [op |-> op]
Dispatch(session, n) == [op |-> "dispatch", session |-> session, n |-> n]
InvalidSession(resumable) == [op |-> "invalid", resumable |-> resumable]
Done(rejected) == [op |-> "done", rejected |-> rejected]

ServerFrames ==
    [op : {"hello", "heartbeat", "reconnect"}]
    \cup [op : {"dispatch"}, session : Sessions, n : 1 .. MaxEvents]
    \cup [op : {"invalid"}, resumable : BOOLEAN]
    \cup [op : {"done"}, rejected : BOOLEAN]

Resume(session, n) == [op |-> "resume", session |-> session, n |-> n]
Intent(on, off) == [op |-> "intent", on |-> on, off |-> off]

ClientFrames ==
    [op : {"identify"}]
    \cup [op : {"resume"}, session : Sessions, n : 0 .. MaxEvents]
    \cup [op : {"intent"}, on : SUBSET Intents, off : SUBSET Intents]

DispatchNames == {"READY", "RESUMED", "EVENT"}
Hearts == {"off", "initial", "periodic"}
Transports == {"unused", "open", "broken", "ended"}
Statuses == {"offline", "connecting", "connected", "reconnecting"}
ProtocolStates ==
    {"closed", "identifying", "resuming", "established", "reconnectPending"}

-----------------------------------------------------------------------------

VARIABLES
    \* The socket owner.
    closing,       \* _closing
    disposal,      \* how far close() is: "none", "awaiting" its socket, "done"
    dialing,       \* _dialing
    overtaken,     \* a dial ended in a client that is closing, and waits for
                   \* its socket to close
    socket,        \* _socket
    reconnectDue,  \* _reconnectTimer is active
    heart,         \* which heartbeat timer is active: off, initial, periodic
    status,        \* the last status its event stream carried
    \* The protocol.
    state, sequence, sessionId, unacked,
    snapshot,      \* the bootstrap holds a READY
    \* What the user wants: voice states and member-list subscriptions.
    desired,
    \* Sockets: transport, frames to the client, whether a worker decodes the
    \* head of that queue, frames to the server, a heartbeat not yet answered.
    wire, toClient, held, toServer, owed,
    \* External: the server.
    bound,         \* the session a socket carries
    log,           \* the dispatches of a session
    alive,         \* sessions that can be resumed
    known,         \* the intents a session was told
    credential,    \* whether the authorization is still good
    \* History, for properties only.
    delivered,     \* numbers of the dispatches handed on, per session
    misread,       \* numbers of dispatches whose frame would not decode
    forgone,       \* numbers of dispatches lost while a reconnect was due
    swallowed,     \* the last connect() met a dial that waits, and did nothing
    faults, connects, toggles

driver   == <<closing, disposal, dialing, overtaken, socket, reconnectDue,
              heart, status>>
protocol == <<state, sequence, sessionId, unacked>>
links    == <<wire, toClient, held, toServer, owed>>
server   == <<bound, log, alive, known, credential>>
history  == <<delivered, misread, forgone>>
calls    == <<connects, toggles, swallowed>>
bounds   == <<faults, calls>>

vars == <<driver, protocol, snapshot, desired, links, server, history, bounds>>

-----------------------------------------------------------------------------

\* Type invariant.
TypeOK ==
    /\ closing \in BOOLEAN
    /\ disposal \in {"none", "awaiting", "done"}
    /\ dialing \in BOOLEAN
    /\ overtaken \in BOOLEAN
    /\ socket \in Sockets \cup {NoSocket}
    /\ reconnectDue \in BOOLEAN
    /\ heart \in Hearts
    /\ status \in Statuses
    /\ state \in ProtocolStates
    /\ sequence \in 0 .. MaxEvents \cup {NoSequence}
    /\ sessionId \in Sessions \cup {NoSession}
    /\ unacked \in 0 .. Tolerance
    /\ snapshot \in BOOLEAN
    /\ desired \in SUBSET Intents
    /\ wire \in [Sockets -> Transports]
    /\ toClient \in [Sockets -> Seq(ServerFrames)]
    /\ held \in [Sockets -> BOOLEAN]
    /\ toServer \in [Sockets -> Seq(ClientFrames)]
    /\ owed \in [Sockets -> BOOLEAN]
    /\ bound \in [Sockets -> Sessions \cup {NoSession}]
    /\ log \in [Sessions -> Seq(DispatchNames)]
    /\ alive \in SUBSET Sessions
    /\ known \in [Sessions -> SUBSET Intents]
    /\ credential \in BOOLEAN
    /\ delivered \in [Sessions -> Seq(1 .. MaxEvents)]
    /\ misread \in [Sessions -> SUBSET (1 .. MaxEvents)]
    /\ forgone \in [Sessions -> SUBSET (1 .. MaxEvents)]
    /\ swallowed \in BOOLEAN
    /\ faults \in 0 .. MaxFaults
    /\ connects \in 0 .. MaxConnects
    /\ toggles \in 0 .. MaxToggles

Init ==
    /\ closing = FALSE /\ disposal = "none"
    /\ dialing = FALSE /\ overtaken = FALSE
    /\ socket = NoSocket /\ reconnectDue = FALSE /\ heart = "off"
    /\ status = "offline"
    /\ state = "closed" /\ sequence = NoSequence
    /\ sessionId = NoSession /\ unacked = 0
    /\ snapshot = FALSE
    /\ desired = {}
    /\ wire = [s \in Sockets |-> "unused"]
    /\ toClient = [s \in Sockets |-> <<>>]
    /\ held = [s \in Sockets |-> FALSE]
    /\ toServer = [s \in Sockets |-> <<>>]
    /\ owed = [s \in Sockets |-> FALSE]
    /\ bound = [s \in Sockets |-> NoSession]
    /\ log = [n \in Sessions |-> <<>>]
    /\ alive = {} /\ known = [n \in Sessions |-> {}] /\ credential = TRUE
    /\ delivered = [n \in Sessions |-> <<>>]
    /\ misread = [n \in Sessions |-> {}]
    /\ forgone = [n \in Sessions |-> {}]
    /\ swallowed = FALSE
    /\ faults = 0 /\ connects = 0 /\ toggles = 0

-----------------------------------------------------------------------------
(* Helpers of the socket owner.  They set the variables of the driver that *)
(* a handler may touch, once, from the queues q the handler leaves behind. *)

\* _emitStatus: nothing goes out on a closed event stream.
Emitted(st) == IF disposal = "done" THEN status ELSE st

CanResume == sessionId # NoSession /\ sequence # NoSequence

\* Mutant: the steps of a replaced socket are still taken.
AnySocketIsCurrent(s) == TRUE

\* isCurrent() of _listenTo.
IsCurrent(s) == s = socket

HasExceededTolerance == unacked >= Tolerance

\* What a close of the current socket does to the links: it stops being open,
\* and its done event follows whatever it had already received.
HungUpWire == [s \in Sockets |-> IF s = socket THEN "ended" ELSE wire[s]]
HungUpQueue(q) ==
    [s \in Sockets |-> IF s = socket /\ wire[s] # "ended"
                       THEN Append(q[s], Done(FALSE)) ELSE q[s]]

\* Mutants: a closing client reconnects; a dial under way counts as a reconnect.
IgnoredWhileDue == reconnectDue
IgnoredWhileDialing == closing \/ reconnectDue \/ dialing

\* A reconnect asked for while one is due, or while closing, changes nothing.
ReconnectIgnored == closing \/ reconnectDue

\* _scheduleReconnect, called by a handler that has emitted st and that leaves
\* the heartbeat timer `kept` if the call is ignored and `left` if it is not.
ScheduleReconnect(q, st, kept, left) ==
    IF ReconnectIgnored
    THEN /\ status' = Emitted(st) /\ heart' = kept /\ toClient' = q
         /\ UNCHANGED <<socket, reconnectDue, wire>>
    ELSE /\ status' = Emitted("reconnecting") /\ heart' = left
         /\ reconnectDue' = TRUE /\ socket' = NoSocket
         /\ wire' = HungUpWire /\ toClient' = HungUpQueue(q)

IsOpen == socket # NoSocket /\ wire[socket] \in {"open", "broken"}

\* _send of every frame of a handler.  On a broken connection a write either
\* vanishes or throws, and the throw is answered with a reconnect.
Send(q, frames, st, kept, left) ==
    \/ /\ status' = Emitted(st) /\ heart' = kept /\ toClient' = q
       /\ toServer' = [s \in Sockets |->
                         IF s = socket /\ wire[s] = "open"
                         THEN toServer[s] \o frames ELSE toServer[s]]
       /\ UNCHANGED <<socket, reconnectDue, wire>>
    \/ /\ IsOpen /\ wire[socket] = "broken"
       /\ ScheduleReconnect(q, st, kept, left)
       /\ UNCHANGED toServer

NothingSent(q) ==
    /\ toClient' = q
    /\ UNCHANGED <<status, heart, socket, reconnectDue, wire, toServer>>

\* _open up to the dial, when _closing is `closed`.
Open(closed) ==
    IF closed \/ dialing
    THEN UNCHANGED <<dialing, status>>
    ELSE /\ dialing' = TRUE
         /\ status' = Emitted(IF CanResume THEN "reconnecting" ELSE "connecting")

\* identify() and resume(): the frame, and what building it does to the session.
Identify == state' = "identifying" /\ sequence' = 0 /\ sessionId' = NoSession
Resuming == state' = "resuming" /\ UNCHANGED <<sequence, sessionId>>

\* Mutant: the resume names the dispatch it expects, not the last it has.
ResumeFromNext == Resume(sessionId, sequence + 1)

ResumeFrame == Resume(sessionId, sequence)

OpeningFrame == IF CanResume THEN ResumeFrame ELSE Op("identify")
Opening == IF CanResume THEN Resuming ELSE Identify

-----------------------------------------------------------------------------
(* Calls of the user.                                                      *)

\* connectAndReadWorkspace: the first load, or the retry of one that failed,
\* here by timing out or in a later stage, whatever the session did meanwhile.
\* The call comes after an HTTP answer, so the client may have been closed
\* since the user asked for it.  What the caller does with the snapshot, and
\* how long it waits for one, is not modelled.  A retry counts as a fault.
\* While the socket of an overtaken dial closes the call ends at _dialing: the
\* client is not closing any more, and nothing dials.
Connect ==
    /\ connects < MaxConnects /\ connects' = connects + 1
    /\ IF connects = 0 THEN UNCHANGED faults
       ELSE faults < MaxFaults /\ faults' = faults + 1
    /\ snapshot' = FALSE
    /\ closing' = FALSE
    /\ Open(FALSE)
    /\ swallowed' = overtaken
    /\ UNCHANGED <<disposal, overtaken, socket, reconnectDue, heart, protocol,
                   desired, links, server, history, toggles>>

\* A voice state or a member-list subscription is wanted, or no longer is.
\* A subscription frame replaces what the guild had; a subscription that does
\* not change is not sent at all.
IntentFrame(i, want) ==
    IF i \in Rooms
    THEN Intent(IF want THEN {i} ELSE {}, IF want THEN {} ELSE {i})
    ELSE LET now == IF want THEN desired \cup {i} ELSE desired \ {i}
         IN  Intent(now \cap Channels, Channels \ now)

SetIntent(i, want) ==
    /\ disposal # "done"
    /\ toggles < MaxToggles /\ toggles' = toggles + 1
    /\ i \in Channels => (i \in desired) # want
    /\ socket # NoSocket => Len(toServer[socket]) < MaxQueue
    /\ desired' = IF want THEN desired \cup {i} ELSE desired \ {i}
    /\ Send(toClient, <<IntentFrame(i, want)>>, status, heart, "off")
    /\ UNCHANGED <<closing, disposal, dialing, overtaken, protocol, snapshot,
                   held, owed, server, history, faults, connects, swallowed>>

\* close() up to the wait for the socket, and after it.
CloseBegin ==
    /\ disposal = "none" /\ disposal' = "awaiting"
    /\ closing' = TRUE /\ reconnectDue' = FALSE /\ heart' = "off"
    /\ socket' = NoSocket
    /\ wire' = HungUpWire /\ toClient' = HungUpQueue(toClient)
    /\ UNCHANGED <<dialing, overtaken, status, protocol, snapshot, desired,
                   held, toServer, owed, server, history, bounds>>

CloseEnd ==
    /\ disposal = "awaiting" /\ disposal' = "done"
    /\ desired' = {} /\ status' = "offline"
    /\ UNCHANGED <<closing, dialing, overtaken, socket, reconnectDue, heart,
                   protocol, snapshot, links, server, history, bounds>>

-----------------------------------------------------------------------------
(* Timers and dials.                                                       *)

ReconnectTimer ==
    /\ reconnectDue /\ reconnectDue' = FALSE
    /\ Open(closing)
    /\ UNCHANGED <<closing, disposal, overtaken, socket, heart, protocol,
                   snapshot, desired, links, server, history, bounds>>

\* _heartbeat, from the initial timer or the periodic one.  The initial timer
\* starts the periodic one after it, whatever the heartbeat led to.  A healthy
\* server answers in time: one that does not is a fault.
HeartbeatTimer ==
    /\ heart # "off"
    /\ LET kept == "periodic"
           left == IF heart = "initial" THEN "periodic" ELSE "off"
       IN IF HasExceededTolerance
          THEN /\ IF socket # NoSocket /\ wire[socket] = "open"
                  THEN faults < MaxFaults /\ faults' = faults + 1
                  ELSE UNCHANGED faults
               /\ state' = "reconnectPending"
               /\ ScheduleReconnect(toClient, status, kept, left)
               /\ UNCHANGED <<unacked, toServer, owed>>
          ELSE /\ unacked' = unacked + 1
               /\ owed' = [s \in Sockets |->
                             owed[s] \/ (s = socket /\ wire[s] = "open")]
               /\ Send(toClient, <<>>, status, kept, left)
               /\ UNCHANGED <<state, faults>>
    /\ UNCHANGED <<closing, disposal, dialing, overtaken, sequence,
                   sessionId, snapshot, desired, held, server, history, calls>>

\* A socket nobody holds any more, whose end has been handled.
Free(s) == \/ wire[s] = "unused"
           \/ wire[s] = "ended" /\ toClient[s] = <<>> /\ s # socket

\* The dial ends with a socket; _listenTo makes it the current one.  While
\* closing it is closed instead, and _open waits for that.
DialSucceeds ==
    /\ dialing /\ ~overtaken
    /\ IF closing
       THEN /\ overtaken' = TRUE
            /\ UNCHANGED <<dialing, socket, links, bound>>
       ELSE /\ dialing' = FALSE
            /\ \E s \in Sockets :
                 /\ Free(s) /\ \A t \in Sockets : Free(t) => s <= t
                 /\ socket' = s
                 /\ wire' = [wire EXCEPT ![s] = "open"]
                 /\ toClient' = [toClient EXCEPT ![s] = <<Op("hello")>>]
                 /\ held' = [held EXCEPT ![s] = FALSE]
                 /\ toServer' = [toServer EXCEPT ![s] = <<>>]
                 /\ owed' = [owed EXCEPT ![s] = FALSE]
                 /\ bound' = [bound EXCEPT ![s] = NoSession]
            /\ UNCHANGED overtaken
    /\ UNCHANGED <<closing, disposal, reconnectDue, heart, status, protocol,
                   snapshot, desired, log, alive, known, credential, history,
                   bounds>>

\* The socket of an overtaken dial has closed: whatever was asked for since,
\* the dial is over and leaves nothing.
OvertakenCloses ==
    /\ overtaken /\ overtaken' = FALSE
    /\ dialing' = FALSE
    /\ UNCHANGED <<closing, disposal, socket, reconnectDue, heart, status,
                   protocol, snapshot, desired, links, server, history,
                   bounds>>

DialFails ==
    /\ dialing /\ ~overtaken /\ dialing' = FALSE
    /\ faults < MaxFaults /\ faults' = faults + 1
    /\ ScheduleReconnect(toClient, status, heart, "off")
    /\ UNCHANGED <<closing, disposal, overtaken, protocol, snapshot, desired,
                   held, toServer, owed, server, history, calls>>

-----------------------------------------------------------------------------
(* Frames.  A socket's queue hands its steps on in the order they came, and *)
(* a large frame on its way through a worker holds every later one.         *)

Waiting(s) == toClient[s] # <<>>
Next1(s) == Head(toClient[s])
Popped(s) == [toClient EXCEPT ![s] = Tail(@)]
Unheld(s) == [held EXCEPT ![s] = FALSE]

\* A step of a socket that is not current, or that stopped being current while
\* the frame was decoded: nothing.
SkipStaleFrame(s) ==
    /\ Waiting(s) /\ ~IsCurrent(s)
    /\ toClient' = Popped(s) /\ held' = Unheld(s)
    /\ UNCHANGED <<driver, protocol, snapshot, desired, wire, toServer, owed,
                   server, history, bounds>>

\* A large frame goes to a worker isolate.
HoldLargeFrame(s) ==
    /\ Waiting(s) /\ IsCurrent(s) /\ ~held[s]
    /\ Next1(s).op = "dispatch"
    /\ held' = [held EXCEPT ![s] = TRUE]
    /\ UNCHANGED <<driver, protocol, snapshot, desired, wire, toClient,
                   toServer, owed, server, history, bounds>>

\* The next frame of the current socket, decoded here or by the worker.
Takes(s, op) ==
    /\ Waiting(s) /\ IsCurrent(s) /\ Next1(s).op = op
    /\ held' = Unheld(s)

\* HELLO: a fresh count, a fresh heartbeat, and the session is opened.
AcceptHello(s) ==
    /\ Takes(s, "hello")
    /\ unacked' = 0
    /\ Opening
    /\ Send(Popped(s), <<OpeningFrame>>, status, "initial", "off")
    /\ UNCHANGED <<closing, disposal, dialing, overtaken, snapshot, desired,
                   owed, server, history, bounds>>

\* The answer to the heartbeats of this socket.  It has no place in the queue:
\* it is taken as soon as everything received before it has been.
AcceptAck(s) ==
    /\ wire[s] = "open" /\ IsCurrent(s) /\ owed[s] /\ ~Waiting(s)
    /\ unacked' = 0
    /\ owed' = [owed EXCEPT ![s] = FALSE]
    /\ UNCHANGED <<driver, state, sequence, sessionId, snapshot, desired, wire,
                   toClient, held, toServer, server, history, bounds>>

\* The server asks for a heartbeat; the answer is not counted as one sent.
AcceptHeartbeatRequest(s) ==
    /\ Takes(s, "heartbeat")
    /\ Send(Popped(s), <<>>, status, heart, "off")
    /\ UNCHANGED <<closing, disposal, dialing, overtaken, protocol, snapshot,
                   desired, owed, server, history, bounds>>

AcceptReconnect(s) ==
    /\ Takes(s, "reconnect")
    /\ state' = "reconnectPending"
    /\ ScheduleReconnect(Popped(s), status, heart, "off")
    /\ UNCHANGED <<closing, disposal, dialing, overtaken, sequence,
                   sessionId, unacked, snapshot, desired, toServer, owed,
                   server, history, bounds>>

\* Mutant: a client with a session resumes it again whatever the server says.
ResumesRegardless(s) == Next1(s).resumable \/ CanResume

\* Resume again only where the server permits it and there is a session.
ResumesAgain(s) == Next1(s).resumable /\ CanResume

AcceptInvalidSession(s) ==
    /\ Takes(s, "invalid")
    /\ IF ResumesAgain(s)
       THEN /\ Resuming
            /\ Send(Popped(s), <<ResumeFrame>>, status, heart, "off")
       ELSE /\ Identify
            /\ Send(Popped(s), <<Op("identify")>>, status, heart, "off")
    /\ UNCHANGED <<closing, disposal, dialing, overtaken, unacked, snapshot,
                   desired, owed, server, history, bounds>>

\* Mutant: voice states are not told again.
ReplaySubscriptions == Intent(desired \cap Channels, Channels \ desired)

\* What READY tells the server again: subscriptions, then voice states.
ReplayFrame == Intent(desired, Channels \ desired)

\* A dispatch.  Its number is stored before anything is done with it.
AcceptDispatch(s) ==
    /\ Takes(s, "dispatch")
    /\ LET frame == Next1(s)
           name  == log[frame.session][frame.n]
       IN /\ sequence' = frame.n
          /\ delivered' = IF disposal = "done" THEN delivered
                          ELSE [delivered EXCEPT ![frame.session] = Append(@, frame.n)]
          /\ \/ /\ name = "READY"
                /\ sessionId' = frame.session /\ state' = "established"
                /\ snapshot' = TRUE
                /\ Send(Popped(s), <<ReplayFrame>>, "connected", heart, "off")
             \/ /\ name = "RESUMED"
                /\ state' = "established" /\ status' = Emitted("connected")
                /\ toClient' = Popped(s)
                /\ UNCHANGED <<sessionId, snapshot, heart, socket,
                               reconnectDue, wire, toServer>>
             \/ /\ name = "EVENT"
                /\ NothingSent(Popped(s))
                /\ UNCHANGED <<sessionId, state, snapshot>>
    /\ UNCHANGED <<closing, disposal, dialing, overtaken, unacked, desired,
                   owed, server, misread, forgone, bounds>>

\* _onFrameFailed for a decompression failure, or for a worker that failed:
\* the frame was not read, and the connection is given up, or would be if no
\* reconnect were due already.
LoseFrame(s) ==
    /\ Waiting(s) /\ IsCurrent(s) /\ Next1(s).op # "done"
    /\ faults < MaxFaults /\ faults' = faults + 1
    /\ held' = Unheld(s)
    /\ ScheduleReconnect(Popped(s), status, heart, "off")
    /\ forgone' = IF ReconnectIgnored /\ Next1(s).op = "dispatch"
                  THEN [forgone EXCEPT ![Next1(s).session] = @ \cup {Next1(s).n}]
                  ELSE forgone
    /\ UNCHANGED <<closing, disposal, dialing, overtaken, protocol, snapshot,
                   desired, toServer, owed, server, delivered, misread, calls>>

\* _onFrameFailed for a frame that does not decode, or not to the shape its
\* handler needs.  It is skipped: unread, counted but not handed on, or, a
\* READY, after it named its session and before anything was made of it.
MisreadFrame(s) ==
    /\ Waiting(s) /\ IsCurrent(s) /\ Next1(s).op # "done"
    /\ faults < MaxFaults /\ faults' = faults + 1
    /\ held' = Unheld(s)
    /\ IF Next1(s).op = "dispatch"
       THEN LET frame == Next1(s)
            IN /\ misread' = [misread EXCEPT ![frame.session] = @ \cup {frame.n}]
               /\ sequence' \in {sequence, frame.n}
               /\ \/ UNCHANGED <<state, sessionId>>
                  \/ /\ log[frame.session][frame.n] = "READY"
                     /\ sequence' = frame.n
                     /\ sessionId' = frame.session /\ state' = "established"
       ELSE UNCHANGED <<state, sequence, sessionId, misread>>
    /\ NothingSent(Popped(s))
    /\ UNCHANGED <<closing, disposal, dialing, overtaken, unacked, snapshot,
                   desired, owed, server, delivered, forgone, calls>>

\* _onDone, and _onSocketError, which does what a close without a code does.
\* A rejected credential is not dialled through.
AcceptDone(s) ==
    /\ Takes(s, "done")
    /\ IF Next1(s).rejected
       THEN /\ status' = Emitted("offline") /\ toClient' = Popped(s)
            /\ UNCHANGED <<heart, socket, reconnectDue, wire>>
       ELSE ScheduleReconnect(Popped(s), status, heart, "off")
    /\ UNCHANGED <<closing, disposal, dialing, overtaken, protocol, snapshot,
                   desired, toServer, owed, server, history, bounds>>

TakeFrame(s) ==
    \/ SkipStaleFrame(s)
    \/ AcceptHello(s) \/ AcceptHeartbeatRequest(s)
    \/ AcceptReconnect(s) \/ AcceptInvalidSession(s)
    \/ AcceptDispatch(s) \/ AcceptDone(s)

-----------------------------------------------------------------------------
(* External: the server and the network.                                   *)

HasRoom(s) == Len(toClient[s]) < MaxQueue
Answered(s, frames) == [toClient EXCEPT ![s] = @ \o frames]
Read(s) == [toServer EXCEPT ![s] = Tail(@)]
Reads(s, op) == toServer[s] # <<>> /\ Head(toServer[s]).op = op

Fault == faults < MaxFaults /\ faults' = faults + 1

\* An identify opens a new session; a bad credential is closed with 4004.
ServerIdentifies(s) ==
    /\ wire[s] = "open" /\ Reads(s, "identify")
    /\ toServer' = Read(s)
    /\ IF credential
       THEN \E n \in Sessions :
              /\ log[n] = <<>> /\ \A m \in Sessions : log[m] = <<>> => n <= m
              /\ log' = [log EXCEPT ![n] = <<"READY">>]
              /\ bound' = [bound EXCEPT ![s] = n]
              /\ alive' = alive \cup {n}
              /\ toClient' = Answered(s, <<Dispatch(n, 1)>>)
              /\ UNCHANGED wire
       ELSE /\ toClient' = Answered(s, <<Done(TRUE)>>)
            /\ wire' = [wire EXCEPT ![s] = "ended"]
            /\ UNCHANGED <<log, bound, alive>>
    /\ UNCHANGED <<driver, protocol, snapshot, desired, held, owed, known,
                   credential, history, bounds>>

\* A resume replays what came after the number it names and ends with RESUMED.
\* A session whose replay buffer is full is not resumable any more.
ServerResumes(s) ==
    /\ wire[s] = "open" /\ Reads(s, "resume")
    /\ toServer' = Read(s)
    /\ LET n == Head(toServer[s]).session
           from == Head(toServer[s]).n
           resumed == Append(log[n], "RESUMED")
       IN \/ /\ ~credential
             /\ toClient' = Answered(s, <<Done(TRUE)>>)
             /\ wire' = [wire EXCEPT ![s] = "ended"]
             /\ UNCHANGED <<log, bound>>
          \/ /\ credential /\ n \in alive /\ Len(log[n]) < MaxEvents
             /\ log' = [log EXCEPT ![n] = resumed]
             /\ bound' = [t \in Sockets |->
                            IF t = s THEN n
                            ELSE IF bound[t] = n THEN NoSession ELSE bound[t]]
             /\ toClient' = Answered(s, [k \in 1 .. (Len(resumed) - from) |->
                                           Dispatch(n, from + k)])
             /\ UNCHANGED wire
          \/ /\ credential /\ ~(n \in alive /\ Len(log[n]) < MaxEvents)
             /\ toClient' = Answered(s, <<InvalidSession(FALSE)>>)
             /\ UNCHANGED <<log, bound, wire>>
    /\ UNCHANGED <<driver, protocol, snapshot, desired, held, owed, alive,
                   known, credential, history, bounds>>

\* What a session is told it keeps across resumes; nothing is taken from a
\* socket that has not opened one.  Frames written before a close arrive.
ServerReadsIntent(s) ==
    /\ wire[s] \in {"open", "ended"} /\ Reads(s, "intent")
    /\ toServer' = Read(s)
    /\ known' = [n \in Sessions |->
                   IF n = bound[s]
                   THEN (known[n] \ Head(toServer[s]).off) \cup Head(toServer[s]).on
                   ELSE known[n]]
    /\ UNCHANGED <<driver, protocol, snapshot, desired, wire, toClient, held,
                   owed, bound, log, alive, credential, history, bounds>>

ServerReads(s) ==
    ServerIdentifies(s) \/ ServerResumes(s) \/ ServerReadsIntent(s)

\* Something happens in a session, whether or not a socket carries it.
ServerDispatches(n) ==
    /\ n \in alive /\ Len(log[n]) < MaxEvents
    /\ log' = [log EXCEPT ![n] = Append(@, "EVENT")]
    /\ LET carriers == {s \in Sockets : wire[s] = "open" /\ bound[s] = n}
       IN /\ \A s \in carriers : HasRoom(s)
          /\ toClient' = [s \in Sockets |->
                            IF s \in carriers
                            THEN Append(toClient[s], Dispatch(n, Len(log[n]) + 1))
                            ELSE toClient[s]]
    /\ UNCHANGED <<driver, protocol, snapshot, desired, wire, held, toServer,
                   owed, bound, alive, known, credential, history, bounds>>

\* Opcode 1, 7 or 9 on a socket that carries a session.  After opcode 9 the
\* socket carries none, and the session is gone unless it may be resumed.
ServerAsks(s) ==
    /\ Fault /\ wire[s] = "open" /\ bound[s] # NoSession /\ HasRoom(s)
    /\ \E frame \in {Op("heartbeat"), Op("reconnect")}
                    \cup [op : {"invalid"}, resumable : BOOLEAN] :
         /\ toClient' = Answered(s, <<frame>>)
         /\ bound' = IF frame.op = "invalid"
                     THEN [bound EXCEPT ![s] = NoSession] ELSE bound
         /\ alive' = IF frame = InvalidSession(FALSE)
                     THEN alive \ {bound[s]} ELSE alive
    /\ UNCHANGED <<driver, protocol, snapshot, desired, wire, held, toServer,
                   owed, log, known, credential, history, calls>>

EndLink(s) ==
    /\ wire' = [wire EXCEPT ![s] = "ended"]
    /\ toClient' = Answered(s, <<Done(FALSE)>>)
    /\ toServer' = [toServer EXCEPT ![s] = <<>>]
    /\ UNCHANGED <<driver, protocol, snapshot, desired, held, owed, server,
                   history, calls>>

ServerCloses(s) == Fault /\ wire[s] = "open" /\ EndLink(s)

\* The server gives up on a socket that stopped talking to it: one the client
\* has let go of, or one that never opened a session.
ServerDropsIdle(s) ==
    /\ wire[s] = "open"
    /\ \/ s # socket
       \/ bound[s] = NoSession /\ toServer[s] = <<>> /\ toClient[s] = <<>>
    /\ EndLink(s) /\ UNCHANGED faults

\* The connection dies without a word: what was on its way is lost.
LinkBreaks(s) ==
    /\ Fault /\ wire[s] = "open"
    /\ wire' = [wire EXCEPT ![s] = "broken"]
    /\ \E k \in (IF held[s] THEN 1 ELSE 0) .. Len(toClient[s]) :
         toClient' = [toClient EXCEPT ![s] = SubSeq(@, 1, k)]
    /\ toServer' = [toServer EXCEPT ![s] = <<>>]
    /\ owed' = [owed EXCEPT ![s] = FALSE]
    /\ UNCHANGED <<driver, protocol, snapshot, desired, held, server, history,
                   calls>>

\* The platform may find out; the heartbeat does not rely on it.
BrokenLinkEnds(s) == wire[s] = "broken" /\ EndLink(s) /\ UNCHANGED faults

SessionExpires(n) ==
    /\ Fault /\ n \in alive /\ alive' = alive \ {n}
    /\ UNCHANGED <<driver, protocol, snapshot, desired, links, bound, log,
                   known, credential, history, calls>>

CredentialIsRevoked ==
    /\ Fault /\ credential /\ credential' = FALSE
    /\ UNCHANGED <<driver, protocol, snapshot, desired, links, bound, log,
                   alive, known, history, calls>>

-----------------------------------------------------------------------------

User ==
    \/ Connect \/ CloseBegin \/ CloseEnd
    \/ \E i \in Intents, want \in BOOLEAN : SetIntent(i, want)

Timers ==
    \/ ReconnectTimer \/ HeartbeatTimer
    \/ DialSucceeds \/ OvertakenCloses \/ DialFails

SocketStep(s) ==
    \/ TakeFrame(s) \/ AcceptAck(s) \/ HoldLargeFrame(s) \/ LoseFrame(s) \/ MisreadFrame(s)

External ==
    \/ \E s \in Sockets :
         \/ ServerReads(s) \/ ServerAsks(s) \/ ServerCloses(s)
         \/ ServerDropsIdle(s) \/ LinkBreaks(s) \/ BrokenLinkEnds(s)
    \/ \E n \in Sessions : ServerDispatches(n) \/ SessionExpires(n)
    \/ CredentialIsRevoked

Next == User \/ Timers \/ (\E s \in Sockets : SocketStep(s)) \/ External

Spec == Init /\ [][Next]_vars

\* Timers fire, dials end, received frames are taken, and a server that is
\* there reads what reaches it and drops sockets that say nothing.  Nothing is
\* assumed of acknowledgements, nor of the platform noticing a dead link: the
\* heartbeat has to.  Faults run out after MaxFaults.
Fairness ==
    /\ WF_vars(ReconnectTimer) /\ WF_vars(HeartbeatTimer) /\ WF_vars(DialSucceeds)
    /\ \A s \in Sockets :
         /\ WF_vars(TakeFrame(s))
         /\ WF_vars(ServerReads(s))
         /\ WF_vars(ServerDropsIdle(s))

FairSpec == Spec /\ Fairness

-----------------------------------------------------------------------------
(* Properties.                                                             *)

\* The numbers of the current session the client will not ask for again.
Counted == IF sessionId = NoSession \/ disposal = "done" THEN {} ELSE 1 .. sequence

\* While a session lasts, every dispatch up to the number the client would
\* resume from has been handed on, unless its own frame could not be read:
\* frames lost in decoding, held by a worker while the socket was replaced, or
\* sent while no socket was attached come back with the replay
\* (_onFrameFailed, _acceptDecoding, accept).  The exception is a frame lost
\* on a socket that stays because a reconnect is due already.
CountedIsDelivered ==
    \A n \in Counted :
        n \in Range(delivered[sessionId]) \cup misread[sessionId] \cup forgone[sessionId]

\* No dispatch of a session is handed on twice or out of order, across
\* resumes, replaced sockets and frames decoded by a worker.
DeliveredInOrder ==
    \A n \in Sessions : \A i, j \in DOMAIN delivered[n] :
        i < j => delivered[n][i] < delivered[n][j]

\* What GatewayFeed calls unread: frames that would not decode, or were given up
\* while a reconnect was due.
Feed == INSTANCE GatewayFeed WITH
    Numbers   <- 1 .. MaxEvents,
    published <- [n \in Sessions |-> Len(log[n])],
    handed    <- delivered,
    unread    <- [n \in Sessions |-> misread[n] \cup forgone[n]],
    over      <- disposal = "done"

\* Whatever happens to its sockets, the client keeps the feed GatewayFeed
\* describes: each dispatch handed on is the next of its session after those
\* handed on before it, everything earlier was handed on or could not be read,
\* and no dispatch of a session comes after one of a later session, across
\* resumes, replaced sockets, new sessions and frames decoded by a worker
\* (_listenTo, _acceptDecoding, accept, identify, resume).
KeepsFeed == Feed!Spec

\* A client that is closing holds no socket and no timer that could open one
\* again, whatever dial, callback or worker was in flight when close() ran.
QuietAfterClose ==
    closing => socket = NoSocket /\ ~reconnectDue /\ heart = "off"

\* The status stream never says connected while there is no socket at all.
ConnectedMeansAttached ==
    (status = "connected" /\ disposal = "none") => socket # NoSocket

\* After connect() the client is never left without a way back: it dials, or
\* waits to, or has a socket that is not over for it, or was rejected.  The
\* exception is exact: a connect() that came while close() and an overtaken
\* dial were waiting for their sockets leaves none, until the next one.
NeverStranded ==
    (connects > 0 /\ ~closing) =>
        \/ dialing /\ ~overtaken
        \/ swallowed
        \/ reconnectDue
        \/ socket # NoSocket /\ (wire[socket] # "ended" \/ Waiting(socket))
        \/ ~credential

\* Everything written has been read by the session the client believes in.
Settled ==
    /\ disposal = "none" /\ socket # NoSocket /\ sessionId # NoSession
    /\ wire[socket] = "open" /\ toServer[socket] = <<>>
    /\ bound[socket] = sessionId /\ state = "established"

\* A session that was never resumed, and whose READY could be read, knows
\* exactly what the user wants: READY makes up for every voice state and
\* subscription set while there was no session to tell
\* (DiscordDesktopVoiceFrames.replay, _subscribeReadyGuilds).
FreshSessionIsTold ==
    (/\ Settled /\ "RESUMED" \notin Range(log[sessionId])
     /\ misread[sessionId] = {})
        => known[sessionId] = desired

\* A READY or RESUMED that would not decode leaves the session opening for
\* ever, on a socket whose heartbeats are answered.
OpeningMisread == \E n \in Sessions : \E k \in misread[n] : log[n][k] # "EVENT"

\* Nothing watches a link that dies between the upgrade and HELLO: no
\* heartbeat runs yet, and only the platform can find out.
Unwatched == socket # NoSocket /\ wire[socket] = "broken" /\ heart = "off"

\* Once faults stop, a client somebody connected ends up connected and stays
\* so, whatever was lost on the way, unless it was closed or rejected, could
\* not read its READY, or waits on a link that died before HELLO.
Recovers ==
    <>[](\/ connects = 0 \/ disposal # "none" \/ ~credential
         \/ OpeningMisread \/ Unwatched \/ status = "connected")

=============================================================================
