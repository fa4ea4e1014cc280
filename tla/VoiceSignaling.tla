--------------------------- MODULE VoiceSignaling ---------------------------
(***************************************************************************)
(* What turns gateway dispatches into voice connections: the service       *)
(* DiscordVoiceSignalingService and its DiscordVoiceSessionAssembler, for   *)
(* one guild session, between the room (VoiceController), Discord and the  *)
(* voice clients it makes one after another.                               *)
(*                                                                         *)
(* The main gateway is taken as it works while it is up: requests and      *)
(* dispatches arrive once and in order.  Discord acts on a request when it *)
(* is sent, and what it answers arrives when it may: nobody can tell a     *)
(* request that travels from an answer that does.  The voice client is     *)
(* reduced to what it reports.  Discord gives out a token whenever it      *)
(* seats the account somewhere else; the newest one alone connects.        *)
(*                                                                         *)
(* A generation number is modelled by what it makes stale: of the starts   *)
(* in line, at most the last is current.  The first of them is closing the *)
(* client there was.                                                       *)
(***************************************************************************)
EXTENDS Integers, Sequences, SequencesExt

CONSTANTS
    Channels,     \* the voice channels of the guild
    NoChannel,
    MaxForced,    \* _maxForcedReissues
    Kinds,        \* the kinds of events that may happen, of those below
    MaxEvents     \* how many of them

ASSUME ChannelsAssumption == NoChannel \notin Channels

\* Joins, flag changes, retries and leaves of the user; moves by a moderator;
\* what Discord, a connection and a slow network do unasked; close().
AllKinds == {"press", "moderator", "server", "client", "network", "close"}

ASSUME BoundsAssumption ==
    /\ Kinds \subseteq AllKinds
    /\ MaxForced \in Nat \ {0}
    /\ MaxEvents \in Nat

NoToken == 0
Places == Channels \cup {NoChannel}

Credentials(channel, token) == [channel |-> channel, token |-> token]
NoCredentials == Credentials(NoChannel, NoToken)

\* Requests to Discord, and its dispatches.  Nothing in a voice state says
\* whether it answers a request.
Voice(channel) == [op |-> "voice", channel |-> channel]
Again(channel) == [op |-> "again", channel |-> channel]
Ping == [op |-> "ping"]
State(channel) == [op |-> "state", channel |-> channel]
Update(token) == [op |-> "update", token |-> token]

NoClient == [credentials |-> NoCredentials, conn |-> "none"]

VARIABLES
    \* The service.
    disposal,    \* how far close() is: "none", "cancelled", "closing", "done"
    desired,     \* _desiredChannels
    pinged,      \* _pingedSessions
    forced,      \* _forcedReissues
    reissueDue,  \* the timer in _reissueTimers
    moving,      \* _moves: "none", its timer "waiting" or, fired, "late"
    lastStatus,  \* _lastStatuses
    latest,      \* _latestCredentials
    readied,     \* _readyCredentials are _latestCredentials: those connected
    unanswered,  \* _unansweredRequests
    pairing,     \* what the assembler has of the next credentials
    starts,      \* _clientStarts: the starts in line, the first one running
    client,      \* _clients
    \* The room.
    shown,       \* the status it shows
    leaving,     \* its Leave waits for a client to close
    evicted,     \* "told" of a disconnect, its Leave behind what runs;
                 \* "crossed" by a join that already was
    discord,     \* external: the seat of the account, the token that connects,
                 \* the tokens given out, the dispatches on their way
    \* History, for properties only.
    lost,        \* the token of the seat was dropped, and nothing missed it
    ignored,     \* a retry passed for a change of flags
    events

recovery == <<pinged, forced, reissueDue, moving>>
pairs    == <<latest, readied, pairing>>
clients  == <<starts, client>>
room     == <<shown, leaving, evicted>>
trouble  == <<lost, ignored>>

vars == <<disposal, desired, recovery, lastStatus, pairs, unanswered, clients,
          room, discord, trouble, events>>

Statuses == {"none", "joining", "connecting", "ready", "reconnecting",
             "failure", "disconnected"}
Connections == {"none", "new", "accepted", "refused", "ready", "retrying",
                "asked", "failed"}

Dispatches == [op : {"state"}, channel : Places]
              \cup [op : {"update"}, token : Nat]

CredentialsSet == [channel : Places, token : Nat]

\* Type invariant.  Of the starts in line only the last can be current.
TypeOK ==
    /\ disposal \in {"none", "cancelled", "closing", "done"}
    /\ desired \in Places
    /\ {pinged, reissueDue, readied, leaving, lost, ignored} \subseteq BOOLEAN
    /\ evicted \in {"no", "told", "crossed"}
    /\ forced \in Nat
    /\ moving \in {"none", "waiting", "late"}
    /\ {lastStatus, shown} \subseteq Statuses
    /\ {latest, pairing} \subseteq CredentialsSet
    /\ unanswered \in Seq(Places)
    /\ starts \in Seq([credentials : CredentialsSet, current : BOOLEAN])
    /\ \A i \in DOMAIN starts : starts[i].current => i = Len(starts)
    /\ client \in [credentials : CredentialsSet, conn : Connections]
    /\ discord \in [seat : Places, live : Nat, issued : Nat,
                    sent : Seq(Dispatches)]
    /\ events \in 0 .. MaxEvents

Init ==
    /\ disposal = "none" /\ desired = NoChannel
    /\ pinged = FALSE /\ forced = 0 /\ reissueDue = FALSE /\ moving = "none"
    /\ lastStatus = "none"
    /\ latest = NoCredentials /\ readied = FALSE
    /\ pairing = NoCredentials /\ unanswered = <<>>
    /\ starts = <<>> /\ client = NoClient
    /\ shown = "disconnected" /\ leaving = FALSE /\ evicted = "no"
    /\ discord = [seat |-> NoChannel, live |-> NoToken, issued |-> 0,
                  sent |-> <<>>]
    /\ lost = FALSE /\ ignored = FALSE
    /\ events = 0

Happens(kind) == kind \in Kinds /\ events < MaxEvents /\ events' = events + 1

-----------------------------------------------------------------------------
(* External: Discord.  d is Discord, and what it may be next is a set.     *)

Sends(d, dispatch) == [d EXCEPT !.sent = Append(@, dispatch)]

\* The account is seated elsewhere: a voice state, and a token with it, in
\* either order.
Seats(d, c) ==
    IF c = NoChannel
    THEN {Sends([d EXCEPT !.seat = c, !.live = NoToken], State(c))}
    ELSE LET token == d.issued + 1
             there == [d EXCEPT !.seat = c, !.live = token, !.issued = token]
         IN  {Sends(Sends(there, State(c)), Update(token)),
              Sends(Sends(there, Update(token)), State(c))}

\* The token of a seat is issued again, or anew when it no longer connects.
Reissues(d) ==
    IF d.live # NoToken THEN Sends(d, Update(d.live))
    ELSE Sends([d EXCEPT !.live = d.issued + 1, !.issued = d.issued + 1],
               Update(d.issued + 1))

\* A ping is met with silence or with a token.  A request for the channel the
\* account sits in is met with silence when it changes no flag either, and may
\* be echoed when it does.
Acts(d, request) ==
    IF request.op = "ping"
    THEN {d} \cup (IF d.seat = NoChannel THEN {} ELSE {Reissues(d)})
    ELSE IF request.channel = d.seat
    THEN {d} \cup (IF request.op = "again" THEN {}
                   ELSE {Sends(d, State(d.seat))})
    ELSE Seats(d, request.channel)

\* Nothing reaches a service that is closed.
Reaching(ds) ==
    IF disposal = "none" THEN ds ELSE {[d EXCEPT !.sent = <<>>] : d \in ds}

\* Discord after one request, and after another right behind it.
Asked(d, request) == Reaching(Acts(d, request))
AskedBoth(d, first, second) ==
    Reaching(UNION {Acts(e, second) : e \in Acts(d, first)})

-----------------------------------------------------------------------------
(* Helpers of the service.                                                 *)

\* A new generation: the starts in line give way.
Stale(ss) == [i \in DOMAIN ss |-> [ss[i] EXCEPT !.current = FALSE]]

\* _queueVoiceClient, for the credentials in queue one after another.
Queued(ss, queue) ==
    IF queue = <<>> THEN ss
    ELSE Stale(ss) \o [i \in DOMAIN queue |-> [credentials |-> queue[i],
                                              current |-> i = Len(queue)]]

\* _sendVoiceState.
Announce(c) ==
    /\ discord' \in Asked(discord, Voice(c))
    /\ unanswered' = Append(unanswered, c)

LeaveAndRejoin(c) ==
    /\ discord' \in AskedBoth(discord, Voice(NoChannel), Voice(c))
    /\ unanswered' = unanswered \o <<NoChannel, c>>

\* The emissions of the service reach the room until close() is done.
Show(status) == shown' = IF disposal = "done" THEN shown ELSE status

\* _shownDuringMove.
Shown(status) ==
    IF status = "connecting" /\ moving # "none" THEN "reconnecting" ELSE status

\* The cap on forced reissues.
GivesUp == forced + 1 > MaxForced

\* _forceReissue, which leaves and rejoins.
ForceReissue ==
    /\ forced' = forced + 1
    /\ IF GivesUp
       THEN /\ pinged' = FALSE /\ reissueDue' = FALSE /\ Show("failure")
            /\ UNCHANGED <<discord, unanswered>>
       ELSE /\ LeaveAndRejoin(desired)
            /\ reissueDue' = TRUE /\ UNCHANGED <<pinged, shown>>

\* _recover: ping, remember the half of the pair that is known, announce the
\* channel again, and wait.
Recover ==
    /\ pinged' = TRUE /\ reissueDue' = TRUE
    /\ discord' \in AskedBoth(discord, Ping, Again(desired))
    /\ unanswered' = Append(unanswered, desired)
    /\ pairing' = Credentials(desired, NoToken)
    /\ starts' = Stale(starts)

\* _repeatsLiveCredentials.
RepeatsLive(credentials) ==
    readied /\ lastStatus = "ready" /\ latest.token = credentials.token

-----------------------------------------------------------------------------
(* The room: VoiceController, whose joins and leaves take turns.           *)

\* _isStuck.
IsStuck == lastStatus \in {"failure", "disconnected"}

\* joinVoiceChannel: a flag change or a retry when the channel is the same.
JoinSame(c) ==
    /\ desired = c
    /\ IF IsStuck
       THEN /\ pinged' = TRUE /\ forced' = 1 /\ reissueDue' = TRUE
            /\ LeaveAndRejoin(c)
       ELSE Announce(c) /\ UNCHANGED <<pinged, forced, reissueDue>>
    /\ \/ UNCHANGED <<shown, ignored>>
       \/ /\ shown = "failure" /\ shown' = "joining"
          /\ ignored' = (ignored \/ ~IsStuck)
    /\ UNCHANGED <<desired, moving, starts, pairing, lost>>

\* Discord has sent the newest token already, and a join into the channel it
\* has the account in brings no other.
Spent == Update(discord.issued) \notin ToSet(discord.sent)

JoinOther(c) ==
    /\ desired # c /\ desired' = c
    /\ starts' = Stale(starts)
    /\ forced' = 0 /\ moving' = "none" /\ pairing' = NoCredentials
    /\ shown' = "joining"
    /\ Announce(c)
    /\ lost' = (lost \/ (discord.seat = c /\ Spent))
    /\ UNCHANGED <<pinged, reissueDue, ignored>>

Join(c) ==
    /\ disposal = "none" /\ ~leaving /\ Happens("press")
    /\ evicted # "crossed"
    /\ evicted' = IF evicted = "told" THEN "crossed" ELSE evicted
    /\ JoinSame(c) \/ JoinOther(c)
    /\ UNCHANGED <<disposal, lastStatus, latest, readied, client, leaving>>

\* leaveVoiceChannel: everything the session kept is forgotten, and its client
\* begins to close.
LeaveBegins ==
    /\ disposal = "none" /\ ~leaving
    /\ IF evicted # "no" THEN UNCHANGED events
       ELSE desired # NoChannel /\ Happens("press")
    /\ desired' = NoChannel
    /\ starts' = Stale(starts)
    /\ pinged' = FALSE /\ forced' = 0 /\ reissueDue' = FALSE
    /\ moving' = "none" /\ lastStatus' = "none"
    /\ latest' = NoCredentials /\ readied' = FALSE
    /\ pairing' = NoCredentials
    /\ Announce(NoChannel)
    /\ client' = NoClient /\ leaving' = TRUE /\ evicted' = "no"
    /\ UNCHANGED <<disposal, shown, trouble>>

LeaveEnds ==
    /\ leaving /\ leaving' = FALSE
    /\ Show("disconnected")
    /\ UNCHANGED <<disposal, desired, recovery, lastStatus, pairs, unanswered,
                   clients, evicted, discord, trouble, events>>

-----------------------------------------------------------------------------
(* Dispatches.                                                             *)

Arrives(op) ==
    /\ disposal = "none"
    /\ discord.sent # <<>> /\ Head(discord.sent).op = op

Rest == [discord EXCEPT !.sent = Tail(@)]

\* The oldest request that c answers, if any.
Asking(c) == SelectInSeq(unanswered, LAMBDA request : request = c)

\* _answersOwnRequest.
Answers(c) == Asking(c) > 0

\* What is still unanswered after the answer c.
After(c) == SubSeq(unanswered, Asking(c) + 1, Len(unanswered))

\* Mutant: credentials that came before the move are not aimed again.
ReaimsNever(c) == FALSE

\* _reaimCredentials.
Reaims(c) == latest # NoCredentials /\ latest.channel # c /\ ~readied

\* The newest token came with a channel that is no longer wanted, or was
\* taken back before a client had it.
Loses(credentials) ==
    \/ /\ credentials.token # NoToken /\ credentials.token = discord.issued
       /\ credentials.channel \notin {desired', discord.seat}
    \/ Head(discord.sent) = Update(NoToken) /\ client = NoClient

\* What becomes of a complete pair: the rest of _onGatewayEvent.  aimed is what
\* a move has queued by then, and mv the move.  A start that finds no other in
\* line begins to close the client.
Accept(credentials, aimed, mv) ==
    LET wanted == credentials # NoCredentials /\ desired' = credentials.channel
        repeats == /\ wanted /\ mv # "none" /\ aimed = <<>>
                   /\ RepeatsLive(credentials)
        queue == aimed \o (IF wanted /\ ~repeats THEN <<credentials>>
                           ELSE <<>>)
    IN  /\ starts' = Queued(starts, queue)
        /\ latest' = IF queue = <<>> THEN latest ELSE Last(queue)
        /\ readied' = (readied /\ queue = <<>>)
        /\ client' = IF starts' = <<>> THEN client ELSE NoClient
        /\ moving' = IF repeats THEN "none" ELSE mv
        /\ lost' = (lost \/ Loses(credentials))

\* _acceptVoiceState.
PairsState(c) ==
    IF c = NoChannel THEN pairing' = NoCredentials
    ELSE pairing' = IF pairing.token = NoToken
                    THEN Credentials(c, NoToken) ELSE NoCredentials

\* The pair a voice state completes.
Completed(c) ==
    IF c = NoChannel \/ pairing.token = NoToken THEN NoCredentials
    ELSE Credentials(c, pairing.token)

\* Mutant: what was asked before a move still explains a voice state.
StillAsked == unanswered

\* An answer to an older request would be a move too.
AskedBeforeMove == <<>>

\* _followSelfState: no request explains the voice state, so a moderator does.
FollowMove(c) ==
    LET wasRecovering == pinged
        aimed == IF c # NoChannel /\ Reaims(c)
                 THEN <<Credentials(c, latest.token)>> ELSE <<>>
    IN  /\ desired' = c
        /\ reissueDue' = FALSE /\ forced' = 0 /\ pinged' = FALSE
        /\ evicted' = IF c = NoChannel /\ evicted = "no" THEN "told"
                      ELSE evicted
        /\ IF wasRecovering /\ c # NoChannel
           THEN /\ discord' \in Asked(Rest, Again(c))
                /\ unanswered' = Append(AskedBeforeMove, c)
           ELSE /\ discord' = Rest
                /\ unanswered' = AskedBeforeMove
        /\ Accept(Completed(c), aimed,
                  IF c = NoChannel THEN "none" ELSE "waiting")

KeepPlace(c) ==
    /\ unanswered' = IF Answers(c) THEN After(c) ELSE unanswered
    /\ discord' = Rest
    /\ UNCHANGED <<desired, reissueDue, forced, pinged, evicted>>
    /\ Accept(Completed(c), <<>>, moving)

\* A voice state of the account itself.
TakeState ==
    /\ Arrives("state")
    /\ LET c == Head(discord.sent).channel
       IN  /\ IF Answers(c) \/ desired = NoChannel \/ desired = c
              THEN KeepPlace(c) ELSE FollowMove(c)
           /\ PairsState(c)
    /\ UNCHANGED <<disposal, lastStatus, shown, leaving, ignored, events>>

\* _acceptServerUpdate; one without a token drops what was known.
TakeUpdate ==
    /\ Arrives("update")
    /\ LET t == Head(discord.sent).token
           complete == t # NoToken /\ pairing.channel # NoChannel
       IN  /\ pairing' = IF complete \/ t = NoToken THEN NoCredentials
                         ELSE Credentials(NoChannel, t)
           /\ discord' = Rest /\ UNCHANGED desired
           /\ Accept(IF complete THEN Credentials(pairing.channel, t)
                     ELSE NoCredentials, <<>>, moving)
    /\ UNCHANGED <<disposal, pinged, forced, reissueDue, lastStatus,
                   unanswered, room, ignored, events>>

-----------------------------------------------------------------------------
(* Starts and timers.                                                      *)

\* Mutant: a start does not wait for those before it.
IsAnyTurn(i) == TRUE

IsTurn(i) == i = 1

\* Mutant: a start goes on after close().
GivesWayOpen(start) ==
    ~start.current \/ desired # start.credentials.channel

GivesWay(start) ==
    disposal # "none" \/ ~start.current \/ desired # start.credentials.channel

\* _startVoiceClient: the client is closed.  Build the next one, unless the
\* start gives way.
StartEnds(i) ==
    /\ IsTurn(i)
    /\ starts' = RemoveAt(starts, i)
    /\ IF GivesWay(starts[i])
       THEN UNCHANGED <<reissueDue, client>>
       ELSE /\ reissueDue' = FALSE
            /\ client' = [credentials |-> starts[i].credentials,
                          conn |-> "new"]
    /\ UNCHANGED <<disposal, desired, pinged, forced, moving, lastStatus,
                   pairs, unanswered, room, discord, trouble, events>>

\* A client that cannot be built is a failure.
StartThrows(i) ==
    /\ IsTurn(i) /\ ~GivesWay(starts[i]) /\ Happens("client")
    /\ starts' = RemoveAt(starts, i)
    /\ reissueDue' = FALSE /\ Show("failure")
    /\ UNCHANGED <<disposal, desired, pinged, forced, moving, lastStatus,
                   pairs, unanswered, client, leaving, evicted, discord, trouble>>

\* A wait of two seconds is over.  That it ends before what Discord has sent
\* arrives is an event of its own.
Waited == IF discord.sent = <<>> THEN UNCHANGED events ELSE Happens("network")

\* The wait of _scheduleReissueFallback.
ReissueTimer ==
    /\ reissueDue /\ Waited
    /\ IF pinged /\ desired # NoChannel
       THEN ForceReissue
       ELSE reissueDue' = FALSE
            /\ UNCHANGED <<pinged, forced, discord, unanswered, shown>>
    /\ UNCHANGED <<disposal, desired, moving, lastStatus, pairs, clients,
                   leaving, evicted, trouble>>

\* _moveSettled.
MoveTimer ==
    /\ moving = "waiting" /\ moving' = "late" /\ Waited
    /\ IF lastStatus = "reconnecting" /\ ~pinged /\ desired # NoChannel
       THEN Recover
       ELSE UNCHANGED <<pinged, reissueDue, discord, unanswered, pairing,
                        starts>>
    /\ UNCHANGED <<disposal, desired, forced, lastStatus, latest, readied,
                   client, room, trouble>>

-----------------------------------------------------------------------------
(* External: what a voice client reports, and _onClientEvent.              *)

\* A close while a move waits for its credentials is part of the move.
HoldsForMove == moving = "waiting"

Reports(status, conn) ==
    /\ client' = [client EXCEPT !.conn = conn]
    /\ lastStatus' = status
    /\ IF /\ status = "reconnecting" /\ ~pinged
          /\ ~HoldsForMove /\ desired # NoChannel
       THEN Recover
       ELSE /\ pinged' = (pinged /\ status = "reconnecting")
            /\ UNCHANGED <<reissueDue, discord, unanswered, pairing, starts>>
    /\ Show(Shown(status))
    /\ IF status = "ready"
       THEN /\ forced' = 0 /\ readied' = TRUE
       ELSE UNCHANGED <<forced, readied>>
    /\ moving' = IF status \in {"ready", "failure"} THEN "none" ELSE moving
    /\ UNCHANGED <<disposal, desired, latest, leaving, evicted,
                   trouble>>

Connects == client.credentials = Credentials(discord.seat, discord.live)

\* The voice server judges the credentials when it is dialed.
Dialed == IF Connects THEN "accepted" ELSE "refused"

ClientDials ==
    /\ client.conn = "new" /\ Reports("connecting", Dialed)
    /\ UNCHANGED events

ClientReady ==
    /\ client.conn = "accepted" /\ Reports("ready", "ready")
    /\ UNCHANGED events

\* Its credentials are over: it waits for others.
ClientRefused ==
    /\ \/ client.conn = "refused"
       \/ client.conn \in {"accepted", "ready", "retrying"} /\ ~Connects
    /\ Reports("reconnecting", "asked")
    /\ UNCHANGED events

ClientDrops ==
    /\ client.conn \in {"accepted", "ready"} /\ Happens("client")
    /\ Reports("reconnecting", "retrying")

\* It resumes, or begins anew.
ClientRedials ==
    /\ client.conn = "retrying"
    /\ \E status \in {"reconnecting", "connecting"} : Reports(status, Dialed)
    /\ UNCHANGED events

ClientFails ==
    /\ client.conn \in {"accepted", "ready", "retrying"} /\ Happens("client")
    /\ Reports("failure", "failed")

\* Packets arrive that its key does not decrypt: it says so, also when it has
\* failed before, and does nothing about it itself.
ClientBlamesKey ==
    /\ client.conn \in {"accepted", "ready", "retrying", "failed"}
    /\ Happens("client")
    /\ Reports("reconnecting",
               IF client.conn = "ready" THEN "asked" ELSE client.conn)

\* A negotiation goes on after that.
ClientNegotiates ==
    /\ client.conn = "accepted" /\ lastStatus = "reconnecting"
    /\ Reports("connecting", "accepted")
    /\ UNCHANGED events

\* One that waits for other credentials loses its socket, or dials again
\* because a dial it had given up fails.
ClientStirs ==
    /\ client.conn = "asked" /\ Happens("client")
    /\ \E conn \in {"asked", "retrying"} : Reports("reconnecting", conn)

-----------------------------------------------------------------------------
(* External: what Discord does unasked.  Once the service is closed nothing *)
(* reaches it.                                                             *)

Unasked(kind, ds) ==
    /\ disposal = "none" /\ Happens(kind) /\ discord' \in ds
    /\ UNCHANGED <<disposal, desired, recovery, lastStatus, pairs, unanswered,
                   clients, room, trouble>>

\* A moderator moves the account, or disconnects it.
ModeratorMoves(c) ==
    /\ discord.seat \notin {NoChannel, c}
    /\ Unasked("moderator", Seats(discord, c))

\* The session ends though the account keeps its seat, announced by an update
\* without an endpoint or not at all.
ServerForgets ==
    /\ discord.live # NoToken
    /\ LET over == [discord EXCEPT !.live = NoToken]
       IN  Unasked("server", {over, Sends(over, Update(NoToken))})

\* An update is repeated.
ServerRepeats ==
    /\ discord.live # NoToken
    /\ Unasked("server", {Sends(discord, Update(discord.live))})

-----------------------------------------------------------------------------
(* close(): the dispatches stop, then the timers, then the client.         *)

CloseBegins ==
    /\ disposal = "none" /\ disposal' = "cancelled" /\ Happens("close")
    /\ discord' = [discord EXCEPT !.sent = <<>>]
    /\ UNCHANGED <<desired, recovery, lastStatus, pairs, unanswered, clients,
                   room, trouble>>

CloseSweeps ==
    /\ disposal = "cancelled" /\ disposal' = "closing"
    /\ reissueDue' = FALSE /\ moving' = "none" /\ client' = NoClient
    /\ UNCHANGED <<desired, pinged, forced, lastStatus, pairs, unanswered,
                   starts, room, discord, trouble, events>>

CloseEnds ==
    /\ disposal = "closing" /\ disposal' = "done"
    /\ pairing' = NoCredentials
    /\ UNCHANGED <<desired, recovery, lastStatus, latest, readied, unanswered,
                   clients, room, discord, trouble, events>>

-----------------------------------------------------------------------------

Room == (\E c \in Channels : Join(c)) \/ LeaveBegins \/ LeaveEnds

Starts ==
    \E i \in DOMAIN starts : StartEnds(i) \/ StartThrows(i)

Service ==
    \/ TakeState \/ TakeUpdate \/ ReissueTimer \/ MoveTimer \/ Starts
    \/ CloseBegins \/ CloseSweeps \/ CloseEnds

Client ==
    \/ ClientDials \/ ClientReady \/ ClientRefused \/ ClientDrops
    \/ ClientRedials \/ ClientFails \/ ClientBlamesKey \/ ClientNegotiates
    \/ ClientStirs

Server ==
    \/ ServerForgets \/ ServerRepeats
    \/ \E c \in Places : ModeratorMoves(c)

Next == Room \/ Service \/ Client \/ Server

Spec == Init /\ [][Next]_vars

\* Dispatches are taken, timers fire, clients close and dial, and the voice
\* server refuses what is over.  A room that was told to leaves.
Fairness ==
    /\ WF_vars(TakeState \/ TakeUpdate)
    /\ WF_vars(ReissueTimer) /\ WF_vars(MoveTimer)
    /\ WF_vars(\E i \in DOMAIN starts : StartEnds(i))
    /\ WF_vars(ClientDials \/ ClientReady \/ ClientRefused \/ ClientRedials)
    /\ WF_vars(evicted # "no" /\ LeaveBegins) /\ WF_vars(LeaveEnds)

FairSpec == Spec /\ Fairness

-----------------------------------------------------------------------------
(* Properties.                                                             *)

\* Two arrivals in one batch never overlap: no client is dialed while the one
\* before it is still closing, for a start or for a Leave (_queueVoiceClient).
ClosedFirst == (starts # <<>> \/ leaving) => client = NoClient

\* Once everything sent has arrived, the room is where Discord has the account,
\* however joins, recoveries and a moderator's moves crossed (_followSelfState).
Arrived == disposal = "none" /\ discord.sent = <<>>
SeatAgrees == (Arrived /\ evicted = "no") => desired = discord.seat

\* A service that closed its client starts no other and sets no timer, though
\* a start may still have been waiting for a client to close.
NothingAfterClose ==
    disposal \in {"closing", "done"} =>
        client = NoClient /\ ~reissueDue /\ moving # "waiting"

\* A client that asks for other credentials is heard while a channel is
\* wanted: a ping with its timer is out, or a move waits for its own, until
\* the client is replaced, the room shows that it failed, or the user joins
\* elsewhere.  The mark of a ping keeps every later report from recovering
\* anew, so a mark left without its timer would leave the client asking for
\* ever (_onClientEvent, _recover, _moveSettled, _forceReissue).
Heard == moving = "waiting" \/ (pinged /\ reissueDue)

AskedIsHeard ==
    [][client'.conn = "asked" /\ disposal' = "none" /\ desired' # NoChannel =>
          \/ Heard'
          \/ shown' = "failure" \/ desired' # desired
          \/ client.conn = "asked" /\ ~Heard]_vars

\* With everything sent taken, a wanted channel that no client serves and no
\* start will serve is an account that has its credentials no more: a ping is
\* out for others, the room shows that it failed, or one of the two things
\* happened that nothing notices.  However joins, moves and recoveries
\* crossed, no pair is dropped that the channel still needs (_acceptVoiceState,
\* _acceptServerUpdate, _reaimCredentials, _repeatsLiveCredentials).
WantedIsServed ==
    /\ Arrived /\ evicted = "no" /\ desired # NoChannel
    /\ client = NoClient /\ starts = <<>>
    => lost \/ ignored \/ shown = "failure" \/ (pinged /\ reissueDue)

\* Once faults stop, a wanted channel is connected or the room shows that it
\* failed, unless one of the two things happened that nothing notices.
Settles ==
    <>[](\/ disposal # "none" \/ desired = NoChannel
         \/ lost \/ ignored
         \/ client.conn = "ready" /\ Connects
         \/ shown = "failure")

=============================================================================
