# Flucord, verified

TLA+ models of Flucord, a Discord desktop client in Dart and Flutter with
native modules in C++: what its long-lived connections, queues and worker
threads may never do, what they must eventually do, and proofs of the facts
that do not depend on how large an instance is. Paths of Dart files are under
`src/lib/src/`, of C++ files under `src/windows/`.

A Dart program runs one turn of its event loop at a time. A turn is a timer
that fires, a frame taken from a socket, a future that completes, a call of the
user. Everything between two `await`s is atomic; everything across one is not.
Each Dart module has one action per turn, and its hard cases are the orders in
which turns come: a dial that ends after the client moved on, a frame of a
socket that was replaced, an answer to a question of an older session.

The native modules have threads. There an action is what one thread does
between two points where another can notice: a lock taken or let go, a flag set,
a call that blocks, a callback into the application. Their hard cases are a
close that crosses a callback, a thread that is late, an object two threads hold.
The bridge to the Social SDK is the exception: it runs on the window's thread
alone, and its hard cases are answers that come in an order of their own.

## The system

| Component | State it keeps | Operations | Talks to | What is hard |
|---|---|---|---|---|
| Main gateway session (`data/discord/discord_desktop_gateway_client.dart`, `..._protocol.dart`, `..._rules.dart`, `..._step_queue.dart`) | socket, dial flag, reconnect and heartbeat timers, session id, sequence, unanswered heartbeats, a queue of decoded steps per socket | connect and retry, close, frames of ten kinds, timers, worker-decoded frames | WebSocket, REST (first load), every projection of dispatches | stale callbacks, resume or identify, dead links, frames that fail alone |
| Gateway intents (`discord_desktop_voice_frames.dart`, `discord_guild_subscriptions.dart`) | wanted voice states, member-list and typing subscriptions | set, forget, replay after READY | gateway session | frames dropped without a socket |
| Voice connection (`discord_voice_gateway_client.dart`, `..._protocol.dart`, `voice_reconnect_backoff.dart`, `discord_voice_udp_transport.dart`) | generation, socket, timers, backoff, negotiated session, cipher, UDP path, resume flag | connect, close, frames, UDP discovery, media failures, writes | voice server over WebSocket and UDP, signaling, DAVE | which of session, key and path survive a redial |
| Voice signaling (`discord_voice_signaling_service.dart`, `..._session_assembler.dart`) | one client per session key, generations, a queue of starts, pending requests | join, move, leave, new credentials, reissue | gateway, voice connection | starts overtaken by moves, answers that never come |
| DAVE controller (`discord_voice_dave_controller.dart`) | MLS epoch, prepared transitions | prepare, execute, welcome, invalid commit | voice connection, native library | executing what was never prepared |
| RTP receive path (`discord_rtp_reorder_buffer.dart`, `discord_picture_loss_recovery.dart`, H.264) | a window of packets, gap timers | push, drain, report loss | voice connection | 16-bit wrap, late packets |
| Read state (`discord_read_state_ack_queue.dart`, `..._repository.dart`, `..._store.dart`) | debounced acts, bulk queue, rolling token, generation, chain of requests | acknowledge, mark unread, mark space read, bind session, close | REST, gateway dispatches | order at the server, retries across sessions |
| WinHTTP websocket (`discord_desktop_websocket.dart`, `discord_winhttp_websocket_bindings.dart`) | a worker isolate, its port, a native handle | connect, send, close | Windows | a handle two isolates use |
| Go Live and stream viewing (`application/go_live_controller.dart`, `discord_stream_rtc_service.dart`, `domain/video_capture_hub.dart`) | a stream session per stream, a lease on the capture | start, stop, watch, replace | gateway, voice connection, native capture | a stop that crosses a start |
| Voice room (`application/voice_controller.dart` and its pipeline) | mute, devices, speaking gate | toggles, device changes | signaling | audio data mostly |
| Local cache (`data/sqlite_write_queue.dart`, `data/sqlite_chat_cache.dart`) | pending writes | enqueue, flush, close | SQLite | writes coalesced out of order |
| REST client (`discord_rest_client.dart`, `discord_desktop_api_client.dart`) | buckets | request, retry | HTTP | 429 and its retry |
| Chat (`discord_desktop_chat_repository.dart`, `application/chat_controller.dart`) | channels, windows of messages | project dispatches, load history | gateway, REST, cache | rests on the order the gateway keeps |
| Connection and account (`application/connection_controller.dart`) | the account, the retry of the first load | sign in, switch, retry | gateway | a retry under a live session |
| Native video decoder (`flucord_video/flucord_video.cpp`) | a queue of at most 24 access units, the transform, the hold after a drop, the delivery gate | open, submit, decode, close with a deadline | Dart decode worker, video textures | a drop that breaks the picture, a close that gives up waiting |
| Native video encoder and window capture (same file, `window_capture.h`) | the source, the transform and its events, keyframe requests, the last error, the delivery gate | open, pause, ask for a keyframe, capture, fall back to software, close | capture hub, voice connection | an encoder that waits for a request, an end nobody hears of |
| Video textures (`flucord_video/video_surface.h`, `runner/video_texture_bridge.cpp`) | counted surfaces, the picture shown and the one before, registrations | create, draw, present, describe, dispose | decoder, Flutter's raster thread | four threads and one shared handle |
| Social SDK bridge (`runner/discord_social_sdk_*.cpp`) | pending call, grant, refresh flag, lobby, secret, call | authorize, restore, disconnect, invite, accept, call, chat | Social SDK, Dart | answers of an older session |
| Native audio (`flucord_audio/`) | a capture worker; held session volumes; a loopback and its line | capture, attenuate, restore, enhance, choose an output | voice room, Windows | bursts, outputs that go away |
| Native rich presence pipe, overlay, hot keys (`flucord_rpc/`, `flucord_overlay/`, `flucord_hotkeys/`) | a thread each | open, write, close | RPC server, interface | flags and locks shared with that thread |
| Rich presence RPC server, remote authentication, bot gateway, Zstandard decoder, user interface, Windows runner | | | | see "Not modelled" |

How they meet: the gateway session delivers dispatches in order to the chat,
read-state and voice projections; signaling turns two of them (voice state and
voice server) into a voice connection; the read-state repository turns acts of
the user into requests of the acknowledgement queue. The voice connection hands
received pictures to the native decoder, which draws on a surface the raster
thread shows, and sends what the native encoder captures.

## Modules

| Module | Models | Proofs |
|---|---|---|
| `DesktopGateway` (`MCDesktopGateway`) | the main gateway session and the intents it replays | `DesktopGatewayProofs` |
| `GatewayFeed` | abstract: what the gateway session promises whoever listens to it | |
| `VoiceGateway` (`MCVoiceGateway`) | the voice connection | `VoiceGatewayProofs` |
| `VoiceClient` | abstract: what a voice client tells the service that made it | |
| `VoiceSignaling` | the signaling service, the assembler of credentials, and the room's joins and leaves | `VoiceSignalingProofs` |
| `ReadStateAckQueue` (`MCReadStateAckQueue`) | the acknowledgement queue and the repository's calls of it | `ReadStateAckQueueProofs` |
| `CloseContract` | abstract: what a native worker handle promises its owner | |
| `VideoDecoder` | the native decoder, its queue and threads | `VideoDecoderProofs` |
| `VideoEncoder` | the native capture and encoder | `VideoEncoderProofs` |
| `VideoTextures` | the texture bridge, the surfaces, and who draws on and reads them | `VideoTexturesProofs` |
| `SocialSdk` | the Social SDK bridge | `BridgeProofs` |
| `NativeAudio` | sound capture, attenuation, the enhancer's echo reference | `BridgeProofs` |

The MC modules add only the state constraint `Alive`, which stops exploring
once a client has been closed and nothing of it is left.

### DesktopGateway

`driver` holds the fields of `DiscordDesktopGatewayClient` (`closing`,
`dialing`, `socket`, `reconnectDue` for an active `_reconnectTimer`, `heart` for
the initial or periodic heartbeat timer, `status` for what the event stream
said last); `protocol` those of `DiscordDesktopGatewayProtocol`. `disposal` says
how far `close()` is: it cancels, awaits its socket, then drops what is left.
Each socket has its transport, a queue of frames each way, whether a worker
isolate is decoding the head of the first (`held`), and a heartbeat not yet
answered (`owed`).

`Connect` is `connectAndReadWorkspace`, first or as a retry. `CloseBegin` and
`CloseEnd` are the halves of `close()`. `ReconnectTimer`, `HeartbeatTimer`,
`DialSucceeds` and `DialFails` are what timers and dials do. A dial that `close()`
overtook (`overtaken`) still counts as under way while the socket it got closes:
`OvertakenCloses` is the end of that wait, and a `Connect` in it does nothing
(`swallowed`). That wait is assumed to end without an error. `TakeFrame` and
`AcceptAck` are `_onMessage` for every opcode, `SkipStaleFrame` its early return
for a replaced socket, `HoldLargeFrame` the hand-over to a worker, `LoseFrame`
and `MisreadFrame` its two failures. `ScheduleReconnect`, with its early return
`ReconnectIgnored`, is inlined in the actions whose code calls it. The server
and the network are external: dispatches are numbered per session, a resume
replays what comes after the number it names or is refused, and links break
without a word.

`delivered`, `misread` and `forgone` are history: what was handed on, what would
not decode, and what was lost on a socket that stayed.

`GatewayFeed` is what all this comes to for a listener: the server numbers the
dispatches of one session after another, and the client hands each on once, in
order, passes over none it did not fail to read, and goes back to no earlier
session. `DesktopGateway` implements it (`KeepsFeed`): `published` is the length of
the server's log, `handed` the numbers in `delivered`, `unread` those in `misread`
or `forgone`, and `over` is a `close()` that has ended.

### VoiceGateway

`_generation` is modelled by what a new generation makes stale: `listening` (the
subscription), `dialing` (the dial) and `probing` (the UDP discovery) become
FALSE. Dials in flight are still counted, because an old one may succeed
(`StrayArrives`) or fail (`DialFails`). A media session is what one IDENTIFY
negotiates, and `session`, `cipher` and `path` carry its number: that they agree
is the point of the module. What was unread on a socket the client let go of is
gone; a write to a socket that is over may vanish or throw. Most writes are
caught and reconnect; that of the DAVE key package is not, and leaves
`AcceptDescription` half done. The owner calls `connect()` once per client, and
new credentials make a new client.

`VoiceClient` is what of this the owner can see, the statuses on the event stream.
A client begins once, gets ahead one stage at a time (dialing, discovering,
negotiating, ready), and only from a connection it said it lost straight to any of
them. It fails once; after that it may still report packets that do not decrypt,
since the UDP socket of a failed client stays open. So may one that is being
closed, whose UDP socket goes only after its WebSocket has, until it has said that it
is disconnected; but it gets ahead no more. (The service hears none of this: it
cancels its subscription before it closes a client,
`discord_voice_signaling_service.dart:769-773`.) `TellsItsStages` is that `VoiceGateway`
implements it, with the last status for `told` and what `_failed` and `close()`
leave (`Over`) for `over`. The contract knows of no socket, dial, timer or
generation; that a stage comes only behind the one before it is what all of them
together have to bring about.

### VoiceSignaling

One guild session of `DiscordVoiceSignalingService`, between the room, Discord
and the voice clients it makes one after another. A generation number is
modelled by what it makes stale: `starts` is the line `_clientStarts` makes of
the starts, each with its credentials, and at most the last is `current`. The
first in line is closing the client there was; `client` is the one that is not
being closed. `pairing` is `_pending` of the assembler. `readied` says whether
`_readyCredentials` are still the `_latestCredentials`, which is all the code
asks of them.

`Join` is the room's join, flag change or retry: `JoinSame` and `JoinOther` are
the branches of `_join`. `LeaveBegins` and `LeaveEnds` are the halves of
`_leave`. `TakeState` and `TakeUpdate` are `_onGatewayEvent` for the account's
own voice state and for a voice server update, each with everything behind it:
following a move (`FollowMove`), completing a pair, queueing a start
(`Accept`). `StartEnds` and `StartThrows` are `_startVoiceClient` after its
client is closed; `ReissueTimer` and `MoveTimer` the two waits of two seconds;
`Reports` is `_onClientEvent`. `CloseBegins`, `CloseSweeps` and `CloseEnds` are
`close()`.

Discord is external. It acts on a request when it is sent, and its dispatches
arrive in order, when they may. It gives out a token whenever it seats the
account somewhere else, and the newest token alone connects; it answers a ping
or an unchanged flag with silence or with a repeat. The voice client is what it
reports: it dials, is ready, drops, redials to resume or to begin anew, blames
a key that does not decrypt (also after it has failed), asks for new credentials,
stirs while it waits for them, fails. `VoiceGateway` is the same client in
detail.

`lost` and `ignored` are history: the token of the seat was dropped unused; a
retry was sent as a flag change. `Settles` names both as the cases the code does
not watch.

### ReadStateAckQueue

`operations` is what `_serialize` was given, oldest first; each waits for the
one `_inFlight` named when it was made. A request names acts of the user by
their number (`stamp`), so the model can tell an older act from a newer one at
the server (`applied`). `pending` stands for `_pending` and its timers together,
`pump` for where `_drainBulk` is. A debounce may end at any moment, so `flush()`
adds only the start of the pump. The user's identity is folded into
`generation`: a different user is a different generation. A request that ended
keeps only its kind, generation and end, which is all any property asks of it.

### CloseContract

The abstract specification the native worker handles share. An owner sees a
handle that is opened once and closed once; callbacks run only from the open to
the moment the close answers, also while it waits; the close always answers;
what the handle keeps (the object, its Media Foundation reference) goes once,
after the last callback. `VideoDecoder`, `VideoEncoder`, `VideoTextures` and
`NativeAudio` each define `Contract == INSTANCE CloseContract WITH` a mapping of
their own and check `ImplementsContract == Contract!FairSpec`. The mappings
differ where the code does: the audio close joins its worker, the video closes
give up after a deadline and leave the rest to a detached thread, and a texture
is freed by the engine.

### VideoDecoder

`submitted` and `first` are the queue, `at` is where the decode thread is,
`close` where the caller's close is, `gate` is `deliveries.closed`, `exited` the
thread's exit word, `cleanup` the detached thread. `Submit` is
`flucord_video_decoder_submit`, dropping the oldest access unit of a full queue.
`Take`, `SubmitToTransform`, `StreamChange`, `Output`, `DrainDone`, `Deliver` and
`CallbackReturns` are `DecoderLoop` with its drain; `CloseGate`, `Stop`,
`FinishDecoderClose` or `Deadline`, and `CleanUp` are the close. `holding` and
`mends_at` are the hold: after a drop the surface keeps its last whole picture
until the keyframe's own picture comes out. `cut` is history: what was accepted
after a unit the queue dropped and before a keyframe.

### VideoEncoder

`source` tells a display, a window and a camera apart. `at` is where the capture
thread is and `back` where a delivery returns to. A hardware encoder's event
queue is `events`, and `requested`, `busy` are the transform's own account of its
slots (external). `LoopTop`, `TakeFrame`, `ReopenDuplication`,
`AnnounceCaptureEnd` and `Announce` are the two loops; `EncodeNv12` to
`DrainEncoder` one frame through the encoder, by events or synchronously;
`RecoverEncoder` the one fall back to software; `Close` to `Free` the close with
its deadline and its last drain. `owed` is history: somebody asked for a keyframe
and no frame that is one was taken since.

### VideoTextures

Each texture has a `bridge` state (created, being detached, unregistered, freed),
a surface with its reference count and its three textures (`drawing`, `shown`,
`previous`), and at most one `decoder`. `Create`, `Dispose`, `Detach` and
`Destroy` run on the platform thread, `Draw`, `Present`, `PresentFails` and `Mark`
on a decode thread, `Describe`, `OpenHandle` and `LetGo` on the engine's raster
thread. The decode thread waits for nobody: it shows as many pictures as it likes
while the engine opens a handle, and `lag` counts them, up to two.

### SocialSdk

A chain is what one method call sets going: requests to the SDK one after
another, each answered once and in no particular order. An exchange that
succeeds is assumed to yield a complete grant: the bridge stores what came
(`discord_social_sdk_bridge.cpp:251`) and looks at it only later (`:157`,
`:294`). `pending` is `pending_auth_result_`, `grant`, `refreshing`, `starting`,
`activeLobby`, `secret` and `call` the fields of the bridges. There is an action
per method call that asks something and one per kind of answer. `waiting` is
history: the chains whose caller has no answer yet; `robbed` marks a pending
authentication whose grant a late expiry took away, the case `EveryCallAnswered`
names.

### NativeAudio

Three parts on one thread. The capture: `OpenCapture` and `CloseCapture` wait for
the worker (`CaptureLoop`, `Pump`, `CallbackReturns`). The attenuation:
`AttenuateOthers` and `RestoreOthers` over `held`, with `UserSets` for a slider
and `SessionStarts` for an application that begins to play. Any write of a level may
fail, which nobody notices. `own` and `missed`, the sessions a restore could not write
to, are history. The
enhancer: `OpenMicEnhancer`, `LoopBack`, `EnhanceFrame` with `FeedSpeakers`, and
what the machine does to its outputs (`Unplug`, `Plug`, `MoveDefault`).

## Runs

| Run | Shows |
|---|---|
| `gateway_session` | Across two sockets, faults in every order, retries and `close()`: every number counted was delivered; a closing client is quiet; a client that was asked to connect always has a way back, but for one call that is swallowed. |
| `gateway_intents` | A session opened fresh is told every voice state and subscription the user wants. |
| `gateway_recovery` | Over three sessions the client keeps `GatewayFeed`; after the last fault the client ends up connected for good. |
| `voice_session` | Ready means one session's key and path; a resume has a live path; a finished client is quiet; the connection settles; the statuses come as `VoiceClient` has them. |
| `signaling_session` | Starts never overlap, the room ends up where Discord has the account, nothing follows a close, no credentials are dropped that a wanted channel still needs, and it ends up connected or shown as failed. |
| `ack_queue` | Requests never overlap, none is lost, none crosses into another session, a channel's own requests arrive in order, the token is of this session, and the queue comes to rest. |
| `video_decoder` | Nothing built on a dropped access unit is shown, the decoder is freed after its thread, no drain runs for ever, and the handle keeps `CloseContract`. |
| `video_encoder` | The encoder never waits for a request nobody makes, a keyframe stays owed until it is made, a capture that ends says so, and the handle keeps `CloseContract`. |
| `video_textures` | The surface the engine asked lives while it opens a handle, and the texture behind it through one picture; a surface lives as long as it is used, a mark finds a registered texture and a finished picture, and a texture keeps `CloseContract`. |
| `social_sdk` | A bridge that says it is busy is waiting for something; every method call is answered. |
| `social_secret` | Violated: an invite accepted while a lobby is being created publishes the joined lobby's secret with the created one. |
| `native_audio` | Levels come back, but where the restore could not write; the speaker line has one output in it, the loopback follows the default, and the capture keeps `CloseContract`. |

The violated run checks a sentence of the repository's documentation against what
the code does; `PROJECT.json` quotes the sentence under "findings".

Defects met on the way that have no run of their own. In the gateway:

* Close code 4004 leaves the heartbeat timer running (`client.dart:590`), so the
  rejected credential is dialled again, although `discord_desktop_gateway_rules.dart:46-49`
  says it is not. (`client.dart` is `discord_desktop_gateway_client.dart`.)
* A voice state or subscription set while the socket is down is remembered and
  replayed after READY only (`client.dart:375`, `:559`): a session that resumes
  never hears of it.
* A retry of the first load resets the snapshot (`client.dart:107`) and may then
  resume: the client is connected and has none (`client.dart:271-273`).
* A `connect()` that comes while the socket of a dial that `close()` overtook is
  closing returns at once (`client.dart:133`, the dial counts until `:158`): it clears
  `_closing`, and nothing dials. `NeverStranded` names it (`swallowed`).
* A retry attaches a socket while the reconnect timer of a failed dial is still
  due, a worker failure on that socket is then ignored by `_scheduleReconnect`
  (`client.dart:651`), and the next dispatch counts past the lost frame.
  `CountedIsDelivered` names these frames (`forgone`) as its exception.

In voice and signaling:

* A dial that fails late is caught without a look at the generation
  (`discord_voice_gateway_client.dart:318-320`): it redials a dead endpoint while
  the client waits for new credentials.
* A UDP path lost while a resume waits for its timer revokes the resume, but the
  early return at `discord_voice_gateway_client.dart:880` leaves the old session
  and key to the identify that follows.
* The failure that the cap on forced reissues reports
  (`discord_voice_signaling_service.dart:669-680`) is not kept in `_lastStatuses`:
  a retry sends only flags, and nothing is under way.
* A client that failed keeps its UDP path: packets that do not decrypt then make
  it report that it reconnects, which it does not
  (`discord_voice_gateway_client.dart:687-728`). One that is being closed does so too.
* The DAVE key package is written outside any try (`discord_voice_gateway_client.dart:493`).
  A write that throws leaves the media transport unbuilt and the keepalive stopped, and
  the session resumable: RESUMED says ready, and the client has no packetizer, which
  by `discord_voice_media_transport.dart:56-58` is so only while a socket is being replaced.
* A write that throws before the done event of its socket is taken schedules a
  reconnect (`:976`), and the close code is never looked at: a dead token is tried
  again until the attempts are used up.
* A join whose token is dropped, with a channel no longer wanted or by an update
  without an endpoint, waits for another that nothing asks for. `Settles` names
  it (`lost`).

In the acknowledgement queue (`discord_read_state_ack_queue.dart`):

* A bulk batch is sent after an act that is newer than it and undoes that act
  (`:118-121`, `:143`), although `:257-259` rules it out.
* Two acknowledgements that leave their debounce together name the same token,
  and the answer to the second is thrown away (`:219`).

In the native video module (`flucord_video/flucord_video.cpp`):

* A caller that stamps nothing ends the hold with the first late picture
  (`:2260`). A viewer without a pacer stamps nothing
  (`watched_session_pipeline.dart:206`); one with a pacer (`:244`) and the preview of
  one's own stream (`go_live_self_preview.dart:185`) do.
* An access unit the transform refused, or that found no buffer, leaves a gap
  nobody records (`:2246-2276`): the hold covers drops of the queue only.
* A software encoder that refuses a frame loses the keyframe wish that went with
  it, and a fall back that fails leaves no encoder at all (`:869`, `:985`).
* The drain of a close stops at the first empty event queue, or after 50 ms, with
  frames still inside.
* The last error is one for the module: the next call on any handle clears it.
* A camera that stops leaves its loop without a word (`:1176`). `EndIsTold` names
  it.
* The surface keeps back one texture, so that "a handle the engine was just handed is
  never one that has already been freed" (`video_surface.h:96-98`). The second picture
  of a new size frees it (`video_surface.cpp:198`), also under an open handle.
  `HandedIsLive` says it of one picture, and names the rest as its exception.
* After three seconds without an answer the Dart service gives a texture back while
  the open of its decoder may still be in the worker's queue
  (`native_video_decoder_service.dart:276-290` with `:166-172`, `:299-305` with `:185`):
  the open then takes a surface that is gone. The model has no such open.

In the Social SDK bridge (`runner/`):

* A late answer of a cancelled authentication completes or fails the next one
  (`discord_social_sdk_bridge.cpp:293`); a late refresh brings a grant back after
  a disconnect; an expiry during an authentication leaves it waiting (`:294`).
* A late answer to the end of a call resets a newer one
  (`discord_social_sdk_call_bridge.cpp:279`).
* A session reset while a lobby is being created lets a second creation begin, and
  the stale answer of the first clears the flag of the second
  (`discord_social_sdk_activity_bridge.cpp:203`, `:300`).

In the native audio module (`flucord_audio/`):

* A session whose level cannot be written when a burst ends stays quiet and is
  forgotten (`flucord_audio.cpp:395-397`). `LevelsReturn` names it (`missed`).
* A slider the user moves in a burst is put back, and a crash in a burst leaves
  the other applications quiet (`flucord_audio.cpp:392`).
* A loopback that could not be started stays (`mic_enhancer.cpp:269-274`), and
  opening the echo stage needs a default output also when another one is picked
  (`:442`).

In the small native modules, which are not modelled yet:

* Nothing sets the rich presence pipe's `running` (`flucord_rpc.cpp:31`), so its
  reader reads nothing after the connection (`:109`).
* The Dart side of the pipe (`windows_rpc_pipe_transport.dart`) reports its socket
  on a broadcast stream before anyone listens, closes its native callables before
  the reader is joined, and never arms the pipe again after a game left.
* Starting the hot keys blocks with the lock held until the hook thread is up
  (`flucord_hotkeys.cpp:78-99`), and the overlay reads a flag without its lock
  (`flucord_overlay.cpp:124`).

### Bounds and why they are enough

*Gateway.* Two sockets: the client holds one and at most one replaced socket
still has callbacks coming; drained sockets are used again, so the number of
reconnects is not bounded by it. `gateway_session` has one session, since its
properties speak of one session's numbers, three dispatches, so that one can be
held and another pass it, one queued frame, two faults, three `connect` calls
(the third is the one that would follow a swallowed one) and
a tolerance of one heartbeat (the count is what matters, not its height).
`gateway_recovery` has three sessions (a resume refused, then an identify, then
another) and the real tolerance of two. `gateway_intents` has one room and one
channel with one change.

*Voice.* Five sessions and three attempts: four faults can use up at most four
identifies after the first, and the backoff (six in the code) must be exhausted
within the faults. Two unanswered heartbeats as in the code, one write.

*Signaling.* Two channels, so that a move and a join can cross, and three events
of any kind: what the user presses, what a moderator, Discord or a connection
does unasked, a timer that fires before what was sent has arrived, and the
close. What the service and Discord do in answer is not bounded, so each event
has all its consequences in every order. One forced reissue instead of three:
what matters is that the cap is reached.

*Acknowledgements.* Two channels, two acts, three requests with two attempts
each (three in the code), batches of one (a hundred in the code: what matters is
that a batch leaves something behind), two sessions. Three requests are the
fewest in which the middle one can end out of turn. Failures are not bounded:
the code bounds attempts. The guard `Room` keeps a place for every request that
is already owed, so the bound never stops a timer or the pump from acting.

*Decoder.* Four access units through a queue of two: the first drop needs three,
a keyframe behind it four. The code's queue holds 24, which changes how late the
decode thread sees a drop and nothing else. Two format changes in a row (eight in
the code): what matters is that the limit is reached. One fault, since a refused
input is a gap the code does not record. `Stamped` is TRUE: without timestamps
the property fails, see the defects.

*Encoder.* All three sources and two slots, the fewest in which two requests are
folded into one flag. Nothing else is bounded: faults of the source, keyframe
requests and pauses are as many as they like. `FallbackMayFail` is FALSE: a
machine has the software encoder.

*Textures.* Two, so that one thread waits for the other's lock; two Direct3D
textures each, so that a resize is under way when the handle is opened. The
pictures shown in the meantime are not bounded.

*Social SDK.* Four chains: a cancelled attempt, its successor, an expiry and one
call behind them. `social_secret` needs three.

*Audio.* Two outputs, so that one can be lost for the other. One application, which
may start in a burst or before it: applications share only the list that is emptied
at once. Two levels of the user and one share between, so that a slider moves and a
share rounds. The proofs have any number of each.

### Fairness

Timers fire, dials end, frames that arrived are taken, and a server that is
there reads what reaches it. Nothing is assumed of acknowledged heartbeats or of
the platform noticing a dead link: the heartbeat has to. Weak fairness is
enough, because each of these stays enabled until it happens or is cancelled.
A dispatch that was sent arrives, a client that was told to close
closes, and a room that was told to leave does. For the queue, a request ends one
way or another since the HTTP transport has a timeout, and how it ends is left
open.

In the native modules the threads run and what they call returns: a driver's
call, a callback into the application (the Dart side only posts a message), a
wait for the graphics device, which has a deadline of its own. Nothing is
assumed of the hardware encoder's events: a stalled one never asks for input.
Strong fairness is used twice: the raster thread lets go of a texture it was
told to forget although other pictures keep interrupting it, and frames of the
microphone get their turn between other calls of the same thread. The SDK
answers each request it accepted, and how and in which order is left open; a
connection it opened comes up or fails.

The liveness properties name the states the code does not watch: a link that
dies between the upgrade and HELLO (no heartbeat runs yet), an opening frame
that could not be decoded on a socket whose heartbeats are answered, a client
that asked for new credentials, and in the signaling service the two cases
its history variables record.

## Proofs

`tlapm` checks these for every value of the constants, from the named
assumptions of each module (bounds are natural numbers, the tolerance is
positive, the channels are finitely many).

* `DesktopGatewayProofs`: `TypeCorrect` is inductive as it stands, action by
  action. `ClosedStaysQuiet` (QuietAfterClose) and `ConnectedIsAttached`
  (ConnectedMeansAttached) are inductive once types are known: each action that
  sets a timer, a socket or a status tests `closing`, or attaches a socket in
  the same turn.
  `NeverLeftStranded` (NeverStranded) needs what a link still has in store. The
  two sides of an open link take turns (`TurnInv`): a HELLO unread means that
  nothing was asked, an opening unread means that nothing was answered, and the
  end of a link is the last frame the client takes from it. So a socket that is
  attached is either open or brings its own end. And of a dial that was overtaken
  nothing may be expected: the client is closing, or has swallowed a call
  (`OvertakenInv`).
  `NothingPassedOver` (CountedIsDelivered) and `HandedOnInOrder` (each session's
  dispatches at most once and in order) are one invariant: what the current socket still brings
  begins at the number the client has reached, goes up by one, and, while the
  link is open, leads to the end of the session's log (`FlowInv`); the opening
  on its way names that number (`OpeningInv`); a session is on one link
  (`BoundInv`). A frame held by a worker, a replaced socket and a resume each keep
  it for a different reason, and the case a worker fails on a socket while a
  reconnect is due is the one it has to except.
  `GatewayKeepsFeed` (KeepsFeed) is the refinement of `GatewayFeed`, step by step.
  The two before it speak of one session; what it needs besides is that sessions
  follow each other. `BegunInv`: sessions begin one after the other, and one that
  can be resumed has begun. `LatestInv`: until `close()` has ended, no session after the one its socket brings, or would resume, has
  been handed on; a replaced socket may still bring older ones, and is not
  listened to (`Brings`).
  `FreshSessionKnowsAll` (FreshSessionIsTold): for each intent the last word on
  its way is what the user wants, and about an intent nothing is on its way
  about, the session knows what the user wants (`ToldInv`).
* `VoiceGatewayProofs`: `TerminalStaysQuiet` needs more than its property. A
  client closed before `connect()` is quiet only because nothing has been
  started yet, so `QuietInv` adds `FreshUntilConnected`. `TypeCorrect` needs that
  one owner holds the socket and that dials in flight are paid for by faults and
  writes (`HolderInv`). `ReadyHoldsItsTransport` (ReadyHasTransport) and
  `ResumeFindsItsPath` (ResumesLivePath) rest on `MediaInv`: what may be resumed is
  live unless the server has forgotten it; at most one frame is on its way to the
  server; and each frame on its way to the client is of the session bound to the
  link. It holds until `close()` begins: from then on a path may be lost under a client
  that does not redial (`MediaKept`).
  `ClientTellsItsStages` (TellsItsStages) is the refinement of `VoiceClient`, step
  by step. No turn asks what was said last before it says the next stage, so
  `ToldInv` has to know it: each frame on its way, the reconnect timer, the dial and
  the discovery leave only the statuses it may follow; of the frames that open a
  connection one is on its way at a time; and before `connect()` there is nothing
  that could fail or get ahead. From `close()` on none of that is needed: nothing
  gets ahead (`ClosingTold`).
  `NeverLeftWaiting` (NeverWaitsInVain) is the safety side of `Settles`, for every
  bound: a connection that is meant to last is with a timer, a dial, an owner who
  makes a client of new credentials, or a socket that brings its end or is watched
  and still brings the next step of the handshake. The statement excepts a link
  that died before HELLO, with no heartbeat yet, and a client that blamed its key.
* `VoiceSignalingProofs`: `StartsNeverOverlap` (ClosedFirst) and
  `NothingFollowsClose` (NothingAfterClose) rest on the generation numbers. The
  type invariant says that of the starts in line only the last is current, so
  a start that dials leaves an empty line behind; `LeavingIsOut` says that while
  a Leave closes its client no channel is wanted and no start is current, so
  none becomes current under it. `TypeCorrect` is proved with them, for any
  number of channels and events. The lemmas about the line are stated of any
  sequence (`StaleIsLine`, `QueuedIsLine`, `RestIsLine`).
  `RoomIsWhereSeated` (SeatAgrees) is about two queues. Nothing in a voice state
  says which request it answers, so the service counts. `SeatInv` says that the
  count means something: there is a way to lay the unanswered requests along
  what Discord sent, in order, each at a voice state of its channel (its answer,
  or the one it would not have changed); the last is for the channel the user wants, and the
  last voice state on its way is of the seat. Taking a voice state, sending a
  request and following a move each turn one such arrangement into another
  (`ExplainsLonger`, `ExplainsAsked` and their siblings, stated of any sequence).
  `ClientIsHeard` (AskedIsHeard), an action property, is part of the safety side
  of `Settles`: while a channel is wanted no step leaves a client that asks for
  other credentials without a timer or a move that waits, unless the room shows
  the failure. `HeardInv` says why: the mark of a ping, which keeps a later report
  from recovering anew, is never without its timer once a client was dialed.
  `WantedChannelIsServed` (WantedIsServed) is the rest of it, and follows the newest
  token wherever it may be. What Discord sends behind it, and all that is on its way
  once the service holds it, is of the seat (`TokensInv`); it travels beside the voice
  state of that seat, or alone to a room that is there (`BesideInv`). `LineInv` gives
  the start that is current and the client the latest credentials. Half a pair is of
  the channel wanted, or that one's voice state is yet to come (`PairInv`);
  credentials of the seat with the newest token were for the channel wanted
  (`AimInv`), and only such a client is ready (`ReadyInv`). The hard case is a token
  that comes before the voice state that tells of the move: then that state is the
  next to come, or the latest credentials name another channel and will be aimed
  again (`MovedInv`). `StuckInv` adds up: without a client, the credentials are
  coming, or in line to start, unless a ping is out, the failure is shown, or one of
  the two losses in `lost` and `ignored` happened. Each kind of step is taken by
  what it asks of Discord (`StepKinds`).
* `ReadStateAckQueueProofs`: that requests never overlap does not follow from
  any one turn; it rests on what `_inFlight` means. `LineInv` says it: while a
  request has not ended, `_inFlight` is the newest one; a request waits for the
  one made just before it, or all before it had ended; whatever has left the
  waiting room has nothing unfinished before it. A step hands the line one more
  request (`JoiningKeepsOrder`), moves the request whose turn it is
  (`MovingKeepsOrder`) or leaves the line alone (`StandingKeepsOrder`), and each
  action is one of the three. `SessionInv` records the session a request is
  sent in. `OneRequestAtATime`, `SessionsNeverMix` and `FlushedIsNeverLost`
  follow. The proof uses no bound of the model: any number of channels,
  requests, attempts and sessions. `TokenStaysInSession` (TokenIsOfSession) is
  inductive with the types. `DirectActsStayInOrder` (DirectActsInOrder), an
  action property, rests on `OrderInv`: an act that waits for its timer is newer
  than all the server has, the bulk queue holds and requests carry, and a request
  of one channel reports an act no older than those before it in line.
  `QueueNeverJams` (NeverJams) is the safety side of `ComesToRest`: behind no
  request is the line stuck, and the bulk pump waits exactly while one batch, its
  own, is unanswered. A request waits only for an older one, so of those that have
  not ended the oldest has its turn (`FrontInv`, `LeastExists`). `LineIsOrdered`
  has the types, without the bounds of the model (`ShapeOK`).

* `VideoDecoderProofs`: `DecoderFreedAfterWorker` rests on `ControlInv`, which says
  what the caller, the decode thread and the cleanup thread know of each other.
  `DecoderShowsWhole`, for callers with timestamps, rests on `WholeInv`: units are
  shown, accepted and queued in order (`OrderInv`), and a drop the decode thread
  has not seen is still announced, or held, with the end of the hold beyond every
  unit that was cut (`HoldInv`). `TypeCorrect` has the numbers and the flags as two
  invariants (`NumbersOK`, `FlagsOK`).
* `VideoEncoderProofs`: `EncoderNeverStarves`, for any number of slots, rests on
  `RequestInv`: with every slot's request out, the capture thread has one it was
  given or a request waits in the event queue, and only the frame in its hands
  may have used the last. `EncoderOwesKeyframe` (WishInv) follows the wish from
  the flag to the frame and back to the flag, where the software encoder can be
  made. `EncoderTellsItsEnd` (EndInv) follows the reason of an end to the last
  callback. `TypeCorrect` is more than types: that `requested` stays a natural
  number means that no frame goes into a hardware encoder unasked. `AskedInv`
  counts the requests in the event queue and the one in hand (`AsksRead`,
  `AsksAdded`, stated of any queue).
* `VideoTexturesProofs`: `SurfaceLivesWhileUsed` is the count of references
  (`CountInv`). `MarksAreReady` says that a surface's callback is there only while
  the engine has its texture. `HandedStaysLive` says the
  handle is the picture shown when it was asked for, or, after one more, the one
  before; it says nothing of the texture after a second.
  `TypeCorrect` is there for any number of textures.
* `BridgeProofs`: `LevelsComeBack` and `LineKeepsItsOutput` of `NativeAudio`, each
  with its inductive form; and `BusyBridgeIsAnswered` (BusyIsHonest) of
  `SocialSdk`: a request that has not been made is out nowhere, so a new one takes
  no other's place. `TypeCorrect` is that of
  `NativeAudio`, where a share of a level is a level (`ShareIsLevel`), and
  `SdkTypeCorrect` that of `SocialSdk`: a pending authentication is a call that
  waits, since the answers to other chains end other calls (`SdkNames`).
* `DecoderKeepsContract`, `EncoderKeepsContract`, `TextureKeepsContract` and
  `CaptureKeepsContract`: initial states map to initial states of `CloseContract`
  and each step to a step of it or to a stutter. The fair part of
  `ImplementsContract` is checked by TLC.

Every safety invariant, every action property and every refinement of a passing
run has its theorem, the refinements but for their fairness. `NeverWaitsInVain`,
`AskedIsHeard` and `NeverJams` have a theorem and no run: with `WantedIsServed`
they say for all bounds what the liveness runs show of theirs, that nothing is left
that nobody will move. `ConnectedMeansAttached` is left to its theorem. Only model-checked: liveness (`Recovers`, `Settles`
of the voice client and of signaling, `ComesToRest`, `ReturnsToQueue`,
`EveryCallAnswered`, `FollowsTheDefault`, and the fairness of `CloseContract`),
which is beyond the prover, as is ENABLED; and the bounds in the type invariant of
`ReadStateAckQueue`, which are the model's own.

## Not modelled

In the modelled components:

* Gateway: several payloads in one compressed slice; presence, member and
  stream requests; the byte limit of a subscription frame; the load timeouts;
  a decompressor left in a bad state by an ignored reconnect; a HELLO whose
  interval is unusable.
* Voice: who sends on which SSRC, RTP and RTCP, the keepalive counter, the
  sequence number a resume acknowledges, frames that are not JSON; the six
  waits of `close()` are one.
* Signaling: who sits in which channel; private calls, which differ in the key
  and in what a disconnect names; several sessions at once, of which `close()`
  sweeps the timers first and the clients after; flags, speaking and video; the
  turns between the three waits of `_closeClient`, which is one step here.
* Acknowledgements: the store that decides what is unread; what a space's own
  acknowledgements contain; an answer without a token; a request the server
  takes only after its timeout.
* Native video: pixel conversions and pacing; the statistics; the module's one
  last error shared by handles; clips and screenshots; the software bitmap path
  and the choice of an adapter.
* Social SDK: wire formats; what the SDK reports unasked; mute and speaking flags.
* Native audio: samples, rates, the resampler and the echo library.

Whole components: the Zstandard decoder and the H.264 code are pure data; the
user interface and the Windows runner have no protocol of their own; the bot
gateway and remote authentication are simpler siblings of the gateway; the
RPC server answers one request at a time; the native pipe, overlay and hot keys
are a thread and a flag each and come next.

## Plan

The order was: the gateway session, the voice connection, signaling and the
acknowledgement queue; then the native modules, with `CloseContract` as their
abstract specification; then `VoiceClient` and `GatewayFeed`, which two of the
Dart modules are shown to implement. What would extend the project, in this order,
each with a passing run of its own:

1. The native rich presence pipe with its Dart transport: the accept loop, the
   flag, the close that unblocks it, and the events that arrive before a listener.
   The overlay and the hot keys after it.
2. `VoiceSignaling` with `VoiceClient` itself in the place of the client it has now,
   and a reader of dispatches above `GatewayFeed`.
3. `WinHttpSocket`: the worker isolate, its port, the shared handle, a dial that
   times out and leaves its worker behind, `close()` before `listen`.
4. `DaveController`, the stream service with the capture lease, the SQLite write
   queue, the datagram queue, the reorder buffer as operators.

What the theorems leave of `Settles` in `VoiceSignaling` is the client itself: that
one which failed is shown as failed or replaced, and that the timers and dispatches
that are out do their work, which is liveness.
