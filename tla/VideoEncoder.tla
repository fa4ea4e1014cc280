---------------------------- MODULE VideoEncoder ----------------------------
(***************************************************************************)
(* The native capture pipeline of src/windows/flucord_video: the owner     *)
(* that opens, pauses, asks for keyframes and closes; the capture thread   *)
(* that takes pictures from a display, a window or a camera and encodes    *)
(* them; the encoder transform, asynchronous when it is a hardware one;    *)
(* and the cleanup thread a late close leaves behind.                      *)
(*                                                                         *)
(* A hardware encoder asks for input with events.  It serves Slots frames  *)
(* at a time, holds a slot until its output is read, and keeps one request *)
(* out for each slot that is free.                                         *)
(***************************************************************************)
EXTENDS Naturals, Sequences, FiniteSets

CONSTANTS
    Sources,            \* what may be captured
    Slots,              \* frames an encoder works on at a time
    FallbackMayFail     \* whether the software encoder can fail as well

ASSUME SlotsAssumption == Slots \in Nat \ {0}
ASSUME SourcesAssumption == Sources \subseteq {"display", "window", "camera"}
ASSUME FallbackAssumption == FallbackMayFail \in BOOLEAN

VARIABLES
    source,     \* what is captured
    running,    \* cleared by close
    paused,
    keyframe_requested,
    owed,       \* somebody asked, and no keyframe was encoded since
    async,      \* encoder_is_async
    accepts,    \* encoder_accepts_input
    rebuilt,    \* encoder_rebuilt_as_software
    encoder,    \* the transform exists
    events,     \* the transform's event queue
    requested,  \* requests for input no frame has answered
    busy,       \* frames inside the transform
    at,         \* where the capture thread is
    back,       \* where a delivery returns to
    answered,   \* this frame's input is in: the pump only delivers
    force,      \* this frame is to be a keyframe
    stage,      \* g_last_error_stage
    told,       \* the empty frame went out: the capture's last word
    close,      \* where the owner's close is
    gate,       \* deliveries.closed
    exited,     \* the capture thread's exit word
    cleanup,    \* a detached thread is to finish the close
    finish,     \* where FinishEncoderClose is
    media       \* the MFStartup reference, and the object

ownerVars == <<source, running, paused>>
keyVars == <<keyframe_requested, owed>>
kindVars == <<async, accepts, rebuilt, encoder>>
transformVars == <<events, requested, busy>>
threadVars == <<at, back, answered, force>>
wordVars == <<stage, told>>
closeVars == <<close, gate, exited, cleanup, finish, media>>
vars == <<ownerVars, keyVars, kindVars, transformVars, threadVars, wordVars,
          closeVars>>

Init ==
    /\ source = "none" /\ running = FALSE /\ paused = FALSE
    /\ keyframe_requested = TRUE /\ owed = TRUE
    /\ async = FALSE /\ accepts = TRUE /\ rebuilt = FALSE /\ encoder = FALSE
    /\ events = <<>> /\ requested = 0 /\ busy = 0
    /\ at = "none" /\ back = "none" /\ answered = FALSE /\ force = FALSE
    /\ stage = "none" /\ told = FALSE
    /\ close = "none" /\ gate = FALSE /\ exited = FALSE /\ cleanup = FALSE
    /\ finish = "none" /\ media = FALSE

-----------------------------------------------------------------------------
(* Making an encoder, and opening what is captured                          *)

\* An asynchronous encoder has to ask before it is fed.
SetupEncoderTransform(kind) ==
    /\ async' = kind
    /\ accepts' = ~kind
    /\ encoder' = TRUE

\* The software encoder is synchronous.  One that cannot be made leaves none.
ConfigureSoftwareEncoder ==
    /\ async' = FALSE
    /\ accepts' = TRUE
    /\ encoder' \in {TRUE, ~FallbackMayFail}

\* Hardware when the machine has it, of either kind, or else software.
ConfigureEncoder == \E kind \in BOOLEAN : SetupEncoderTransform(kind)

\* A duplication says which step refused; a camera only that the picture is
\* of a wrong size, and most of its refusals leave nothing on record.
OpenDuplicationFails == stage' = "display"
OpenCameraReaderFails == stage' \in {"none", "camera"}

\* WindowCapture::Start refused a window; WindowCapture::Next finds that it
\* was closed, or that it cannot be read any more.
WindowStartFails == stage' = "capture"
WindowIsGone == stage' \in {"closed", "capture"}

-----------------------------------------------------------------------------
(* The owner                                                                *)

\* flucord_video_open, _open_camera and _open_window.  A duplication that
\* succeeds on its second device has recorded the refusal of the first.
Open ==
    /\ close = "none"
    /\ source' \in Sources
    /\ running' = TRUE
    /\ ConfigureEncoder
    /\ at' = "top"
    /\ stage' = "none" \/ (source' = "display" /\ OpenDuplicationFails)
    /\ close' = "open"
    /\ media' = TRUE
    /\ UNCHANGED <<paused, keyVars, rebuilt, transformVars, back, answered,
                   force, told, gate, exited, cleanup, finish>>

\* An open that found no source or no encoder takes nothing, and leaves the
\* reason behind.
OpenFails ==
    /\ close = "none"
    /\ close' = "failed"
    /\ \/ OpenDuplicationFails
       \/ OpenCameraReaderFails
       \/ WindowStartFails
    /\ UNCHANGED <<ownerVars, keyVars, kindVars, transformVars, threadVars,
                   told, gate, exited, cleanup, finish, media>>

RequestKeyframe ==
    /\ close = "open"
    /\ keyframe_requested' = TRUE
    /\ owed' = TRUE
    /\ UNCHANGED <<ownerVars, kindVars, transformVars, threadVars, wordVars,
                   closeVars>>

\* Resuming asks for a keyframe: what the viewers hold is stale.
SetPaused ==
    /\ close = "open"
    /\ paused' = ~paused
    /\ IF paused THEN keyframe_requested' = TRUE /\ owed' = TRUE
                 ELSE UNCHANGED keyVars
    /\ UNCHANGED <<source, running, kindVars, transformVars, threadVars,
                   wordVars, closeVars>>

\* flucord_video_close
Close ==
    /\ close = "open"
    /\ stage' = "none"
    /\ running' = FALSE
    /\ close' = "wait"
    /\ UNCHANGED <<source, paused, keyVars, kindVars, transformVars,
                   threadVars, told, gate, exited, cleanup, finish, media>>

\* The worker came out in time: the rest is done on the owner's thread.
WorkerOut ==
    /\ close = "wait"
    /\ exited
    /\ finish' = "drain"
    /\ close' = "finish"
    /\ UNCHANGED <<ownerVars, keyVars, kindVars, transformVars, threadVars,
                   wordVars, gate, exited, cleanup, media>>

Answer ==
    /\ close = "finish"
    /\ finish = "done"
    /\ close' = "closed"
    /\ UNCHANGED <<ownerVars, keyVars, kindVars, transformVars, threadVars,
                   wordVars, gate, exited, cleanup, finish, media>>

\* It did not: the gate goes down before the answer, under the lock a
\* callback of the capture thread holds.
Deadline ==
    /\ close = "wait"
    /\ ~exited
    /\ close' = "gate"
    /\ UNCHANGED <<ownerVars, keyVars, kindVars, transformVars, threadVars,
                   wordVars, gate, exited, cleanup, finish, media>>

CloseGate ==
    /\ close = "gate"
    /\ at \notin {"callback", "endcall"}
    /\ gate' = TRUE
    /\ stage' = "stopJoin"
    /\ cleanup' = TRUE
    /\ close' = "closed"
    /\ UNCHANGED <<ownerVars, keyVars, kindVars, transformVars, threadVars,
                   told, exited, finish, media>>

\* The detached thread: AwaitForever, then FinishEncoderClose.
CleanUp ==
    /\ cleanup
    /\ exited
    /\ cleanup' = FALSE
    /\ finish' = "drain"
    /\ UNCHANGED <<ownerVars, keyVars, kindVars, transformVars, threadVars,
                   wordVars, close, gate, exited, media>>

\* FinishEncoderClose drains a hardware encoder until it has no event left,
\* or the driver has had its 50 ms.
DrainLast ==
    /\ finish = "drain"
    /\ IF async /\ encoder /\ events # <<>>
       THEN \/ /\ events' = Tail(events)
               /\ finish' = IF Head(events) = "have" THEN "deliver"
                                                     ELSE "drain"
            \/ finish' = "free" /\ UNCHANGED events
       ELSE finish' = "free" /\ UNCHANGED events
    /\ UNCHANGED <<ownerVars, keyVars, kindVars, requested, busy, threadVars,
                   wordVars, close, gate, exited, cleanup, media>>

DeliverLast ==
    /\ \/ finish = "deliver" /\ finish' \in {"drain"} \union
                                (IF gate THEN {} ELSE {"callback"})
       \/ finish = "callback" /\ finish' = "drain"
    /\ UNCHANGED <<ownerVars, keyVars, kindVars, transformVars, threadVars,
                   wordVars, close, gate, exited, cleanup, media>>

Free ==
    /\ finish = "free"
    /\ finish' = "done"
    /\ encoder' = FALSE /\ events' = <<>> /\ requested' = 0 /\ busy' = 0
    /\ media' = FALSE
    /\ UNCHANGED <<ownerVars, keyVars, async, accepts, rebuilt, threadVars,
                   wordVars, close, gate, exited, cleanup>>

FinishEncoderClose == DrainLast \/ DeliverLast \/ Free

-----------------------------------------------------------------------------
(* The encoder transform                                                    *)

\* Slots whose frame is encoded and not yet read.
Unread == Cardinality({i \in DOMAIN events : events[i] = "have"})

\* METransformNeedInput: a free slot asks for a frame.
NeedInput ==
    /\ encoder /\ async
    /\ requested + busy + Unread < Slots
    /\ requested' = requested + 1
    /\ events' = Append(events, "need")
    /\ UNCHANGED <<ownerVars, keyVars, kindVars, busy, threadVars, wordVars,
                   closeVars>>

\* METransformHaveOutput
HaveOutput ==
    /\ encoder /\ async
    /\ busy > 0
    /\ busy' = busy - 1
    /\ events' = Append(events, "have")
    /\ UNCHANGED <<ownerVars, keyVars, kindVars, requested, threadVars,
                   wordVars, closeVars>>

-----------------------------------------------------------------------------
(* The capture thread                                                       *)

Go(to) == at' = to /\ UNCHANGED <<back, answered, force>>

\* Mutant: a share that ends while it is paused ends in silence.
LoopTopEndsInSilence ==
    /\ at = "top"
    /\ \/ ~running /\ Go("leave") /\ UNCHANGED stage
       \/ running /\ (~paused \/ source = "camera") /\ Go("take")
          /\ UNCHANGED stage
       \/ running /\ paused /\ source = "window" /\ Go("leave")
          /\ stage' = "closed"
    /\ UNCHANGED <<ownerVars, keyVars, kindVars, transformVars, told,
                   closeVars>>

\* The head of CaptureLoop and CameraLoop.  A window closed while the share
\* is paused ends it now; a paused camera is still read.
LoopTop ==
    /\ at = "top"
    /\ \/ ~running /\ Go("leave") /\ UNCHANGED stage
       \/ running /\ (~paused \/ source = "camera") /\ Go("take")
          /\ UNCHANGED stage
       \/ running /\ paused /\ source = "window" /\ Go("end")
          /\ stage' = "closed"
    /\ UNCHANGED <<ownerVars, keyVars, kindVars, transformVars, told,
                   closeVars>>

\* TakeFrame, and ReadSample for a camera: a picture (or the last one again),
\* nothing to encode, a source that is gone, a duplication that was lost.
TakeFrame ==
    /\ at = "take"
    /\ \/ Go(IF source = "camera" /\ paused THEN "top" ELSE "encode")
          /\ UNCHANGED stage
       \/ Go("top") /\ UNCHANGED stage
       \/ source = "window" /\ WindowIsGone /\ Go("end")
       \/ source = "camera" /\ Go("leave") /\ UNCHANGED stage
       \/ source = "display" /\ Go("reopen") /\ UNCHANGED stage
    /\ UNCHANGED <<ownerVars, keyVars, kindVars, transformVars, told,
                   closeVars>>

\* ReopenDuplication: an attempt clears the failure and records its own; the
\* loop ends with the capture, or gives up after a minute.
ReopenDuplication ==
    /\ at = "reopen"
    /\ \/ running /\ Go("top") /\ stage' \in {"none", "display"}
       \/ running /\ OpenDuplicationFails /\ (Go("reopen") \/ Go("end"))
       \/ ~running /\ Go("end") /\ UNCHANGED stage
    /\ UNCHANGED <<ownerVars, keyVars, kindVars, transformVars, told,
                   closeVars>>

\* AnnounceCaptureEnd: not while closing, and not behind the gate.
AnnounceCaptureEnd ==
    /\ \/ at = "end" /\ Go(IF running THEN "endgate" ELSE "leave")
          /\ UNCHANGED told
       \/ at = "endgate" /\ Go(IF gate THEN "leave" ELSE "endcall")
          /\ told' = ~gate
       \/ at = "endcall" /\ Go("leave") /\ UNCHANGED told
    /\ UNCHANGED <<ownerVars, keyVars, kindVars, transformVars, stage,
                   closeVars>>

\* The worker announces its exit.
Announce ==
    /\ at = "leave"
    /\ Go("exited")
    /\ exited' = TRUE
    /\ UNCHANGED <<ownerVars, keyVars, kindVars, transformVars, wordVars,
                   close, gate, cleanup, finish, media>>

\* EncodeNv12 with its sample made; a frame that finds no buffer is lost.
EncodeNv12 ==
    /\ at = "encode"
    /\ \/ Go("top")
       \/ /\ at' = IF async THEN "pump" ELSE "offer"
          /\ answered' = FALSE
          /\ UNCHANGED <<back, force>>
    /\ UNCHANGED <<ownerVars, keyVars, kindVars, transformVars, wordVars,
                   closeVars>>

\* Where PumpEncoderEvents returns to.
Pumped(ready) ==
    Go(IF answered THEN "top" ELSE IF ready THEN "offer" ELSE "await")

ConsumeEncoderOutput ==
    /\ events # <<>> /\ Head(events) = "have"
    /\ events' = Tail(events)
    /\ \/ at' = "deliver" /\ back' = at      \* or ProcessOutput fails
       \/ UNCHANGED <<at, back>>
    /\ UNCHANGED <<accepts, answered, force>>

\* PumpEncoderEvents stops at the first request for input, or at the end of
\* the queue.
PumpEncoderEvents ==
    /\ at = "pump"
    /\ \/ ConsumeEncoderOutput
       \/ /\ events # <<>> /\ Head(events) = "need"
          /\ events' = Tail(events)
          /\ accepts' = TRUE
          /\ Pumped(TRUE)
       \/ /\ events = <<>>
          /\ Pumped(accepts)
          /\ UNCHANGED <<events, accepts>>
    /\ UNCHANGED <<ownerVars, keyVars, async, rebuilt, encoder, requested,
                   busy, wordVars, closeVars>>

\* Mutant: the deadline is looked at after the request was taken.
AwaitDropsRequest ==
    /\ at = "await"
    /\ \/ ConsumeEncoderOutput
       \/ /\ events # <<>> /\ Head(events) = "need"
          /\ events' = Tail(events)
          /\ \/ Go("offer") /\ accepts' = TRUE
             \/ Go("top") /\ UNCHANGED accepts
       \/ Go("top") /\ UNCHANGED <<events, accepts>>
    /\ UNCHANGED <<ownerVars, keyVars, async, rebuilt, encoder, requested,
                   busy, wordVars, closeVars>>

\* AwaitEncoderInput: the frame is dropped when the deadline passes.
AwaitEncoderInput ==
    /\ at = "await"
    /\ \/ ConsumeEncoderOutput
       \/ /\ events # <<>> /\ Head(events) = "need"
          /\ events' = Tail(events)
          /\ accepts' = TRUE
          /\ Go("offer")
       \/ Go("top") /\ UNCHANGED <<events, accepts>>
    /\ UNCHANGED <<ownerVars, keyVars, async, rebuilt, encoder, requested,
                   busy, wordVars, closeVars>>

\* The request for input is used up, and with it the wish for a keyframe.
Offer ==
    /\ at = "offer"
    /\ accepts' = ~async
    /\ force' = keyframe_requested
    /\ keyframe_requested' = FALSE
    /\ at' = "input"
    /\ UNCHANGED <<ownerVars, owed, async, rebuilt, encoder, transformVars,
                   back, answered, wordVars, closeVars>>

\* ProcessInput took the frame.
ProcessInput ==
    /\ at = "input"
    /\ encoder
    /\ busy' = busy + 1
    /\ requested' = IF async THEN requested - 1 ELSE requested
    /\ owed' = (owed /\ ~force)
    /\ force' = FALSE
    /\ answered' = TRUE
    /\ at' = IF async THEN "pump" ELSE "drain"
    /\ UNCHANGED <<ownerVars, keyframe_requested, kindVars, events, back,
                   wordVars, closeVars>>

\* Mutant: the software encoder is not asked for the keyframe that was lost.
ProcessInputForgetsKeyframe ==
    /\ at = "input"
    /\ encoder
    /\ ~rebuilt
    /\ force' = FALSE
    /\ at' = "top"
    /\ rebuilt' = TRUE /\ async' = FALSE /\ accepts' = TRUE
    /\ events' = <<>> /\ requested' = 0 /\ busy' = 0
    /\ UNCHANGED <<ownerVars, keyVars, encoder, back, answered, wordVars,
                   closeVars>>

\* The encoder is replaced by the software one, once, and the new one owes a
\* keyframe.
RecoverEncoder ==
    IF rebuilt THEN UNCHANGED <<keyVars, kindVars, transformVars>>
    ELSE /\ rebuilt' = TRUE
         /\ ConfigureSoftwareEncoder
         /\ events' = <<>> /\ requested' = 0 /\ busy' = 0
         /\ keyframe_requested' = (keyframe_requested \/ encoder')
         /\ owed' = (owed \/ encoder')

\* It refused: the first refusal of the attempt is recorded.
ProcessInputFails ==
    /\ at = "input"
    /\ encoder
    /\ FallbackMayFail \/ ~rebuilt
    /\ stage' = IF stage = "none" THEN "encode" ELSE stage
    /\ force' = FALSE
    /\ at' = "top"
    /\ RecoverEncoder
    /\ UNCHANGED <<ownerVars, back, answered, told, closeVars>>

\* DrainEncoder: a synchronous encoder gives what it has finished, and the
\* drain stops when it wants another frame first.
DrainEncoder ==
    /\ at = "drain"
    /\ \/ busy < Slots /\ Go("top") /\ UNCHANGED busy
       \/ /\ busy > 0
          /\ busy' = busy - 1
          /\ at' = "deliver" /\ back' = "drain"
          /\ UNCHANGED <<answered, force>>
    /\ UNCHANGED <<ownerVars, keyVars, kindVars, events, requested, wordVars,
                   closeVars>>

\* Mutant: the gate is not asked.
DeliverWithoutGate ==
    /\ \/ at = "deliver" /\ at' \in {back, "callback"}
       \/ at = "callback" /\ at' = back
    /\ back' = IF at' = "callback" THEN back ELSE "none"
    /\ UNCHANGED <<ownerVars, keyVars, kindVars, transformVars, answered,
                   force, wordVars, closeVars>>

\* DeliverEncodedSample: an empty or unreadable sample is dropped, the others
\* reach the callback under the gate's lock.
DeliverEncodedSample ==
    /\ \/ at = "deliver" /\ at' = back
       \/ at = "deliver" /\ ~gate /\ at' = "callback"
       \/ at = "callback" /\ at' = back
    /\ back' = IF at' = "callback" THEN back ELSE "none"
    /\ UNCHANGED <<ownerVars, keyVars, kindVars, transformVars, answered,
                   force, wordVars, closeVars>>

CaptureLoop ==
    \/ LoopTop \/ TakeFrame \/ ReopenDuplication \/ AnnounceCaptureEnd
    \/ Announce \/ EncodeNv12 \/ PumpEncoderEvents \/ AwaitEncoderInput
    \/ Offer \/ ProcessInput \/ ProcessInputFails \/ DrainEncoder
    \/ DeliverEncodedSample

Closing ==
    WorkerOut \/ Answer \/ Deadline \/ CloseGate

Next ==
    \/ Open \/ OpenFails \/ RequestKeyframe \/ SetPaused \/ Close
    \/ Closing \/ CleanUp \/ FinishEncoderClose
    \/ NeedInput \/ HaveOutput
    \/ CaptureLoop

Spec == Init /\ [][Next]_vars

\* The threads run and the driver's calls return; the transform may stall.
FairSpec ==
    /\ Spec
    /\ WF_vars(CaptureLoop)
    /\ WF_vars(Closing)
    /\ WF_vars(CleanUp)
    /\ WF_vars(FinishEncoderClose)

-----------------------------------------------------------------------------
(* Properties                                                               *)

TypeOK ==
    /\ source \in Sources \union {"none"}
    /\ {running, paused, keyframe_requested, owed, async, accepts, rebuilt,
        encoder, answered, force, told, gate, exited, cleanup, media}
         \subseteq BOOLEAN
    /\ events \in Seq({"need", "have"})
    /\ requested \in 0..Slots /\ busy \in Nat
    /\ at \in {"none", "top", "take", "reopen", "end", "endgate", "endcall",
               "leave", "exited", "encode", "pump", "await", "offer", "input",
               "drain", "deliver", "callback"}
    /\ back \in {"none", "pump", "await", "drain"}
    /\ stage \in {"none", "display", "camera", "capture", "closed", "encode",
                  "stopJoin"}
    /\ close \in {"none", "failed", "open", "wait", "finish", "gate",
                  "closed"}
    /\ finish \in {"none", "drain", "deliver", "callback", "free", "done"}

\* A hardware encoder that the capture thread may not feed will ask again:
\* an event waits to be read, or a slot is at work or free to ask.  The pump folds
\* several requests into one flag, drops frames at its deadline and stops at
\* the first request, and none of that may use up the last request.
NeverStarves ==
    async /\ encoder /\ at # "input" /\ finish = "none" =>
        \/ accepts
        \/ events # <<>>
        \/ busy > 0
        \/ requested < Slots

\* A keyframe somebody asked for (a viewer, a resume, the change to another
\* encoder) stays asked for until the encoder took a frame that is one, also
\* when frames are dropped in between or the encoder fails with the frame.
KeyframeOwed ==
    owed /\ encoder => keyframe_requested \/ (at = "input" /\ force)

\* A capture thread that left a handle nobody closed has sent its last word,
\* and the reason is on record.  A camera that stops says nothing at all.
EndIsTold ==
    close = "open" /\ at = "exited" =>
        source = "camera" \/ (told /\ stage # "none")

Contract == INSTANCE CloseContract WITH
    handle <- IF close \in {"none", "failed"} THEN "none"
              ELSE IF close \in {"open", "closed"} THEN close
              ELSE "closing",
    calling <- at \in {"callback", "endcall"} \/ finish = "callback",
    kept <- media

\* The encoder keeps the contract of every worker handle: no frame reaches
\* the callback once close has answered, although the last ones are delivered
\* by the close itself or left to a cleanup thread; close answers and what
\* the handle keeps is freed.
ImplementsContract == Contract!FairSpec

=============================================================================
