---------------------------- MODULE VideoDecoder ----------------------------
(***************************************************************************)
(* The native H.264 decoder of src/windows/flucord_video: the caller's     *)
(* thread that submits access units and closes, the bounded queue between  *)
(* them, the decode thread that feeds the system transform, drains it and  *)
(* draws on the surface, and the cleanup thread a late close leaves        *)
(* behind.                                                                 *)
(*                                                                         *)
(* Access units are numbered in the order they are submitted.  The queue   *)
(* is filled at one end and popped at the other by both threads, so it     *)
(* always holds the run first..submitted.                                  *)
(***************************************************************************)
EXTENDS Integers, FiniteSets

CONSTANTS
    MaxUnits,           \* access units a caller submits
    Capacity,           \* what the queue holds (24 in the code)
    MaxFormatChanges,   \* replans of one drain (8 in the code)
    MaxFaults,          \* inputs refused and pictures that do not draw
    Stamped             \* whether the caller passes timestamps

ASSUME CapacityAssumption == Capacity \in Nat \ {0}
ASSUME StampedAssumption == Stamped \in BOOLEAN

VARIABLES
    submitted,  \* access units handed in so far
    first,      \* the oldest one still in the queue
    keyframes,  \* those that carry an IDR slice
    dropped,    \* those the full queue gave up
    broken,     \* a drop the decode thread has not seen yet
    stopping,   \* the close asked the decode thread to leave
    at,         \* where the decode thread is
    after,      \* where its drain returns to
    unit,       \* the access unit in its hands
    changes,    \* format changes in a row in this drain
    sized,      \* the picture size is known
    holding,    \* the surface keeps its last whole picture
    mends_at,   \* time of the keyframe that ends the hold, or -1
    inside,     \* accepted by the transform, picture not out yet
    last,       \* the newest access unit the transform accepted
    cut,        \* accepted ones built on a unit the queue dropped
    shown,      \* whose picture the surface shows, 0 for none
    close,      \* where the caller's close is
    gate,       \* deliveries.closed
    exited,     \* the decode thread's exit word
    cleanup,    \* a detached thread is to finish the close
    media,      \* the MFStartup reference, and the object
    surface,    \* the reference on the surface
    faults      \* MaxFaults counter

queueVars == <<submitted, first, keyframes, dropped, broken>>
drainVars == <<after, unit, changes, sized>>
pictureVars == <<holding, mends_at, inside, last, cut, shown>>
closeVars == <<stopping, close, gate, exited, cleanup, media, surface>>
vars == <<queueVars, at, drainVars, pictureVars, closeVars, faults>>

None == 0

\* What submit passes on: a caller without timestamps hands in zeros.
Time(n) == IF Stamped THEN n ELSE 0

Init ==
    /\ submitted = 0 /\ first = 1
    /\ keyframes = {} /\ dropped = {}
    /\ broken = FALSE /\ stopping = FALSE
    /\ at = "none" /\ after = "wait" /\ unit = None
    /\ changes = 0 /\ sized = FALSE
    /\ holding = FALSE /\ mends_at = -1
    /\ inside = {} /\ last = 0 /\ cut = {} /\ shown = None
    /\ close = "none" /\ gate = FALSE /\ exited = FALSE /\ cleanup = FALSE
    /\ media = FALSE /\ surface = FALSE
    /\ faults = 0

-----------------------------------------------------------------------------
(* The caller's thread                                                      *)

\* flucord_video_decoder_open.  ConfigureDecoder may settle an output type.
Open ==
    /\ close = "none"
    /\ media' = TRUE /\ surface' = TRUE
    /\ sized' \in BOOLEAN
    /\ at' = "wait"
    /\ close' = "open"
    /\ UNCHANGED <<queueVars, after, unit, changes, pictureVars, stopping,
                   gate, exited, cleanup, faults>>

\* An open that found no transform, or could not configure it, gives back
\* the surface and the Media Foundation reference it took.
OpenFails ==
    /\ close = "none"
    /\ close' = "failed"
    /\ UNCHANGED <<queueVars, at, drainVars, pictureVars, stopping, gate,
                   exited, cleanup, media, surface, faults>>

\* flucord_video_decoder_submit
Submit ==
    /\ close = "open"
    /\ submitted < MaxUnits
    /\ submitted' = submitted + 1
    /\ \/ keyframes' = keyframes \union {submitted + 1}
       \/ keyframes' = keyframes
    /\ IF submitted + 1 - first >= Capacity
       THEN /\ first' = first + 1
            /\ dropped' = dropped \union {first}
            /\ broken' = TRUE
       ELSE UNCHANGED <<first, dropped, broken>>
    /\ UNCHANGED <<at, drainVars, pictureVars, closeVars, faults>>

\* flucord_video_decoder_close, up to its deadline
Close ==
    /\ close = "open"
    /\ close' = "gate"
    /\ UNCHANGED <<queueVars, at, drainVars, pictureVars, stopping, gate,
                   exited, cleanup, media, surface, faults>>

CloseGate ==
    /\ close = "gate"
    /\ at # "callback"
    /\ gate' = TRUE
    /\ close' = "stop"
    /\ UNCHANGED <<queueVars, at, drainVars, pictureVars, stopping, exited,
                   cleanup, media, surface, faults>>

Stop ==
    /\ close = "stop"
    /\ stopping' = TRUE
    /\ close' = "wait"
    /\ UNCHANGED <<queueVars, at, drainVars, pictureVars, gate, exited,
                   cleanup, media, surface, faults>>

\* Mutant: the object goes although the decode thread is still on it.
FinishWithoutWaiting ==
    /\ close = "wait"
    /\ media' = FALSE
    /\ close' = "answer"
    /\ UNCHANGED <<queueVars, at, drainVars, pictureVars, stopping, gate,
                   exited, cleanup, surface, faults>>

\* FinishDecoderClose on the caller's thread
FinishDecoderClose ==
    /\ close = "wait"
    /\ exited
    /\ media' = FALSE
    /\ close' = "answer"
    /\ UNCHANGED <<queueVars, at, drainVars, pictureVars, stopping, gate,
                   exited, cleanup, surface, faults>>

Answer ==
    /\ close = "answer"
    /\ close' = "closed"
    /\ UNCHANGED <<queueVars, at, drainVars, pictureVars, stopping, gate,
                   exited, cleanup, media, surface, faults>>

\* Two seconds went by: the rest is left to a detached thread.
Deadline ==
    /\ close = "wait"
    /\ ~exited
    /\ cleanup' = TRUE
    /\ close' = "closed"
    /\ UNCHANGED <<queueVars, at, drainVars, pictureVars, stopping, gate,
                   exited, media, surface, faults>>

\* The detached thread: AwaitForever, then FinishDecoderClose
CleanUp ==
    /\ cleanup
    /\ exited
    /\ cleanup' = FALSE
    /\ media' = FALSE
    /\ UNCHANGED <<queueVars, at, drainVars, pictureVars, stopping, close,
                   gate, exited, surface, faults>>

-----------------------------------------------------------------------------
(* The decode thread                                                        *)

\* Mutant: the hold waits for the keyframe that was taken from the queue,
\* whether or not the transform takes it as well.
TakeMends ==
    /\ at = "wait"
    /\ ~stopping
    /\ first <= submitted
    /\ unit' = first
    /\ first' = first + 1
    /\ broken' = FALSE
    /\ holding' = (holding \/ broken)
    /\ mends_at' = IF first \in keyframes /\ holding' THEN Time(first)
                   ELSE IF broken THEN -1 ELSE mends_at
    /\ at' = "input"
    /\ UNCHANGED <<submitted, keyframes, dropped, after, changes, sized,
                   inside, last, cut, shown, closeVars, faults>>

\* DecoderLoop takes the next access unit, and with it an unseen drop.
Take ==
    /\ at = "wait"
    /\ ~stopping
    /\ first <= submitted
    /\ unit' = first
    /\ first' = first + 1
    /\ IF broken
       THEN /\ broken' = FALSE
            /\ holding' = TRUE
            /\ mends_at' = -1
       ELSE UNCHANGED <<broken, holding, mends_at>>
    /\ at' = "input"
    /\ UNCHANGED <<submitted, keyframes, dropped, after, changes, sized,
                   inside, last, cut, shown, closeVars, faults>>

\* The transform takes the access unit; only a keyframe it took mends.
Accepted ==
    /\ inside' = inside \union {unit}
    /\ last' = unit
    /\ cut' = IF unit \notin keyframes
                 /\ (last \in cut \/ \E m \in dropped : last < m /\ m < unit)
              THEN cut \union {unit} ELSE cut
    /\ mends_at' = IF unit \in keyframes /\ holding /\ mends_at < 0
                   THEN Time(unit) ELSE mends_at
    /\ at' = "drain" /\ after' = "wait" /\ changes' = 0
    /\ UNCHANGED <<queueVars, unit, sized, holding, shown, closeVars, faults>>

\* SubmitToTransform: a transform that is still full is drained first.
NotAccepting ==
    /\ inside # {}
    /\ at' = "drain" /\ after' = "retry" /\ changes' = 0
    /\ UNCHANGED <<queueVars, unit, sized, pictureVars, closeVars, faults>>

\* An access unit that finds no buffer, or that the transform refuses, is
\* given up; nothing records the gap it leaves.
Refused ==
    /\ faults < MaxFaults
    /\ faults' = faults + 1
    /\ at' = "wait"
    /\ unit' = None
    /\ UNCHANGED <<queueVars, after, changes, sized, pictureVars, closeVars>>

SubmitToTransform ==
    \/ at = "input" /\ (Accepted \/ NotAccepting \/ Refused)
    \/ at = "retry" /\ (Accepted \/ Refused)

\* DrainDecoder ends: the transform needs more input, or gave up.
DrainDone ==
    /\ at = "drain"
    /\ at' = after
    /\ unit' = IF after = "retry" THEN unit ELSE None
    /\ after' = "wait" /\ changes' = 0
    /\ UNCHANGED <<queueVars, sized, pictureVars, closeVars, faults>>

\* Mutant: the count of replans starts over.
StreamChangeForEver ==
    /\ at = "drain"
    /\ changes' = (changes + 1) % MaxFormatChanges
    /\ sized' \in {sized, TRUE}
    /\ UNCHANGED <<queueVars, at, after, unit, pictureVars, closeVars, faults>>

\* A type was taken.  The storm is bounded: after MaxFormatChanges in a row
\* the drain gives up.
StreamChange ==
    /\ at = "drain"
    /\ changes < MaxFormatChanges
    /\ changes' = changes + 1
    /\ sized' \in {sized, TRUE}
    /\ UNCHANGED <<queueVars, at, after, unit, pictureVars, closeVars, faults>>

\* The transform gives its pictures back in order.
Oldest(n) == n \in inside /\ \A m \in inside : n <= m

\* DeliverPicture: the hold ends at the keyframe's own time, a held picture
\* is only counted, and a whole one is drawn on the surface.
DeliverPicture(n) ==
    LET sample == Time(n)
        time == IF sample # 0 THEN sample ELSE Time(unit)
        mends == holding /\ mends_at >= 0 /\ time >= mends_at
    IN  /\ holding' = (holding /\ ~mends)
        /\ mends_at' = IF mends THEN -1 ELSE mends_at
        /\ \/ /\ shown' = IF holding' THEN shown ELSE n
              /\ at' = "deliver"
              /\ UNCHANGED faults
           \/ /\ ~holding'                      \* ShowPicture failed
              /\ faults < MaxFaults
              /\ faults' = faults + 1
              /\ UNCHANGED <<shown, at>>

\* A picture of a size nobody knows is not delivered.
Output(n) ==
    /\ at = "drain"
    /\ Oldest(n)
    /\ inside' = inside \ {n}
    /\ changes' = 0
    /\ \/ /\ sized' = TRUE
          /\ DeliverPicture(n)
       \/ /\ ~sized /\ sized' = FALSE
          /\ UNCHANGED <<holding, mends_at, shown, at, faults>>
    /\ UNCHANGED <<queueVars, after, unit, last, cut, closeVars>>

\* Mutant: the gate is not asked.
DeliverWithoutGate ==
    /\ at = "deliver"
    /\ at' = "callback"
    /\ UNCHANGED <<queueVars, drainVars, pictureVars, closeVars, faults>>

\* The callback runs under the gate's lock, unless the gate is closed.
Deliver ==
    /\ at = "deliver"
    /\ at' = IF gate THEN "drain" ELSE "callback"
    /\ UNCHANGED <<queueVars, drainVars, pictureVars, closeVars, faults>>

CallbackReturns ==
    /\ at = "callback"
    /\ at' = "drain"
    /\ UNCHANGED <<queueVars, drainVars, pictureVars, closeVars, faults>>

\* The loop ends: ReleaseDecoder lets go of the transform and the surface.
ReleaseDecoder ==
    /\ at = "wait"
    /\ stopping
    /\ at' = "released"
    /\ inside' = {}
    /\ surface' = FALSE
    /\ UNCHANGED <<queueVars, drainVars, holding, mends_at, last, cut, shown,
                   stopping, close, gate, exited, cleanup, media, faults>>

Announce ==
    /\ at = "released"
    /\ at' = "exited"
    /\ exited' = TRUE
    /\ UNCHANGED <<queueVars, drainVars, pictureVars, stopping, close, gate,
                   cleanup, media, surface, faults>>

DecoderLoop ==
    \/ Take \/ SubmitToTransform \/ DrainDone \/ StreamChange
    \/ \E n \in inside : Output(n)
    \/ Deliver \/ CallbackReturns \/ ReleaseDecoder \/ Announce

Closing ==
    CloseGate \/ Stop \/ FinishDecoderClose \/ Answer \/ Deadline

Next ==
    Open \/ OpenFails \/ Submit \/ Close \/ Closing \/ CleanUp \/ DecoderLoop

Spec == Init /\ [][Next]_vars

\* Every thread runs: the driver's calls return, and so do the callbacks.
FairSpec ==
    /\ Spec
    /\ WF_vars(DecoderLoop)
    /\ WF_vars(Closing)
    /\ WF_vars(CleanUp)

-----------------------------------------------------------------------------
(* Properties                                                               *)

TypeOK ==
    /\ submitted \in Nat /\ first \in 1..(submitted + 1)
    /\ keyframes \subseteq 1..submitted /\ dropped \subseteq 1..submitted
    /\ {broken, stopping, sized, holding, gate, exited, cleanup, media,
        surface} \subseteq BOOLEAN
    /\ at \in {"none", "wait", "input", "retry", "drain", "deliver",
               "callback", "released", "exited"}
    /\ after \in {"wait", "retry"}
    /\ unit \in 0..submitted /\ changes \in Nat /\ faults \in Nat
    /\ mends_at \in Nat \union {-1}
    /\ inside \subseteq 1..submitted /\ cut \subseteq 1..submitted
    /\ last \in 0..submitted /\ shown \in 0..submitted
    /\ close \in {"none", "failed", "open", "gate", "stop", "wait", "answer",
                  "closed"}

\* What the surface shows is never built on an access unit the full queue
\* gave up: after a drop it keeps its last whole picture until a keyframe has
\* been decoded, however far behind the decode thread sees the drop.  Drops,
\* the hold and its end are decided by two threads and a transform that
\* gives pictures back late.
ShownIsWhole == shown \notin cut

\* A decode thread that left has let the surface go, and only then is the
\* decoder freed: the thread never runs on an object that is gone.
FreedAfterWorker ==
    /\ close \notin {"none", "failed"} /\ ~media => at = "exited"
    /\ at = "exited" => ~surface /\ inside = {}

\* The decode thread comes back to its queue whatever the transform answers:
\* no drain runs for ever on format changes that lead nowhere.
ReturnsToQueue == []<>(at \in {"none", "wait", "exited"})

Contract == INSTANCE CloseContract WITH
    handle <- IF close \in {"none", "failed"} THEN "none"
              ELSE IF close \in {"open", "closed"} THEN close
              ELSE "closing",
    calling <- at = "callback",
    kept <- media

\* The decoder keeps the contract of every worker handle: no picture reaches
\* the callback once close has answered, close answers although the decode
\* thread may be stuck past its deadline, and what it keeps is freed once.
ImplementsContract == Contract!FairSpec

=============================================================================
