----------------------------- MODULE NativeAudio -----------------------------
(***************************************************************************)
(* The native audio module (src/windows/flucord_audio/): the capture of    *)
(* what the machine plays, the attenuation of other applications, and the  *)
(* microphone's enhancer with its echo reference.                          *)
(*                                                                         *)
(* The application calls all of it from one thread, and a call that waits  *)
(* for the capture's worker keeps that thread from everything else.  A     *)
(* sound level is a number out of Full; an attenuation leaves a share of   *)
(* it, also out of Full.  Lines are what has been heard of an output and   *)
(* not yet handed to the echo stage, named by the outputs it came from.    *)
(***************************************************************************)
EXTENDS Integers

CONSTANTS
    Outputs,        \* the machine's render endpoints
    Apps,           \* other applications with an audio session
    Full,           \* the loudest level
    UserLevels,     \* levels a user gives an application
    NoOutput,       \* no endpoint
    FollowDefault   \* no output picked: the system's default

ASSUME AudioAssumption ==
    /\ NoOutput \notin Outputs /\ FollowDefault \notin Outputs
    /\ Full \in Nat \ {0}
    /\ UserLevels \subseteq 0..Full

VARIABLES
    handle,     \* the owner's call or handle: none, opening, open, closing,
                \* closed
    worker,     \* none, opening, pump, callback, exited
    running,    \* the worker is to go on
    exists,     \* the FlucordAudioCapture is not deleted
    excludes,   \* excludes_own_process
    playing,    \* applications with a session
    volume,     \* the level each session has
    own,        \* the level it has when nobody attenuates it
    active,     \* g_attenuation.active
    held,       \* g_attenuation.held: the level before, or -1
    missed,     \* a history variable: those a restore could not write to,
                \* until their user moves the slider
    present,    \* endpoints that are plugged in
    default,    \* the default endpoint
    picked,     \* speakers_name
    enhancer,   \* none, echo, gain, failed
    loop,       \* the endpoint of the open loopback
    line,       \* where the samples in the speaker line came from
    due         \* a second has passed since the default was checked

captureVars == <<handle, worker, running, exists, excludes>>
levelVars == <<playing, volume, own, active, held, missed>>
echoVars == <<present, default, picked, enhancer, loop, line, due>>
vars == <<captureVars, levelVars, echoVars>>

Init ==
    /\ handle = "none" /\ worker = "none" /\ running = FALSE
    /\ exists = FALSE /\ excludes = FALSE
    /\ playing = {}
    /\ own \in [Apps -> UserLevels] /\ volume = own
    /\ active = FALSE /\ held = [a \in Apps |-> -1] /\ missed = {}
    /\ present = Outputs /\ default \in Outputs
    /\ picked = FollowDefault
    /\ enhancer = "none" /\ loop = NoOutput /\ line = {} /\ due = TRUE

\* The application's thread is not waiting in a call of the capture.
Idle == handle \notin {"opening", "closing"}

-----------------------------------------------------------------------------
(* The capture of a share's sound                                           *)

\* flucord_audio_open_loopback, which waits for what the worker opens.
OpenCapture ==
    /\ handle = "none"
    /\ handle' = "opening"
    /\ worker' = "opening" /\ running' = TRUE /\ exists' = TRUE
    /\ UNCHANGED <<excludes, levelVars, echoVars>>

\* Everything but this process, or else the whole endpoint.
OpenProcessLoopback == excludes' = TRUE
OpenDeviceLoopback == excludes' = FALSE

CaptureLoop ==
    /\ worker = "opening"
    /\ \/ worker' = "pump" /\ OpenProcessLoopback
       \/ worker' = "pump" /\ OpenDeviceLoopback
       \/ worker' = "exited" /\ excludes' = FALSE
    /\ UNCHANGED <<handle, running, exists, levelVars, echoVars>>

\* A packet for the callback, or the end the owner asked for; without a
\* packet the worker waits.
Pump ==
    /\ worker = "pump"
    /\ worker' = IF running THEN "callback" ELSE "exited"
    /\ UNCHANGED <<handle, running, exists, excludes, levelVars, echoVars>>

CallbackReturns ==
    /\ worker = "callback"
    /\ worker' = "pump"
    /\ UNCHANGED <<handle, running, exists, excludes, levelVars, echoVars>>

\* The worker has said what it opened: a handle, or none after a join.
OpenReturns ==
    /\ handle = "opening"
    /\ worker # "opening"
    /\ IF worker = "exited" THEN handle' = "none" /\ exists' = FALSE
                            ELSE handle' = "open" /\ UNCHANGED exists
    /\ UNCHANGED <<worker, running, excludes, levelVars, echoVars>>

\* flucord_audio_close: the worker is told, joined, and the capture deleted.
CloseCapture ==
    /\ handle = "open"
    /\ handle' = "closing" /\ running' = FALSE
    /\ UNCHANGED <<worker, exists, excludes, levelVars, echoVars>>

\* Mutant: the capture is deleted without a join.
DeleteWithoutJoin ==
    /\ handle = "closing" /\ exists
    /\ exists' = FALSE
    /\ UNCHANGED <<handle, worker, running, excludes, levelVars, echoVars>>

JoinAndDelete ==
    /\ handle = "closing" /\ exists
    /\ worker = "exited"
    /\ exists' = FALSE
    /\ UNCHANGED <<handle, worker, running, excludes, levelVars, echoVars>>

CloseReturns ==
    /\ handle = "closing" /\ ~exists
    /\ handle' = "closed"
    /\ UNCHANGED <<worker, running, exists, excludes, levelVars, echoVars>>

-----------------------------------------------------------------------------
(* Other applications' volume                                               *)

\* CollectSessionVolumes: a session that does not answer is left out, and
\* all are on a machine without an endpoint.
CollectSessionVolumes(sessions) ==
    [a \in Apps |-> IF a \in sessions THEN volume[a] ELSE -1]

\* The calls of SetMasterVolume: those for the sessions in written succeed,
\* and nobody looks at the result of the others.
Attenuated(before, share, written) ==
    [a \in Apps |-> IF before[a] = -1 \/ a \notin written THEN volume[a]
                    ELSE (before[a] * share) \div Full]

\* Mutant: the sessions are collected again at every call.
AttenuateCollectsAgain(share) ==
    /\ Idle
    /\ \E sessions \in SUBSET playing :
           held' = CollectSessionVolumes(sessions)
    /\ active' = TRUE
    /\ \E written \in SUBSET Apps :
           volume' = Attenuated(held', share, written)
    /\ UNCHANGED <<playing, own, missed, captureVars, echoVars>>

\* flucord_audio_attenuate_others; share is what 1 - level leaves.
AttenuateOthers(share) ==
    /\ Idle
    /\ IF active THEN UNCHANGED held
       ELSE \E sessions \in SUBSET playing :
                held' = CollectSessionVolumes(sessions)
    /\ active' = TRUE
    /\ \E written \in SUBSET Apps :
           volume' = Attenuated(held', share, written)
    /\ UNCHANGED <<playing, own, missed, captureVars, echoVars>>

\* flucord_audio_restore_others: a session whose level cannot be written, for
\* its endpoint went away, is forgotten with the others.
RestoreOthers ==
    /\ Idle
    /\ \E written \in SUBSET Apps :
          /\ volume' = Attenuated(held, Full, written)
          /\ missed' = missed \union
                          {a \in Apps \ written : held[a] # -1}
    /\ held' = [a \in Apps |-> -1]
    /\ active' = FALSE
    /\ UNCHANGED <<playing, own, captureVars, echoVars>>

\* An application begins to play, also in the middle of a burst.
SessionStarts(a) ==
    /\ a \notin playing
    /\ playing' = playing \union {a}
    /\ UNCHANGED <<volume, own, active, held, missed, captureVars, echoVars>>

\* The user moves an application's slider.  While it is held that is not for
\* long: the level from before comes back.
UserSets(a, level) ==
    /\ volume' = [volume EXCEPT ![a] = level]
    /\ IF held[a] = -1
       THEN own' = [own EXCEPT ![a] = level] /\ missed' = missed \ {a}
       ELSE UNCHANGED <<own, missed>>
    /\ UNCHANGED <<playing, active, held, captureVars, echoVars>>

-----------------------------------------------------------------------------
(* The microphone's enhancer                                                *)

Chosen == IF picked = FollowDefault THEN default ELSE picked

\* FindSpeakers and OpenLoopback open the chosen output, when it is there.
CanOpenLoopback == Chosen \in present

\* Mutant: samples of the output before stay in the line.
CloseLoopbackKeepsLine == loop' = NoOutput /\ UNCHANGED line

CloseLoopback == loop' = NoOutput /\ line' = {}

\* flucord_audio_open_mic_enhancer: the echo stage opens on the default and
\* closes that loopback again when an output is picked.  A refused open
\* leaves nothing behind.
OpenMicEnhancer ==
    /\ Idle
    /\ enhancer = "none"
    /\ \/ enhancer' = "gain" /\ UNCHANGED loop
       \/ /\ default # NoOutput
          /\ enhancer' = "echo"
          /\ loop' = IF picked = FollowDefault THEN default ELSE NoOutput
    /\ due' = TRUE
    /\ UNCHANGED <<present, default, picked, line, captureVars, levelVars>>

\* flucord_audio_enhancer_loop_back, when the room picks another output.
LoopBack(output) ==
    /\ Idle
    /\ output # picked
    /\ enhancer # "failed"
    /\ picked' = output
    /\ IF enhancer = "echo" THEN CloseLoopback ELSE UNCHANGED <<loop, line>>
    /\ UNCHANGED <<present, default, enhancer, due, captureVars, levelVars>>

\* Mutant: the first loopback is kept, wherever the default goes.
DefaultMovedUnseen == FALSE

\* The default is another one than the open loopback's.
DefaultMoved ==
    /\ picked = FollowDefault
    /\ due
    /\ default \notin {NoOutput, loop}

\* PullSpeakers and the whole chunks handed on: what the output played goes
\* behind what was there, and less than a chunk stays.
PullSpeakers(output, before) ==
    /\ loop' = output
    /\ line' \in {{}, before \union {output}}

\* The loopback goes on; or it starts over, because it was closed, its
\* endpoint went away, or the default moved.
FeedSpeakers ==
    /\ due' = (due /\ (loop = NoOutput \/ picked # FollowDefault))
    /\ IF loop \in present /\ ~DefaultMoved
       THEN PullSpeakers(loop, line)
       ELSE CanOpenLoopback /\ PullSpeakers(Chosen, {})

\* flucord_audio_enhance_frame
EnhanceFrame ==
    /\ Idle
    /\ \/ enhancer = "gain" /\ UNCHANGED <<loop, line, due>>
       \/ enhancer = "echo" /\ FeedSpeakers
    /\ UNCHANGED <<present, default, picked, enhancer, captureVars,
                   levelVars>>

\* The output is missing, or the library refuses a chunk.
EnhanceFrameFails ==
    /\ Idle
    /\ enhancer \in {"echo", "gain"}
    /\ enhancer' = "failed"
    /\ UNCHANGED <<present, default, picked, loop, line, due, captureVars,
                   levelVars>>

\* After a failed frame, or when its switch goes off.
CloseMicEnhancer ==
    /\ Idle
    /\ enhancer # "none"
    /\ enhancer' = "none"
    /\ CloseLoopback
    /\ UNCHANGED <<present, default, picked, due, captureVars, levelVars>>

-----------------------------------------------------------------------------
(* The machine.  An endpoint that comes back before the next frame counts   *)
(* as one that stayed.                                                      *)

\* The system picks another default when the one it has goes away.
Unplug(output) ==
    /\ output \in present
    /\ present' = present \ {output}
    /\ default' \in IF default # output THEN {default}
                    ELSE IF present' = {} THEN {NoOutput} ELSE present'
    /\ UNCHANGED <<picked, enhancer, loop, line, due, captureVars,
                   levelVars>>

Plug(output) ==
    /\ output \notin present
    /\ present' = present \union {output}
    /\ default' \in {output} \union (present \intersect {default})
    /\ UNCHANGED <<picked, enhancer, loop, line, due, captureVars,
                   levelVars>>

MoveDefault(output) ==
    /\ output \in present \ {default}
    /\ default' = output
    /\ UNCHANGED <<present, picked, enhancer, loop, line, due, captureVars,
                   levelVars>>

SecondPasses ==
    /\ ~due
    /\ due' = TRUE
    /\ UNCHANGED <<present, default, picked, enhancer, loop, line,
                   captureVars, levelVars>>

-----------------------------------------------------------------------------
Capture ==
    \/ OpenCapture \/ CaptureLoop \/ Pump \/ CallbackReturns
    \/ OpenReturns \/ CloseCapture \/ JoinAndDelete \/ CloseReturns

Levels ==
    \/ \E share \in 0..Full : AttenuateOthers(share)
    \/ RestoreOthers
    \/ \E a \in Apps : SessionStarts(a)
    \/ \E a \in Apps, level \in UserLevels : UserSets(a, level)

Echo ==
    \/ OpenMicEnhancer \/ EnhanceFrame \/ EnhanceFrameFails
    \/ CloseMicEnhancer \/ SecondPasses
    \/ \E output \in Outputs \union {FollowDefault} : LoopBack(output)
    \/ \E output \in Outputs :
           Unplug(output) \/ Plug(output) \/ MoveDefault(output)

Next == Capture \/ Levels \/ Echo

Spec == Init /\ [][Next]_vars

\* The worker, the call that waits for it and the clock go on; the frames
\* that arrive get their turn on the application's thread.
FairSpec ==
    /\ Spec
    /\ WF_vars(CaptureLoop) /\ WF_vars(Pump) /\ WF_vars(CallbackReturns)
    /\ WF_vars(OpenReturns) /\ WF_vars(JoinAndDelete)
    /\ WF_vars(CloseReturns)
    /\ SF_vars(EnhanceFrame \/ EnhanceFrameFails)
    /\ WF_vars(SecondPasses)

-----------------------------------------------------------------------------
(* Properties                                                               *)

TypeOK ==
    /\ handle \in {"none", "opening", "open", "closing", "closed"}
    /\ worker \in {"none", "opening", "pump", "callback", "exited"}
    /\ {running, exists, excludes, active, due} \subseteq BOOLEAN
    /\ playing \subseteq Apps
    /\ volume \in [Apps -> 0..Full]
    /\ own \in [Apps -> 0..Full]
    /\ held \in [Apps -> -1..Full]
    /\ missed \subseteq Apps
    /\ present \subseteq Outputs
    /\ default \in present \union {NoOutput}
    /\ picked \in Outputs \union {FollowDefault}
    /\ enhancer \in {"none", "echo", "gain", "failed"}
    /\ loop \in Outputs \union {NoOutput}
    /\ line \subseteq Outputs

\* An application that is not being attenuated plays at the level its user
\* gave it: no sequence of bursts, levels within a burst, calls that failed in
\* one, sessions that start in it and moved sliders leaves one quieter or
\* louder.  The exception is exact: a session the restore itself could not
\* write to stays as it was until its user moves the slider.
LevelsReturn ==
    \A a \in Apps : held[a] = -1 => volume[a] = own[a] \/ a \in missed

\* The speaker line holds samples of the output its loopback reads and of no
\* other one, whose rate and width may differ, through every change of
\* output, unplugged endpoint and moved default.
LineIsOfItsOutput == line \subseteq {loop} \ {NoOutput}

\* A loopback that follows the default does not stay on another output: it
\* reads the new default, or the frames fail and the room is told.
FollowsTheDefault ==
    (enhancer = "echo" /\ loop # default)
        ~> (enhancer # "echo" \/ picked # FollowDefault \/ loop = default)

\* The capture keeps the contract of a native worker handle.  Its handle is
\* the owner's from the moment the worker has opened its endpoint.
ContractHandle ==
    IF handle # "opening" THEN handle
    ELSE IF worker \in {"opening", "exited"} THEN "none" ELSE "open"

Contract == INSTANCE CloseContract
            WITH handle <- ContractHandle,
                 calling <- (worker = "callback"),
                 kept <- exists /\ ContractHandle # "none"

\* Every behaviour of the capture is one the contract allows: no callback
\* after the close has answered, no deletion under a running callback, and
\* every close answers.
ImplementsContract == Contract!FairSpec

=============================================================================
