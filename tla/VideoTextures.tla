---------------------------- MODULE VideoTextures ----------------------------
(***************************************************************************)
(* Decoded pictures drawn as textures: the runner's texture bridge on the  *)
(* platform thread, the counted surfaces of the video module, the decode   *)
(* threads that draw on them, and the engine's raster thread that opens    *)
(* what they show by a shared handle.                                      *)
(*                                                                         *)
(* Every texture has a surface and at most one decoder.  The Direct3D      *)
(* textures behind a surface are numbered in the order they are made.      *)
(***************************************************************************)
EXTENDS Naturals, FiniteSets

CONSTANTS
    Textures,       \* what the interface may ask for
    NoTexture,      \* the engine draws none of them
    MaxSizes        \* Direct3D textures one surface makes

ASSUME TexturesAssumption == Textures # {} /\ NoTexture \notin Textures
ASSUME SizesAssumption == MaxSizes \in Nat \ {0}

VARIABLES
    bridge,     \* where a texture is in the bridge's hands
    gone,       \* the bridge is being destroyed with the window
    refs,       \* the count of the surface, 0 once it is deleted
    attached,   \* the surface has its picture callback
    drawing,    \* the Direct3D texture the decode thread draws into
    shown,      \* the one the engine is given
    previous,   \* the one shown before the last resize
    made,       \* Direct3D textures made so far
    unfinished, \* the GPU has not finished what was drawn
    decoder,    \* the decoder on the surface
    at,         \* where its decode thread is in a picture
    raster,     \* the texture the engine is drawing, or NoTexture
    handle,     \* the handle it was handed
    lag         \* pictures shown since it was: none, one or more

surfaceVars == <<refs, attached, drawing, shown, previous, made, unfinished>>
decoderVars == <<decoder, at>>
rasterVars == <<raster, handle, lag>>
vars == <<bridge, gone, surfaceVars, decoderVars, rasterVars>>

None == 0

Init ==
    /\ bridge = [t \in Textures |-> "none"]
    /\ gone = FALSE
    /\ refs = [t \in Textures |-> 0]
    /\ attached = [t \in Textures |-> FALSE]
    /\ drawing = [t \in Textures |-> None]
    /\ shown = [t \in Textures |-> None]
    /\ previous = [t \in Textures |-> None]
    /\ made = [t \in Textures |-> 0]
    /\ unfinished = [t \in Textures |-> FALSE]
    /\ decoder = [t \in Textures |-> "none"]
    /\ at = [t \in Textures |-> "idle"]
    /\ raster = NoTexture /\ handle = None /\ lag = 0

\* The textures the engine has registered, and those whose Texture object
\* exists: the engine frees it when it lets go of one that was unregistered.
Registered(t) == bridge[t] \in {"held", "detaching"}
Exists(t) == Registered(t) \/ bridge[t] = "unregistered"

-----------------------------------------------------------------------------
(* The bridge, on the platform thread                                       *)

\* The platform thread is not waiting for the lock of a surface.
PlatformFree == \A t \in Textures : bridge[t] # "detaching"

\* VideoTextureBridge::Create: the surface, its callback and the engine's id.
Create(t) ==
    /\ PlatformFree /\ bridge[t] = "none" /\ ~gone
    /\ bridge' = [bridge EXCEPT ![t] = "held"]
    /\ refs' = [refs EXCEPT ![t] = 1]
    /\ attached' = [attached EXCEPT ![t] = TRUE]
    /\ UNCHANGED <<gone, drawing, shown, previous, made, unfinished,
                   decoderVars, rasterVars>>

\* No module, no adapter, no device, or an engine that refuses the texture:
\* a surface that was made is released with its Texture.
CreateFails(t) ==
    /\ PlatformFree /\ bridge[t] = "none" /\ ~gone
    /\ bridge' = [bridge EXCEPT ![t] = "failed"]
    /\ UNCHANGED <<gone, surfaceVars, decoderVars, rasterVars>>

\* Mutant: an engine that is told first does not wait for the surface.
DisposeUnregistersFirst(t) ==
    /\ PlatformFree /\ bridge[t] = "held"
    /\ decoder[t] \in {"none", "closing", "closed"} \/ gone
    /\ bridge' = [bridge EXCEPT ![t] = "unregistered"]
    /\ UNCHANGED <<gone, surfaceVars, decoderVars, rasterVars>>

\* Dispose takes the texture from the map and detaches it.  The interface
\* asks once its decoder answered the close; the window asks for all of them.
Dispose(t) ==
    /\ PlatformFree /\ bridge[t] = "held"
    /\ decoder[t] \in {"none", "closing", "closed"} \/ gone
    /\ bridge' = [bridge EXCEPT ![t] = "detaching"]
    /\ UNCHANGED <<gone, surfaceVars, decoderVars, rasterVars>>

\* Mutant: the callback is taken away without the lock it runs under.
DetachWithoutLock(t) ==
    /\ bridge[t] = "detaching"
    /\ attached' = [attached EXCEPT ![t] = FALSE]
    /\ bridge' = [bridge EXCEPT ![t] = "unregistered"]
    /\ UNCHANGED <<gone, refs, drawing, shown, previous, made, unfinished,
                   decoderVars, rasterVars>>

\* Detach waits for a callback that is running, then the engine is asked to
\* forget the texture.
Detach(t) ==
    /\ bridge[t] = "detaching"
    /\ at[t] # "callback"
    /\ attached' = [attached EXCEPT ![t] = FALSE]
    /\ bridge' = [bridge EXCEPT ![t] = "unregistered"]
    /\ UNCHANGED <<gone, refs, drawing, shown, previous, made, unfinished,
                   decoderVars, rasterVars>>

\* OnDestroy resets the bridge, which disposes of every texture.
Destroy ==
    /\ PlatformFree /\ ~gone
    /\ gone' = TRUE
    /\ UNCHANGED <<bridge, surfaceVars, decoderVars, rasterVars>>

-----------------------------------------------------------------------------
(* The surface                                                              *)

\* Release deletes the surface with its last reference, and its textures go.
Release(t) ==
    /\ refs' = [refs EXCEPT ![t] = @ - 1]
    /\ IF refs[t] = 1
       THEN /\ drawing' = [drawing EXCEPT ![t] = None]
            /\ shown' = [shown EXCEPT ![t] = None]
            /\ previous' = [previous EXCEPT ![t] = None]
       ELSE UNCHANGED <<drawing, shown, previous>>

-----------------------------------------------------------------------------
(* A decoder and its decode thread                                          *)

\* Mutant: the decoder counts on the reference of the one who made it.
OpenDecoderBorrows(t) ==
    /\ bridge[t] = "held" /\ ~gone
    /\ decoder[t] = "none"
    /\ decoder' = [decoder EXCEPT ![t] = "open"]
    /\ UNCHANGED <<bridge, gone, surfaceVars, at, rasterVars>>

\* flucord_video_decoder_open on the surface's address.  An open still in
\* the worker's queue when the texture is given back is left out.
OpenDecoder(t) ==
    /\ bridge[t] = "held" /\ ~gone
    /\ decoder[t] = "none"
    /\ decoder' = [decoder EXCEPT ![t] = "open"]
    /\ refs' = [refs EXCEPT ![t] = @ + 1]
    /\ UNCHANGED <<bridge, gone, attached, drawing, shown, previous, made,
                   unfinished, at, rasterVars>>

\* The close answers without the decode thread when it is late.
CloseDecoder(t) ==
    /\ decoder[t] = "open"
    /\ decoder' = [decoder EXCEPT ![t] = "closing"]
    /\ UNCHANGED <<bridge, gone, surfaceVars, at, rasterVars>>

\* The decode thread leaves and lets the surface go.
ReleaseDecoder(t) ==
    /\ decoder[t] = "closing"
    /\ at[t] = "idle"
    /\ decoder' = [decoder EXCEPT ![t] = "closed"]
    /\ Release(t)
    /\ UNCHANGED <<bridge, gone, attached, made, unfinished, at, rasterVars>>

Drawing(t) == decoder[t] \in {"open", "closing"}

\* Target, and the copy Show or Upload queues: into the texture shown, or a
\* new one when the size changed.
Draw(t) ==
    /\ Drawing(t) /\ at[t] = "idle"
    /\ \/ /\ drawing[t] # None
          /\ UNCHANGED <<drawing, made>>
       \/ /\ made[t] < MaxSizes
          /\ made' = [made EXCEPT ![t] = @ + 1]
          /\ drawing' = [drawing EXCEPT ![t] = made[t] + 1]
    /\ unfinished' = [unfinished EXCEPT ![t] = TRUE]
    /\ at' = [at EXCEPT ![t] = "flushed"]
    /\ UNCHANGED <<bridge, gone, refs, attached, shown, previous, decoder,
                   rasterVars>>

\* The GPU is done with everything that was flushed.
GpuFinishes(t) ==
    /\ unfinished[t]
    /\ unfinished' = [unfinished EXCEPT ![t] = FALSE]
    /\ UNCHANGED <<bridge, gone, refs, attached, drawing, shown, previous,
                   made, decoderVars, rasterVars>>

\* kFinishTimeout, or a device that is lost: the picture is not shown.
PresentFails(t) ==
    /\ at[t] = "flushed"
    /\ at' = [at EXCEPT ![t] = "idle"]
    /\ UNCHANGED <<bridge, gone, surfaceVars, decoder, rasterVars>>

\* Mutant: the texture shown before goes with the picture that replaces it.
PresentDropsPrevious(t) ==
    /\ at[t] = "flushed"
    /\ ~unfinished[t]
    /\ shown' = [shown EXCEPT ![t] = drawing[t]]
    /\ at' = [at EXCEPT ![t] = IF attached[t] THEN "callback" ELSE "idle"]
    /\ lag' = IF raster = t /\ lag < 2 THEN lag + 1 ELSE lag
    /\ UNCHANGED <<bridge, gone, refs, attached, drawing, previous, made,
                   unfinished, decoder, raster, handle>>

\* Under the lock: what was drawn is shown, and the callback runs.
Present(t) ==
    /\ at[t] = "flushed"
    /\ ~unfinished[t]
    /\ IF shown[t] # drawing[t]
       THEN /\ previous' = [previous EXCEPT ![t] = shown[t]]
            /\ shown' = [shown EXCEPT ![t] = drawing[t]]
       ELSE /\ previous' = [previous EXCEPT ![t] = None]
            /\ UNCHANGED shown
    /\ at' = [at EXCEPT ![t] = IF attached[t] THEN "callback" ELSE "idle"]
    /\ lag' = IF raster = t /\ lag < 2 THEN lag + 1 ELSE lag
    /\ UNCHANGED <<bridge, gone, refs, attached, drawing, made, unfinished,
                   decoder, raster, handle>>

\* OnPicture marks the frame, and the lock is let go.
Mark(t) ==
    /\ at[t] = "callback"
    /\ at' = [at EXCEPT ![t] = "idle"]
    /\ UNCHANGED <<bridge, gone, surfaceVars, decoder, rasterVars>>

-----------------------------------------------------------------------------
(* The engine's raster thread                                               *)

\* Describe: the handle shown, or nothing before the first picture.
Describe(t) ==
    /\ Exists(t)
    /\ raster = NoTexture
    /\ shown[t] # None
    /\ raster' = t /\ handle' = shown[t] /\ lag' = 0
    /\ UNCHANGED <<bridge, gone, surfaceVars, decoderVars>>

\* The engine opens the handle on its own device and draws.
OpenHandle ==
    /\ raster # NoTexture
    /\ raster' = NoTexture /\ handle' = None /\ lag' = 0
    /\ UNCHANGED <<bridge, gone, surfaceVars, decoderVars>>

\* It lets go of a texture it was told to forget; the callback of Dispose
\* frees the Texture, and with it the bridge's reference.
LetGo(t) ==
    /\ bridge[t] = "unregistered"
    /\ raster # t
    /\ bridge' = [bridge EXCEPT ![t] = "freed"]
    /\ Release(t)
    /\ UNCHANGED <<gone, attached, made, unfinished, decoderVars, rasterVars>>

Decode(t) == Present(t) \/ PresentFails(t) \/ Mark(t)

Next ==
    \/ Destroy
    \/ OpenHandle
    \/ \E t \in Textures :
          \/ Create(t) \/ CreateFails(t) \/ Dispose(t) \/ Detach(t)
          \/ OpenDecoder(t) \/ CloseDecoder(t) \/ ReleaseDecoder(t)
          \/ Draw(t) \/ GpuFinishes(t)
          \/ Present(t) \/ PresentFails(t) \/ Mark(t)
          \/ Describe(t) \/ LetGo(t)

Spec == Init /\ [][Next]_vars

\* The threads run and the GPU or the deadline ends every picture; the
\* raster thread gets to what it was told to forget between two frames.
FairSpec ==
    /\ Spec
    /\ WF_vars(OpenHandle)
    /\ \A t \in Textures :
          WF_vars(Detach(t)) /\ WF_vars(Decode(t)) /\ SF_vars(LetGo(t))

-----------------------------------------------------------------------------
(* Properties                                                               *)

TypeOK ==
    /\ bridge \in [Textures -> {"none", "failed", "held", "detaching",
                                "unregistered", "freed"}]
    /\ gone \in BOOLEAN
    /\ refs \in [Textures -> 0..2]
    /\ attached \in [Textures -> BOOLEAN]
    /\ drawing \in [Textures -> 0..MaxSizes]
    /\ shown \in [Textures -> 0..MaxSizes]
    /\ previous \in [Textures -> 0..MaxSizes]
    /\ made \in [Textures -> 0..MaxSizes]
    /\ unfinished \in [Textures -> BOOLEAN]
    /\ decoder \in [Textures -> {"none", "open", "closing", "closed"}]
    /\ at \in [Textures -> {"idle", "flushed", "callback"}]
    /\ raster \in Textures \union {NoTexture}
    /\ handle \in 0..MaxSizes
    /\ lag \in 0..2

\* The Direct3D texture behind the handle still exists.
Live == handle \in {drawing[raster], shown[raster], previous[raster]}

\* The surface the engine asked is there for as long as it opens the handle,
\* and the texture behind the handle for one picture shown in the meantime:
\* resizes, the dispose, the end of the decoder and the window's destruction
\* all happen on other threads, and none of them waits for the engine.
\* A second picture may free it, although video_surface.h says that the handle
\* is never one that was freed.
HandedIsLive ==
    raster # NoTexture =>
        /\ refs[raster] > 0
        /\ lag <= 1 => Live

\* A surface lives exactly as long as someone uses it: a decode thread never
\* draws on one that is gone, the engine never asks one, and the last of them
\* leaves nothing behind, in whichever order the texture is given back, the
\* engine lets go, the decoder closes late and the window is destroyed.
SurfaceLives ==
    \A t \in Textures : refs[t] > 0 <=> Exists(t) \/ Drawing(t)

\* A frame is marked under an id the engine still has, and only when the
\* GPU has finished the picture the engine will be given.
MarksReady ==
    \A t \in Textures :
        at[t] = "callback" =>
            /\ Registered(t)
            /\ ~unfinished[t]
            /\ shown[t] = drawing[t]

\* Any one of them: nothing tells the textures apart.
Watched == CHOOSE t \in Textures : TRUE

Contract == INSTANCE CloseContract WITH
    handle <- CASE bridge[Watched] \in {"none", "failed"} -> "none"
                [] bridge[Watched] = "held" -> "open"
                [] bridge[Watched] = "detaching" -> "closing"
                [] OTHER -> "closed",
    calling <- at[Watched] = "callback",
    kept <- Exists(Watched)

\* A texture keeps the contract of the native handles too: no mark after its
\* dispose, and what it keeps is freed once and by the engine.
ImplementsContract == Contract!FairSpec

=============================================================================
