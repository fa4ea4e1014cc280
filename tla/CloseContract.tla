--------------------------- MODULE CloseContract ---------------------------
(***************************************************************************)
(* What a native worker handle promises its owner, whatever the worker     *)
(* does: callbacks run only between open and the moment close answers, the *)
(* close always answers, and what the handle keeps is let go once, after   *)
(* the last callback.  The decoder, the encoder, the picture textures and  *)
(* the application capture implement it (VideoDecoder, VideoEncoder,       *)
(* VideoTextures, NativeAudio).                                            *)
(***************************************************************************)

VARIABLES
    handle,     \* the owner's view: none, open, closing, closed
    calling,    \* a callback into the owner's code is running
    kept        \* the module reference and the object itself exist

vars == <<handle, calling, kept>>

Init ==
    /\ handle = "none"
    /\ calling = FALSE
    /\ kept = FALSE

Open ==
    /\ handle = "none"
    /\ handle' = "open"
    /\ kept' = TRUE
    /\ UNCHANGED calling

Close ==
    /\ handle = "open"
    /\ handle' = "closing"
    /\ UNCHANGED <<calling, kept>>

Enter ==
    /\ handle \in {"open", "closing"}
    /\ kept
    /\ ~calling
    /\ calling' = TRUE
    /\ UNCHANGED <<handle, kept>>

Leave ==
    /\ calling
    /\ calling' = FALSE
    /\ UNCHANGED <<handle, kept>>

\* Before the answer on the caller's thread, after it on a cleanup thread.
Free ==
    /\ handle \in {"closing", "closed"}
    /\ kept
    /\ ~calling
    /\ kept' = FALSE
    /\ UNCHANGED <<handle, calling>>

Answer ==
    /\ handle = "closing"
    /\ ~calling
    /\ handle' = "closed"
    /\ UNCHANGED <<calling, kept>>

Next == Open \/ Close \/ Enter \/ Leave \/ Free \/ Answer

Spec == Init /\ [][Next]_vars

\* A close that began answers, and nothing outlives a closed handle for good.
FairSpec == Spec /\ WF_vars(Answer) /\ WF_vars(Free)

=============================================================================
