------------------------- MODULE VideoTexturesProofs -------------------------
(* What holds of VideoTextures for any number of textures and resizes.     *)
EXTENDS VideoTextures, TLAPS

-----------------------------------------------------------------------------
(* Whose a surface is                                                       *)

\* The references on a surface: the Texture's and the decoder's.
Count(t) == (IF Exists(t) THEN 1 ELSE 0) + (IF Drawing(t) THEN 1 ELSE 0)

\* A surface is counted for the two that may hold it, and one that was never
\* made has no decoder.
CountInv ==
    /\ bridge \in [Textures -> {"none", "failed", "held", "detaching",
                                "unregistered", "freed"}]
    /\ refs \in [Textures -> Nat]
    /\ decoder \in [Textures -> {"none", "open", "closing", "closed"}]
    /\ \A t \in Textures : refs[t] = Count(t)
    /\ \A t \in Textures :
          bridge[t] \in {"none", "failed"} => decoder[t] = "none"

\* The count follows every step of one texture, and the others keep theirs.
LEMMA CountInvariant == Spec => []CountInv
<1>1. Init => CountInv
  BY DEF Init, CountInv, Count, Exists, Registered, Drawing
<1>2. CountInv /\ [Next]_vars => CountInv'
  <2> SUFFICES ASSUME CountInv, [Next]_vars PROVE CountInv'
    OBVIOUS
  <2> USE DEF CountInv, Count, Exists, Registered, Drawing
  <2>1. CASE Destroy
    BY <2>1 DEF Destroy, surfaceVars, decoderVars
  <2>2. CASE OpenHandle
    BY <2>2 DEF OpenHandle, surfaceVars, decoderVars
  <2>3. ASSUME NEW t \in Textures, Create(t) PROVE CountInv'
    BY <2>3 DEF Create, decoderVars
  <2>4. ASSUME NEW t \in Textures, CreateFails(t) PROVE CountInv'
    BY <2>4 DEF CreateFails, surfaceVars, decoderVars
  <2>5. ASSUME NEW t \in Textures, Dispose(t) PROVE CountInv'
    BY <2>5 DEF Dispose, surfaceVars, decoderVars
  <2>6. ASSUME NEW t \in Textures, Detach(t) PROVE CountInv'
    BY <2>6 DEF Detach, decoderVars
  <2>7. ASSUME NEW t \in Textures, OpenDecoder(t) PROVE CountInv'
    BY <2>7 DEF OpenDecoder
  <2>8. ASSUME NEW t \in Textures, CloseDecoder(t) PROVE CountInv'
    BY <2>8 DEF CloseDecoder, surfaceVars
  <2>9. ASSUME NEW t \in Textures, ReleaseDecoder(t) PROVE CountInv'
    BY <2>9 DEF ReleaseDecoder, Release
  <2>10. ASSUME NEW t \in Textures, LetGo(t) PROVE CountInv'
    BY <2>10 DEF LetGo, Release, decoderVars
  <2>11. ASSUME NEW t \in Textures,
                Draw(t) \/ GpuFinishes(t) \/ Decode(t) \/ Describe(t)
         PROVE  CountInv'
    BY <2>11 DEF Draw, GpuFinishes, Decode, Present, PresentFails, Mark,
                 Describe, surfaceVars, decoderVars
  <2>12. CASE UNCHANGED vars
    BY <2>12 DEF vars, surfaceVars, decoderVars
  <2> QED
    BY <2>1, <2>2, <2>3, <2>4, <2>5, <2>6, <2>7, <2>8, <2>9, <2>10, <2>11,
       <2>12 DEF Next, Decode
<1> QED
  BY <1>1, <1>2, PTL DEF Spec

\* A surface is deleted by the last of those that use it, whichever thread
\* that is, and never before: for any number of textures.
THEOREM SurfaceLivesWhileUsed == Spec => []SurfaceLives
<1>1. CountInv => SurfaceLives
  BY DEF CountInv, SurfaceLives, Count
<1> QED
  BY <1>1, CountInvariant, PTL

-----------------------------------------------------------------------------
(* What the engine is told                                                  *)

\* The callback is there only while the engine has the texture, and one that
\* runs has found a finished picture.
MarkInv ==
    /\ attached \in [Textures -> BOOLEAN]
    /\ shown \in [Textures -> Nat]
    /\ drawing \in [Textures -> Nat]
    /\ previous \in [Textures -> Nat]
    /\ made \in [Textures -> Nat]
    /\ unfinished \in [Textures -> BOOLEAN]
    /\ at \in [Textures -> {"idle", "flushed", "callback"}]
    /\ \A t \in Textures : attached[t] = TRUE => Registered(t)
    /\ MarksReady

\* A Detach that waits for the callback is what makes it inductive.
LEMMA MarkInvariant == Spec => []MarkInv
<1>1. Init => MarkInv
  BY DEF Init, MarkInv, MarksReady, None
<1>2. CountInv /\ MarkInv /\ [Next]_vars => MarkInv'
  <2> SUFFICES ASSUME CountInv, MarkInv, [Next]_vars PROVE MarkInv'
    OBVIOUS
  <2> USE DEF MarkInv, MarksReady, Registered, None
  <2>1. CASE Destroy
    BY <2>1 DEF Destroy, surfaceVars, decoderVars
  <2>2. CASE OpenHandle
    BY <2>2 DEF OpenHandle, surfaceVars, decoderVars
  <2>3. ASSUME NEW t \in Textures, Create(t) \/ CreateFails(t)
        PROVE  MarkInv'
    BY <2>3 DEF CountInv, Create, CreateFails, surfaceVars, decoderVars
  <2>4. ASSUME NEW t \in Textures, Dispose(t) PROVE MarkInv'
    BY <2>4 DEF CountInv, Dispose, surfaceVars, decoderVars
  <2>5. ASSUME NEW t \in Textures, Detach(t) PROVE MarkInv'
    BY <2>5 DEF CountInv, Detach, decoderVars
  <2>6. ASSUME NEW t \in Textures, OpenDecoder(t) \/ CloseDecoder(t)
        PROVE  MarkInv'
    BY <2>6 DEF OpenDecoder, CloseDecoder, surfaceVars
  <2>7. ASSUME NEW t \in Textures, ReleaseDecoder(t) PROVE MarkInv'
    BY <2>7 DEF ReleaseDecoder, Release
  <2>8. ASSUME NEW t \in Textures, LetGo(t) PROVE MarkInv'
    BY <2>8 DEF CountInv, LetGo, Release, decoderVars
  <2>9. ASSUME NEW t \in Textures, Draw(t) PROVE MarkInv'
    <3>1. made' \in [Textures -> Nat] /\ drawing' \in [Textures -> Nat]
      BY <2>9 DEF Draw
    <3> QED
      BY <2>9, <3>1 DEF Draw
  <2>10. ASSUME NEW t \in Textures, GpuFinishes(t) PROVE MarkInv'
    BY <2>10 DEF GpuFinishes, decoderVars
  <2>11. ASSUME NEW t \in Textures, Present(t) PROVE MarkInv'
    BY <2>11 DEF Present
  <2>12. ASSUME NEW t \in Textures, PresentFails(t) \/ Mark(t)
         PROVE  MarkInv'
    BY <2>12 DEF PresentFails, Mark, surfaceVars
  <2>13. ASSUME NEW t \in Textures, Describe(t) PROVE MarkInv'
    BY <2>13 DEF Describe, surfaceVars, decoderVars
  <2>14. CASE UNCHANGED vars
    BY <2>14 DEF vars, surfaceVars, decoderVars
  <2> QED
    BY <2>1, <2>2, <2>3, <2>4, <2>5, <2>6, <2>7, <2>8, <2>9, <2>10, <2>11,
       <2>12, <2>13, <2>14 DEF Next
<1> QED
  BY <1>1, <1>2, CountInvariant, PTL DEF Spec

\* The engine is told of a frame only under an id it has and when the picture
\* it will be given is finished: for any number of textures and resizes.
THEOREM MarksAreReady == Spec => []MarksReady
<1>1. MarkInv => MarksReady
  BY DEF MarkInv
<1> QED
  BY <1>1, MarkInvariant, PTL

-----------------------------------------------------------------------------
(* What the engine opens                                                    *)

\* The handle is the picture shown when the engine asked, and still kept back
\* once another has been shown since.
HandedInv ==
    /\ raster \in Textures \union {NoTexture}
    /\ lag \in 0..2
    /\ raster # NoTexture =>
          /\ Exists(raster)
          /\ lag = 0 => handle = shown[raster]
          /\ lag = 1 => handle \in {shown[raster], previous[raster]}

\* One texture kept back is enough for one picture shown in the meantime.
LEMMA HandedInvariant == Spec => []HandedInv
<1>1. Init => HandedInv
  BY DEF Init, HandedInv
<1>2. CountInv /\ MarkInv /\ HandedInv /\ [Next]_vars => HandedInv'
  <2> SUFFICES ASSUME CountInv, MarkInv, HandedInv, [Next]_vars
               PROVE  HandedInv'
    OBVIOUS
  <2> USE TexturesAssumption DEF HandedInv, Exists, Registered
  <2>1. CASE Destroy
    BY <2>1 DEF Destroy, surfaceVars, rasterVars
  <2>2. CASE OpenHandle
    BY <2>2 DEF OpenHandle
  <2>3. ASSUME NEW t \in Textures, Create(t) \/ CreateFails(t)
        PROVE  HandedInv'
    BY <2>3 DEF CountInv, Create, CreateFails, surfaceVars, rasterVars
  <2>4. ASSUME NEW t \in Textures, Dispose(t) PROVE HandedInv'
    BY <2>4 DEF CountInv, Dispose, surfaceVars, rasterVars
  <2>5. ASSUME NEW t \in Textures, Detach(t) PROVE HandedInv'
    BY <2>5 DEF CountInv, Detach, rasterVars
  <2>6. ASSUME NEW t \in Textures, OpenDecoder(t) \/ CloseDecoder(t)
        PROVE  HandedInv'
    BY <2>6 DEF OpenDecoder, CloseDecoder, surfaceVars, rasterVars
  <2>7. ASSUME NEW t \in Textures, ReleaseDecoder(t) PROVE HandedInv'
    <3>1. Exists(t) => refs[t] # 1
      BY <2>7 DEF ReleaseDecoder, CountInv, Count, Drawing
    <3> QED
      BY <2>7, <3>1 DEF ReleaseDecoder, Release, MarkInv, rasterVars
  <2>8. ASSUME NEW t \in Textures, LetGo(t) PROVE HandedInv'
    BY <2>8 DEF LetGo, Release, CountInv, MarkInv, rasterVars
  <2>9. ASSUME NEW t \in Textures,
               Draw(t) \/ GpuFinishes(t) \/ PresentFails(t) \/ Mark(t)
        PROVE  HandedInv'
    BY <2>9 DEF Draw, GpuFinishes, PresentFails, Mark, surfaceVars,
                rasterVars
  <2>10. ASSUME NEW t \in Textures, Present(t) PROVE HandedInv'
    <3>1. CASE raster = t
      <4>1. lag' \in 1..2 /\ (lag' = 1 => lag = 0)
        BY <2>10, <3>1 DEF Present
      <4>2. lag = 0 => handle \in {shown'[t], previous'[t]}
        BY <2>10, <3>1 DEF Present, MarkInv
      <4> QED
        BY <2>10, <3>1, <4>1, <4>2 DEF Present
    <3>2. CASE raster # t
      BY <2>10, <3>2 DEF Present, MarkInv
    <3> QED
      BY <3>1, <3>2
  <2>11. ASSUME NEW t \in Textures, Describe(t) PROVE HandedInv'
    BY <2>11 DEF Describe, surfaceVars
  <2>12. CASE UNCHANGED vars
    BY <2>12 DEF vars, surfaceVars, rasterVars
  <2> QED
    BY <2>1, <2>2, <2>3, <2>4, <2>5, <2>6, <2>7, <2>8, <2>9, <2>10, <2>11,
       <2>12 DEF Next
<1> QED
  BY <1>1, <1>2, CountInvariant, MarkInvariant, PTL DEF Spec

\* The decode thread shows as many pictures as it likes while the engine opens
\* a handle: the surface outlives the open, and the texture behind the handle
\* the first of those pictures.  For any number of textures, of resizes and of
\* decoders that close in the meantime.
THEOREM HandedStaysLive == Spec => []HandedIsLive
<1>1. CountInv /\ HandedInv => HandedIsLive
  BY DEF CountInv, Count, HandedInv, HandedIsLive, Live
<1> QED
  BY <1>1, CountInvariant, HandedInvariant, PTL

-----------------------------------------------------------------------------
(* The contract                                                             *)

\* Every step of the bridge, of a decode thread or of the engine is a step of
\* the close contract for the texture it is about, or leaves that alone.
THEOREM TextureKeepsContract == Spec => Contract!Spec
<1>1. Watched \in Textures
  BY TexturesAssumption DEF Watched
<1>2. Init => Contract!Init
  BY <1>1 DEF Init, Contract!Init, Exists, Registered
<1>3. CountInv /\ MarkInv /\ [Next]_vars
         => [Contract!Next]_(Contract!vars)
  <2> SUFFICES ASSUME CountInv, MarkInv, [Next]_vars
               PROVE  \/ Contract!Next
                      \/ UNCHANGED Contract!vars
                      \/ UNCHANGED <<bridge[Watched],
                                     at[Watched] = "callback">>
    BY DEF Contract!vars, Exists, Registered
  <2> USE <1>1 DEF Exists, Registered
  <2>1. CASE Destroy \/ OpenHandle
    BY <2>1 DEF Destroy, OpenHandle, decoderVars
  <2>2. ASSUME NEW t \in Textures,
               CreateFails(t) \/ Dispose(t) \/ Detach(t) \/ LetGo(t)
               \/ Create(t)
        PROVE  \/ Contract!Next
               \/ UNCHANGED Contract!vars
               \/ UNCHANGED <<bridge[Watched], at[Watched] = "callback">>
    <3>1. UNCHANGED at
      BY <2>2 DEF Create, CreateFails, Dispose, Detach, LetGo, decoderVars
    <3>2. CASE t # Watched
      <4>1. UNCHANGED bridge[Watched]
        BY <2>2, <3>2 DEF CountInv, Create, CreateFails, Dispose, Detach,
                          LetGo
      <4> QED
        BY <3>1, <4>1
    <3>3. CASE t = Watched /\ Create(t)
      BY <3>1, <3>3 DEF CountInv, Create, Contract!Next, Contract!Open
    <3>4. CASE t = Watched /\ CreateFails(t)
      BY <3>1, <3>4 DEF CountInv, CreateFails, Contract!Next, Contract!vars
    <3>5. CASE t = Watched /\ Dispose(t)
      BY <3>1, <3>5 DEF CountInv, Dispose, Contract!Next, Contract!Close
    <3>6. CASE t = Watched /\ Detach(t)
      BY <3>1, <3>6 DEF CountInv, Detach, Contract!Next, Contract!Answer
    <3>7. CASE t = Watched /\ LetGo(t)
      BY <3>1, <3>7 DEF CountInv, MarkInv, MarksReady, LetGo,
                        Contract!Next, Contract!Free
    <3> QED
      BY <2>2, <3>2, <3>3, <3>4, <3>5, <3>6, <3>7
  <2>3. ASSUME NEW t \in Textures,
               \/ OpenDecoder(t) \/ CloseDecoder(t) \/ ReleaseDecoder(t)
               \/ Draw(t) \/ PresentFails(t) \/ GpuFinishes(t)
               \/ Describe(t)
        PROVE  UNCHANGED <<bridge[Watched], at[Watched] = "callback">>
    BY <2>3 DEF MarkInv, OpenDecoder, CloseDecoder, ReleaseDecoder, Draw,
                PresentFails, GpuFinishes, Describe, decoderVars
  <2>4. ASSUME NEW t \in Textures, Present(t)
        PROVE  \/ Contract!Next
               \/ UNCHANGED <<bridge[Watched], at[Watched] = "callback">>
    <3>1. CASE t = Watched /\ attached[t] = TRUE
      BY <2>4, <3>1 DEF MarkInv, Present, Contract!Next, Contract!Enter
    <3>2. CASE t # Watched \/ attached[t] = FALSE
      BY <2>4, <3>2 DEF MarkInv, Present
    <3>3. attached[t] = TRUE \/ attached[t] = FALSE
      BY DEF MarkInv
    <3> QED
      BY <3>1, <3>2, <3>3
  <2>5. ASSUME NEW t \in Textures, Mark(t)
        PROVE  \/ Contract!Next
               \/ UNCHANGED <<bridge[Watched], at[Watched] = "callback">>
    BY <2>5 DEF MarkInv, Mark, Contract!Next, Contract!Leave
  <2>6. CASE UNCHANGED vars
    BY <2>6 DEF vars, decoderVars
  <2> QED
    BY <2>1, <2>2, <2>3, <2>4, <2>5, <2>6 DEF Next
<1> QED
  BY <1>2, <1>3, CountInvariant, MarkInvariant, PTL DEF Spec, Contract!Spec

-----------------------------------------------------------------------------
(* Types                                                                    *)

\* Every texture stays within what it may be, however many there are: no more
\* than two hold its surface, and it draws, shows, keeps back and hands over
\* only what it made.
THEOREM TypeCorrect == Spec => []TypeOK
<1> USE SizesAssumption DEF None
<1>1. Init => TypeOK
  <2> SUFFICES ASSUME Init PROVE TypeOK
    OBVIOUS
  <2>1. 0 \in 0..MaxSizes /\ 0 \in 0..2
    OBVIOUS
  <2>2. /\ refs \in [Textures -> 0..2] /\ drawing \in [Textures -> 0..MaxSizes]
        /\ shown \in [Textures -> 0..MaxSizes]
        /\ previous \in [Textures -> 0..MaxSizes]
        /\ made \in [Textures -> 0..MaxSizes]
        /\ handle \in 0..MaxSizes /\ lag \in 0..2
    BY <2>1 DEF Init
  <2>3. /\ gone \in BOOLEAN /\ attached \in [Textures -> BOOLEAN]
        /\ unfinished \in [Textures -> BOOLEAN]
        /\ at \in [Textures -> {"idle", "flushed", "callback"}]
    BY DEF Init
  <2>4. raster \in Textures \union {NoTexture}
    BY DEF Init
  <2> QED
    BY <2>2, <2>3, <2>4 DEF TypeOK, Init
<1>2. TypeOK /\ CountInv /\ CountInv' /\ [Next]_vars => TypeOK'
  <2> SUFFICES ASSUME TypeOK, CountInv, CountInv', [Next]_vars PROVE TypeOK'
    OBVIOUS
  <2>0. refs' \in [Textures -> 0..2]
    <3>1. \A t \in Textures : Count(t)' \in 0..2
      BY DEF Count
    <3> QED
      BY <3>1 DEF CountInv
  <2> USE <2>0 DEF TypeOK
  <2>1. CASE Destroy
    BY <2>1 DEF Destroy, surfaceVars, decoderVars, rasterVars
  <2>2. CASE OpenHandle
    BY <2>2 DEF OpenHandle, surfaceVars, decoderVars
  <2>3. ASSUME NEW t \in Textures, Create(t) PROVE TypeOK'
    BY <2>3 DEF Create, decoderVars, rasterVars
  <2>4. ASSUME NEW t \in Textures, CreateFails(t) \/ Dispose(t) PROVE TypeOK'
    BY <2>4 DEF CreateFails, Dispose, surfaceVars, decoderVars, rasterVars
  <2>5. ASSUME NEW t \in Textures, Detach(t) PROVE TypeOK'
    BY <2>5 DEF Detach, decoderVars, rasterVars
  <2>6. ASSUME NEW t \in Textures, OpenDecoder(t) \/ CloseDecoder(t)
        PROVE  TypeOK'
    BY <2>6 DEF OpenDecoder, CloseDecoder, surfaceVars, rasterVars
  <2>7. ASSUME NEW t \in Textures, ReleaseDecoder(t) PROVE TypeOK'
    BY <2>7 DEF ReleaseDecoder, Release, rasterVars
  <2>8. ASSUME NEW t \in Textures, LetGo(t) PROVE TypeOK'
    BY <2>8 DEF LetGo, Release, decoderVars, rasterVars
  <2>9. ASSUME NEW t \in Textures, Draw(t) PROVE TypeOK'
    <3>1. made' \in [Textures -> 0..MaxSizes]
          /\ drawing' \in [Textures -> 0..MaxSizes]
      BY <2>9 DEF Draw
    <3> QED
      BY <2>9, <3>1 DEF Draw, rasterVars
  <2>10. ASSUME NEW t \in Textures, GpuFinishes(t) PROVE TypeOK'
    BY <2>10 DEF GpuFinishes, decoderVars, rasterVars
  <2>11. ASSUME NEW t \in Textures, Present(t) PROVE TypeOK'
    <3>1. lag' \in 0..2
      BY <2>11 DEF Present
    <3> QED
      BY <2>11, <3>1 DEF Present
  <2>12. ASSUME NEW t \in Textures, PresentFails(t) \/ Mark(t)
         PROVE  TypeOK'
    BY <2>12 DEF PresentFails, Mark, surfaceVars, rasterVars
  <2>13. ASSUME NEW t \in Textures, Describe(t) PROVE TypeOK'
    BY <2>13 DEF Describe, surfaceVars, decoderVars
  <2>14. CASE UNCHANGED vars
    BY <2>14 DEF vars, surfaceVars, decoderVars, rasterVars
  <2> QED
    BY <2>1, <2>2, <2>3, <2>4, <2>5, <2>6, <2>7, <2>8, <2>9, <2>10, <2>11,
       <2>12, <2>13, <2>14 DEF Next
<1> QED
  BY <1>1, <1>2, CountInvariant, PTL DEF Spec

=============================================================================
