---------------------------- MODULE BridgeProofs ----------------------------
(***************************************************************************)
(* Proofs about the two native parts that one thread drives and whose      *)
(* state is a handful of fields: NativeAudio, for any outputs,             *)
(* applications and levels, and SocialSdk, for any number of chains.  The  *)
(* two share no name; what both have is called Bridge... in SocialSdk.     *)
(***************************************************************************)
EXTENDS NativeAudio, SocialSdk, TLAPS

-----------------------------------------------------------------------------
(* Levels                                                                   *)

\* An attenuation holds the level its application had from the user, unless an
\* earlier restore missed that, and holds none outside a burst.
LevelInv ==
    /\ volume \in [Apps -> Int]
    /\ own \in [Apps -> UserLevels]
    /\ held \in [Apps -> Int]
    /\ \A a \in Apps : held[a] = -1 /\ a \notin missed => volume[a] = own[a]
    /\ \A a \in Apps : held[a] # -1 /\ a \notin missed => held[a] = own[a]
    /\ active \in BOOLEAN
    /\ active = FALSE => \A a \in Apps : held[a] = -1

\* Restoring leaves the whole of a level.
LEMMA WholeShare ==
  ASSUME NEW x \in Int PROVE (x * Full) \div Full = x
BY AudioAssumption

LEMMA LevelInvariant == Spec => []LevelInv
<1>1. Init => LevelInv
  <2> SUFFICES ASSUME Init PROVE LevelInv
    OBVIOUS
  <2>1. volume \in [Apps -> Int] /\ own \in [Apps -> UserLevels]
    <3>1. UserLevels \subseteq Int
      BY AudioAssumption
    <3> QED
      BY <3>1 DEF Init
  <2>2. held \in [Apps -> Int] /\ \A a \in Apps : held[a] = -1
    BY DEF Init
  <2>3. volume = own /\ active = FALSE /\ missed = {}
    BY DEF Init
  <2> QED
    BY <2>1, <2>2, <2>3 DEF LevelInv
<1>2. LevelInv /\ [Next]_vars => LevelInv'
  <2> SUFFICES ASSUME LevelInv, [Next]_vars PROVE LevelInv'
    OBVIOUS
  <2> USE AudioAssumption DEF LevelInv
  <2>1. ASSUME NEW share \in 0..Full, AttenuateOthers(share)
        PROVE  LevelInv'
    <3>0. PICK written \in SUBSET Apps :
                 volume' = Attenuated(held', share, written)
      BY <2>1 DEF AttenuateOthers
    <3>1. volume' \in [Apps -> Int]
      <4>1. held' \in [Apps -> Int]
        BY <2>1 DEF AttenuateOthers, CollectSessionVolumes
      <4> QED
        BY <3>0, <4>1 DEF Attenuated
    <3>2. CASE active = TRUE
      BY <2>1, <3>0, <3>1, <3>2 DEF AttenuateOthers, Attenuated
    <3>3. CASE active = FALSE
      <4>1. PICK sessions \in SUBSET playing :
                     held' = CollectSessionVolumes(sessions)
        BY <2>1, <3>3 DEF AttenuateOthers
      <4>2. \A a \in Apps : held'[a] = -1 \/ held'[a] = volume[a]
        BY <4>1 DEF CollectSessionVolumes
      <4>3. \A a \in Apps : held'[a] = -1 => volume'[a] = volume[a]
        BY <3>0 DEF Attenuated
      <4>4. held' \in [Apps -> Int]
        BY <4>1 DEF CollectSessionVolumes
      <4>5. own' = own /\ missed' = missed /\ active' = TRUE
        BY <2>1 DEF AttenuateOthers
      <4> QED
        BY <3>1, <3>3, <4>2, <4>3, <4>4, <4>5
    <3> QED
      BY <3>2, <3>3
  <2>2. CASE RestoreOthers
    <3>1. PICK written \in SUBSET Apps :
             /\ volume' = Attenuated(held, Full, written)
             /\ missed' = missed \union
                             {a \in Apps \ written : held[a] # -1}
      BY <2>2 DEF RestoreOthers
    <3>2. \A a \in Apps : held[a] # -1 => (held[a] * Full) \div Full = held[a]
      BY WholeShare
    <3>3. \A a \in Apps : volume'[a] = IF held[a] = -1 \/ a \notin written
                                       THEN volume[a] ELSE held[a]
      BY <3>1, <3>2 DEF Attenuated
    <3>4. volume' \in [Apps -> Int]
      BY <3>1, <3>3 DEF Attenuated
    <3>5. held' \in [Apps -> Int] /\ \A a \in Apps : held'[a] = -1
      BY <2>2 DEF RestoreOthers
    <3>6. own' = own /\ active' = FALSE
      BY <2>2 DEF RestoreOthers
    <3>7. \A a \in Apps : a \notin missed' => volume'[a] = own[a]
      BY <3>1, <3>3
    <3> QED
      BY <3>4, <3>5, <3>6, <3>7
  <2>3. ASSUME NEW a \in Apps, SessionStarts(a) PROVE LevelInv'
    BY <2>3 DEF SessionStarts
  <2>4. ASSUME NEW a \in Apps, NEW level \in UserLevels, UserSets(a, level)
        PROVE  LevelInv'
    BY <2>4 DEF UserSets
  <2>5. ASSUME UNCHANGED levelVars PROVE LevelInv'
    BY <2>5 DEF levelVars
  <2>6. CASE Capture \/ Echo \/ UNCHANGED vars
    BY <2>5, <2>6 DEF Capture, Echo, vars, OpenCapture, CaptureLoop, Pump,
       CallbackReturns, OpenReturns, CloseCapture, JoinAndDelete,
       CloseReturns, OpenMicEnhancer, EnhanceFrame, EnhanceFrameFails,
       CloseMicEnhancer, SecondPasses, LoopBack, Unplug, Plug, MoveDefault
  <2> QED
    BY <2>1, <2>2, <2>3, <2>4, <2>6 DEF Next, Levels
<1> QED
  BY <1>1, <1>2, PTL DEF Spec

\* Whatever was attenuated, restored and moved, an application nobody
\* attenuates plays at the level of its user: for any applications and levels.
THEOREM LevelsComeBack == Spec => []LevelsReturn
<1>1. LevelInv => LevelsReturn
  BY DEF LevelInv, LevelsReturn
<1> QED
  BY <1>1, LevelInvariant, PTL

-----------------------------------------------------------------------------
(* The speaker line                                                         *)

\* What is in the line came from the loopback, and an enhancer that is not
\* there has neither.
LineInv ==
    /\ present \subseteq Outputs
    /\ default \in Outputs \union {NoOutput}
    /\ loop \in Outputs \union {NoOutput}
    /\ LineIsOfItsOutput
    /\ enhancer = "none" => loop = NoOutput /\ line = {}

LEMMA LineInvariant == Spec => []LineInv
<1>1. Init => LineInv
  BY DEF Init, LineInv, LineIsOfItsOutput
<1>2. LineInv /\ [Next]_vars => LineInv'
  <2> SUFFICES ASSUME LineInv, [Next]_vars PROVE LineInv'
    OBVIOUS
  <2> USE AudioAssumption DEF LineInv, LineIsOfItsOutput
  <2>1. CASE OpenMicEnhancer
    BY <2>1 DEF OpenMicEnhancer
  <2>2. CASE EnhanceFrame
    BY <2>2 DEF EnhanceFrame, FeedSpeakers, PullSpeakers, CanOpenLoopback
  <2>3. CASE EnhanceFrameFails \/ SecondPasses
    BY <2>3 DEF EnhanceFrameFails, SecondPasses
  <2>4. CASE CloseMicEnhancer
    BY <2>4 DEF CloseMicEnhancer, CloseLoopback
  <2>5. ASSUME NEW output \in Outputs \union {FollowDefault},
               LoopBack(output)
        PROVE  LineInv'
    BY <2>5 DEF LoopBack, CloseLoopback
  <2>6. ASSUME NEW output \in Outputs,
               Unplug(output) \/ Plug(output) \/ MoveDefault(output)
        PROVE  LineInv'
    BY <2>6 DEF Unplug, Plug, MoveDefault
  <2>7. ASSUME UNCHANGED echoVars PROVE LineInv'
    BY <2>7 DEF echoVars
  <2>8. CASE Capture \/ Levels \/ UNCHANGED vars
    BY <2>7, <2>8 DEF Capture, Levels, vars, OpenCapture, CaptureLoop, Pump,
       CallbackReturns, OpenReturns, CloseCapture, JoinAndDelete,
       CloseReturns, AttenuateOthers, RestoreOthers, SessionStarts, UserSets
  <2> QED
    BY <2>1, <2>2, <2>3, <2>4, <2>5, <2>6, <2>8 DEF Next, Echo
<1> QED
  BY <1>1, <1>2, PTL DEF Spec

\* Samples of two outputs never meet in the line, whatever is picked,
\* unplugged or made default: for any number of outputs.
THEOREM LineKeepsItsOutput == Spec => []LineIsOfItsOutput
<1>1. LineInv => LineIsOfItsOutput
  BY DEF LineInv
<1> QED
  BY <1>1, LineInvariant, PTL

-----------------------------------------------------------------------------
(* The contract                                                             *)

\* What the caller and the worker know of each other.
CaptureInv ==
    /\ handle \in {"none", "opening", "open", "closing", "closed"}
    /\ worker \in {"none", "opening", "pump", "callback", "exited"}
    /\ running \in BOOLEAN /\ exists \in BOOLEAN
    /\ handle = "none" => worker \in {"none", "exited"} /\ exists = FALSE
    /\ handle = "opening" => worker # "none" /\ running = TRUE /\ exists = TRUE
    /\ handle = "open" =>
          worker \in {"pump", "callback"} /\ running = TRUE /\ exists = TRUE
    /\ handle = "closing" =>
          /\ worker \in {"pump", "callback", "exited"}
          /\ exists = FALSE => worker = "exited"
    /\ handle = "closed" => worker = "exited" /\ exists = FALSE

LEMMA CaptureInvariant == Spec => []CaptureInv
<1>1. Init => CaptureInv
  BY DEF Init, CaptureInv
<1>2. CaptureInv /\ [Next]_vars => CaptureInv'
  <2> SUFFICES ASSUME CaptureInv, [Next]_vars PROVE CaptureInv'
    OBVIOUS
  <2> USE DEF CaptureInv
  <2>1. CASE Capture
    BY <2>1 DEF Capture, OpenCapture, CaptureLoop, Pump, CallbackReturns,
                OpenReturns, CloseCapture, JoinAndDelete, CloseReturns
  <2>2. ASSUME UNCHANGED captureVars PROVE CaptureInv'
    BY <2>2 DEF captureVars
  <2>3. CASE Levels \/ Echo \/ UNCHANGED vars
    BY <2>2, <2>3 DEF Levels, Echo, vars, AttenuateOthers, RestoreOthers,
       SessionStarts, UserSets, OpenMicEnhancer, EnhanceFrame,
       EnhanceFrameFails, CloseMicEnhancer, SecondPasses, LoopBack, Unplug,
       Plug, MoveDefault
  <2> QED
    BY <2>1, <2>3 DEF Next
<1> QED
  BY <1>1, <1>2, PTL DEF Spec

\* Every step of the capture is a step of the close contract or leaves what
\* the contract speaks of as it was.
THEOREM CaptureKeepsContract == Spec => Contract!Spec
<1>1. Init => Contract!Init
  BY DEF Init, Contract!Init, ContractHandle
<1>2. CaptureInv /\ [Next]_vars => [Contract!Next]_(Contract!vars)
  <2> SUFFICES ASSUME CaptureInv, [Next]_vars
               PROVE  Contract!Next \/ UNCHANGED Contract!vars
    OBVIOUS
  <2> USE DEF CaptureInv, ContractHandle
  <2>1. CASE OpenCapture
    BY <2>1 DEF OpenCapture, Contract!vars
  <2>2. CASE CaptureLoop
    BY <2>2 DEF CaptureLoop, Contract!vars, Contract!Next, Contract!Open
  <2>3. CASE Pump
    BY <2>3 DEF Pump, Contract!vars, Contract!Next, Contract!Enter
  <2>4. CASE CallbackReturns
    BY <2>4 DEF CallbackReturns, Contract!vars, Contract!Next,
                Contract!Leave
  <2>5. CASE OpenReturns
    BY <2>5 DEF OpenReturns, Contract!vars
  <2>6. CASE CloseCapture
    BY <2>6 DEF CloseCapture, Contract!Next, Contract!Close
  <2>7. CASE JoinAndDelete
    BY <2>7 DEF JoinAndDelete, Contract!Next, Contract!Free
  <2>8. CASE CloseReturns
    BY <2>8 DEF CloseReturns, Contract!Next, Contract!Answer
  <2>9. ASSUME UNCHANGED captureVars PROVE UNCHANGED Contract!vars
    BY <2>9 DEF captureVars, Contract!vars
  <2>10. CASE Levels \/ Echo \/ UNCHANGED vars
    BY <2>9, <2>10 DEF Levels, Echo, vars, AttenuateOthers, RestoreOthers,
       SessionStarts, UserSets, OpenMicEnhancer, EnhanceFrame,
       EnhanceFrameFails, CloseMicEnhancer, SecondPasses, LoopBack, Unplug,
       Plug, MoveDefault
  <2> QED
    BY <2>1, <2>2, <2>3, <2>4, <2>5, <2>6, <2>7, <2>8, <2>10
       DEF Next, Capture
<1> QED
  BY <1>1, <1>2, CaptureInvariant, PTL DEF Spec, Contract!Spec

-----------------------------------------------------------------------------
(* The types of the native audio module                                     *)

\* A share of a level is a level.
LEMMA ShareIsLevel ==
  ASSUME NEW x \in 0..Full, NEW share \in 0..Full
  PROVE  (x * share) \div Full \in 0..Full
<1> DEFINE q == (x * share) \div Full
<1>1. Full \in Nat /\ Full > 0
  BY AudioAssumption
<1>2. x * share \in Nat /\ x * share <= Full * Full
  BY <1>1
<1>3. q \in Int /\ q >= 0 /\ Full * q <= x * share
  BY <1>1, <1>2
<1>4. ~(q > Full)
  <2> SUFFICES ASSUME q >= Full + 1 PROVE FALSE
    BY <1>1, <1>3
  <2>1. Full * q >= Full * (Full + 1)
    BY <1>1, <1>3
  <2>2. Full * (Full + 1) > Full * Full
    BY <1>1
  <2> QED
    BY <1>1, <1>2, <1>3, <2>1, <2>2
<1> QED
  BY <1>1, <1>3, <1>4

CaptureOK ==
    /\ handle \in {"none", "opening", "open", "closing", "closed"}
    /\ worker \in {"none", "opening", "pump", "callback", "exited"}
    /\ {running, exists, excludes} \subseteq BOOLEAN

LevelsOK ==
    /\ active \in BOOLEAN
    /\ playing \subseteq Apps
    /\ volume \in [Apps -> 0..Full]
    /\ own \in [Apps -> 0..Full]
    /\ held \in [Apps -> -1..Full]
    /\ missed \subseteq Apps

EchoOK ==
    /\ due \in BOOLEAN
    /\ present \subseteq Outputs
    /\ default \in present \union {NoOutput}
    /\ picked \in Outputs \union {FollowDefault}
    /\ enhancer \in {"none", "echo", "gain", "failed"}
    /\ loop \in Outputs \union {NoOutput}
    /\ line \subseteq Outputs

LEMMA CaptureTypes == CaptureOK /\ [Next]_vars => CaptureOK'
<1> SUFFICES ASSUME CaptureOK, [Next]_vars PROVE CaptureOK'
  OBVIOUS
<1> USE DEF CaptureOK
<1>1. CASE Capture
  BY <1>1 DEF Capture, OpenCapture, CaptureLoop, OpenProcessLoopback,
     OpenDeviceLoopback, Pump, CallbackReturns, OpenReturns, CloseCapture,
     JoinAndDelete, CloseReturns
<1>2. ASSUME UNCHANGED captureVars PROVE CaptureOK'
  BY <1>2 DEF captureVars
<1>3. CASE Levels \/ Echo \/ UNCHANGED vars
  BY <1>2, <1>3 DEF Levels, Echo, vars, AttenuateOthers, RestoreOthers,
     SessionStarts, UserSets, OpenMicEnhancer, EnhanceFrame,
     EnhanceFrameFails, CloseMicEnhancer, SecondPasses, LoopBack, Unplug,
     Plug, MoveDefault
<1> QED
  BY <1>1, <1>3 DEF Next

LEMMA LevelTypes == LevelsOK /\ [Next]_vars => LevelsOK'
<1> SUFFICES ASSUME LevelsOK, [Next]_vars PROVE LevelsOK'
  OBVIOUS
<1> USE DEF LevelsOK
<1>1. ASSUME NEW before \in [Apps -> -1..Full], NEW share \in 0..Full,
             NEW written
      PROVE  Attenuated(before, share, written) \in [Apps -> 0..Full]
  <2> SUFFICES ASSUME NEW a \in Apps
               PROVE  (IF before[a] = -1 \/ a \notin written THEN volume[a]
                       ELSE (before[a] * share) \div Full) \in 0..Full
    BY DEF Attenuated
  <2>1. CASE before[a] = -1 \/ a \notin written
    BY <2>1
  <2>2. CASE before[a] # -1 /\ a \in written
    <3>1. before[a] \in 0..Full
      BY <2>2, AudioAssumption
    <3> QED
      BY <2>2, <3>1, ShareIsLevel
  <2> QED
    BY <2>1, <2>2
<1>2. ASSUME NEW share \in 0..Full, AttenuateOthers(share) PROVE LevelsOK'
  <2>1. held' \in [Apps -> -1..Full]
    <3>1. ASSUME NEW sessions \in SUBSET playing
          PROVE  CollectSessionVolumes(sessions) \in [Apps -> -1..Full]
      BY AudioAssumption DEF CollectSessionVolumes
    <3> QED
      BY <1>2, <3>1 DEF AttenuateOthers
  <2>2. volume' \in [Apps -> 0..Full]
    BY <1>1, <1>2, <2>1 DEF AttenuateOthers
  <2> QED
    BY <1>2, <2>1, <2>2 DEF AttenuateOthers
<1>3. CASE RestoreOthers
  <2>1. Full \in 0..Full /\ -1 \in -1..Full
    BY AudioAssumption
  <2>2. volume' \in [Apps -> 0..Full]
    BY <1>1, <1>3, <2>1 DEF RestoreOthers
  <2>3. held' \in [Apps -> -1..Full]
    BY <1>3, <2>1 DEF RestoreOthers
  <2> QED
    BY <1>3, <2>2, <2>3 DEF RestoreOthers
<1>4. ASSUME NEW a \in Apps, SessionStarts(a) PROVE LevelsOK'
  BY <1>4 DEF SessionStarts
<1>5. ASSUME NEW a \in Apps, NEW level \in UserLevels, UserSets(a, level)
      PROVE  LevelsOK'
  <2>1. level \in 0..Full
    BY AudioAssumption
  <2> QED
    BY <1>5, <2>1 DEF UserSets
<1>6. ASSUME UNCHANGED levelVars PROVE LevelsOK'
  BY <1>6 DEF levelVars
<1>7. CASE Capture \/ Echo \/ UNCHANGED vars
  BY <1>6, <1>7 DEF Capture, Echo, vars, OpenCapture, CaptureLoop, Pump,
     CallbackReturns, OpenReturns, CloseCapture, JoinAndDelete,
     CloseReturns, OpenMicEnhancer, EnhanceFrame, EnhanceFrameFails,
     CloseMicEnhancer, SecondPasses, LoopBack, Unplug, Plug, MoveDefault
<1> QED
  BY <1>2, <1>3, <1>4, <1>5, <1>7 DEF Next, Levels

LEMMA EchoTypes == EchoOK /\ [Next]_vars => EchoOK'
<1> SUFFICES ASSUME EchoOK, [Next]_vars PROVE EchoOK'
  OBVIOUS
<1> USE DEF EchoOK
<1>1. CASE OpenMicEnhancer
  BY <1>1 DEF OpenMicEnhancer
<1>2. CASE EnhanceFrame
  BY <1>2 DEF EnhanceFrame, FeedSpeakers, PullSpeakers, CanOpenLoopback
<1>3. CASE EnhanceFrameFails \/ SecondPasses
  BY <1>3 DEF EnhanceFrameFails, SecondPasses
<1>4. CASE CloseMicEnhancer
  BY <1>4 DEF CloseMicEnhancer, CloseLoopback
<1>5. ASSUME NEW output \in Outputs \union {FollowDefault}, LoopBack(output)
      PROVE  EchoOK'
  BY <1>5 DEF LoopBack, CloseLoopback
<1>6. ASSUME NEW output \in Outputs,
             Unplug(output) \/ Plug(output) \/ MoveDefault(output)
      PROVE  EchoOK'
  BY <1>6 DEF Unplug, Plug, MoveDefault
<1>7. ASSUME UNCHANGED echoVars PROVE EchoOK'
  BY <1>7 DEF echoVars
<1>8. CASE Capture \/ Levels \/ UNCHANGED vars
  BY <1>7, <1>8 DEF Capture, Levels, vars, OpenCapture, CaptureLoop, Pump,
     CallbackReturns, OpenReturns, CloseCapture, JoinAndDelete,
     CloseReturns, AttenuateOthers, RestoreOthers, SessionStarts, UserSets
<1> QED
  BY <1>1, <1>2, <1>3, <1>4, <1>5, <1>6, <1>8 DEF Next, Echo

\* Every reachable state of the audio module is well typed, for any outputs,
\* applications and levels: in particular no attenuation takes a level out of
\* its range, and the default is always an endpoint that is plugged in.
THEOREM TypeCorrect == Spec => []TypeOK
<1>1. Init => CaptureOK /\ LevelsOK /\ EchoOK
  <2> SUFFICES ASSUME Init PROVE CaptureOK /\ LevelsOK /\ EchoOK
    OBVIOUS
  <2>1. LevelsOK
    <3>1. own \in [Apps -> UserLevels] /\ volume = own
      BY DEF Init
    <3>2. own \in [Apps -> 0..Full]
      BY <3>1, AudioAssumption
    <3>3. held \in [Apps -> -1..Full]
      BY AudioAssumption DEF Init
    <3> QED
      BY <3>1, <3>2, <3>3 DEF Init, LevelsOK
  <2> QED
    BY <2>1 DEF Init, CaptureOK, EchoOK
<1>2. CaptureOK /\ LevelsOK /\ EchoOK => TypeOK
  BY DEF CaptureOK, LevelsOK, EchoOK, TypeOK
<1> QED
  BY <1>1, <1>2, CaptureTypes, LevelTypes, EchoTypes, PTL DEF Spec

-----------------------------------------------------------------------------
(* The bridge to the Social SDK                                             *)

\* A request is out for started chains only, so that a new one takes nobody's
\* place.
ChainInv ==
    /\ chains \in 0..MaxChains
    /\ at \in [1..MaxChains -> Requests \union {"none", "done"}]
    /\ \A n \in 1..MaxChains : n > chains => at[n] = "none"
    /\ BusyIsHonest

\* An answer moves its own chain on.  Only the end of a creation takes a chain
\* out of create and presence, and it clears session_starting_ too.
LEMMA ChainsGoOn ==
  ChainInv /\ [BridgeNext]_bridgeVars => ChainInv'
<1> SUFFICES ASSUME ChainInv, [BridgeNext]_bridgeVars PROVE ChainInv'
  OBVIOUS
<1> USE ChainsAssumption DEF ChainInv, BusyIsHonest, Chains
<1>1. ASSUME NEW request \in Requests, Ask(request),
             starting' = starting \/ request = "create"
      PROVE  ChainInv'
  <2>1. /\ chains + 1 \in 1..MaxChains /\ chains' = chains + 1
        /\ at' = [at EXCEPT ![chains + 1] = request]
    BY <1>1 DEF Ask
  <2>2. \A n \in 1..MaxChains : n # chains + 1 => at'[n] = at[n]
    BY <2>1
  <2>3. at'[chains + 1] = request /\ at[chains + 1] = "none"
    BY <2>1
  <2>4. at' \in [1..MaxChains -> Requests \union {"none", "done"}]
    BY <2>1
  <2>5. starting' => \E n \in 1..MaxChains : at'[n] \in {"create", "presence"}
    <3>1. CASE request = "create"
      BY <2>1, <2>3, <3>1
    <3>2. CASE starting' = starting
      <4> SUFFICES ASSUME starting'
                   PROVE  \E n \in 1..MaxChains :
                              at'[n] \in {"create", "presence"}
        OBVIOUS
      <4>1. PICK n \in 1..MaxChains : at[n] \in {"create", "presence"}
        BY <3>2
      <4> QED
        BY <2>2, <2>3, <4>1
    <3> QED
      BY <1>1, <3>1, <3>2
  <2> QED
    BY <2>1, <2>2, <2>4, <2>5
<1>2. ASSUME NEW n \in 1..MaxChains,
             NEW request \in Requests \union {"done"},
             at[n] # "none", chains' = chains, Goes(n, request),
             \/ starting' = FALSE
             \/ starting' = starting /\ at[n] \notin {"create", "presence"}
             \/ starting' = starting /\ request = "presence"
      PROVE  ChainInv'
  <2>1. at' = [at EXCEPT ![n] = request]
    BY <1>2 DEF Goes
  <2>2. at'[n] = request /\ \A m \in 1..MaxChains : m # n => at'[m] = at[m]
    BY <2>1
  <2>3. at' \in [1..MaxChains -> Requests \union {"none", "done"}]
    BY <2>1
  <2>4. starting' => \E m \in 1..MaxChains : at'[m] \in {"create", "presence"}
    BY <1>2, <2>2
  <2> QED
    BY <1>2, <2>2, <2>3, <2>4
<1>3. ASSUME chains' = chains, at' = at,
             starting' = FALSE \/ starting' = starting
      PROVE  ChainInv'
  BY <1>3
<1> USE DEF activityVars, sdkVars, authVars, Requests
<1>4. CASE Authorize
  BY <1>1, <1>4 DEF Authorize, StartAuthentication
<1>5. CASE RestoreSession
  BY <1>1, <1>5 DEF RestoreSession, StartAuthentication
<1>6. CASE RefreshExpiringToken
  BY <1>1, <1>3, <1>6
     DEF RefreshExpiringToken, NotifyAuthenticationExpired,
         ResetSession
<1>7. CASE SendInvite
  BY <1>1, <1>7 DEF SendInvite
<1>8. CASE AcceptInvite \/ Leave
  BY <1>1, <1>8 DEF AcceptInvite, Leave
<1>9. CASE AskChat \/ AskRelationship
  BY <1>1, <1>9 DEF AskChat, AskRelationship, Relay
<1>10. CASE StatusReady \/ StatusDisconnected \/ StartCall
  BY <1>3, <1>10
     DEF StatusReady, StatusDisconnected, StartCall
<1>11. CASE Disconnect
  BY <1>3, <1>11 DEF Disconnect, ResetSession
<1>12. ASSUME NEW n \in 1..MaxChains, SdkAnswers(n) PROVE ChainInv'
  <2>1. CASE AuthorizeAnswer(n)
    BY <1>2, <2>1 DEF AuthorizeAnswer
  <2>2. CASE HandleTokenExchange(n)
    BY <1>2, <2>2 DEF HandleTokenExchange, ResetSession,
       NotifyAuthenticationExpired, Background
  <2>3. CASE UpdateAnswer(n)
    BY <1>2, <2>3 DEF UpdateAnswer, ResetSession,
       NotifyAuthenticationExpired, Background
  <2>4. CASE CreateAnswer(n)
    BY <1>2, <2>4 DEF CreateAnswer
  <2>5. CASE PresenceAnswer(n)
    BY <1>2, <2>5 DEF PresenceAnswer
  <2>6. CASE AcceptAnswer(n)
    BY <1>2, <2>6 DEF AcceptAnswer
  <2>7. CASE LeaveAnswer(n)
    BY <1>2, <2>7 DEF LeaveAnswer
  <2>8. CASE InviteAnswer(n) \/ ChatAnswer(n)
             \/ RelationshipAnswer(n)
    BY <1>2, <2>8 DEF InviteAnswer, ChatAnswer,
       RelationshipAnswer, Answered
  <2> QED
    BY <1>12, <2>1, <2>2, <2>3, <2>4, <2>5, <2>6, <2>7, <2>8
       DEF SdkAnswers
<1>13. CASE UNCHANGED bridgeVars
  BY <1>3, <1>13 DEF bridgeVars
<1> QED
  BY <1>4, <1>5, <1>6, <1>7, <1>8, <1>9, <1>10, <1>11, <1>12, <1>13
     DEF BridgeNext

\* A bridge that refuses invites because a lobby is being created waits for
\* an answer of the SDK, which answers every request: for any number of
\* chains.
THEOREM BusyBridgeIsAnswered == BridgeSpec => []BusyIsHonest
<1>1. BridgeInit => ChainInv
  BY ChainsAssumption
    DEF BridgeInit, ChainInv, BusyIsHonest, Chains, Requests
<1>2. ChainInv => BusyIsHonest
  BY DEF ChainInv
<1> QED
  BY <1>1, <1>2, ChainsGoOn, PTL DEF BridgeSpec

\* What stands for a chain names one that was started, and the method call of
\* an authentication that is not over is one that waits: no other answer can
\* be its own.
SdkFlagsOK ==
    /\ status \in {"offline", "connecting", "ready"}
    /\ {token, grant, refreshing, robbed, signed, starting} \subseteq BOOLEAN

SdkNamesOK ==
    /\ waiting \subseteq 1..chains
    /\ pending \in waiting \union {0}
    /\ pending # 0 =>
           at[pending] \in {"authorize", "token", "refresh", "update", "done"}
    /\ activeLobby \in 0..chains /\ secret \in 0..chains /\ call \in 0..chains
    /\ presence \in [lobby : 0..chains, secret : 0..chains]

LEMMA SdkFlags == SdkFlagsOK /\ [BridgeNext]_bridgeVars => SdkFlagsOK'
<1> SUFFICES ASSUME SdkFlagsOK, [BridgeNext]_bridgeVars PROVE SdkFlagsOK'
  OBVIOUS
<1> USE DEF SdkFlagsOK, activityVars, authVars, AnswerPending,
            CompleteAuthentication, FailAuthentication,
            ResetSession, NotifyAuthenticationExpired
<1>1. CASE Authorize \/ RestoreSession \/ Disconnect
           \/ StatusReady \/ StatusDisconnected
           \/ RefreshExpiringToken
  BY <1>1 DEF Authorize, RestoreSession, StartAuthentication,
     Disconnect, StatusReady, StatusDisconnected,
     RefreshExpiringToken
<1>2. CASE SendInvite \/ AcceptInvite \/ StartCall \/ Leave
           \/ AskChat \/ AskRelationship
  BY <1>2 DEF SendInvite, AcceptInvite, StartCall, Leave,
     AskChat, AskRelationship, Relay
<1>3. ASSUME NEW n \in Chains, SdkAnswers(n) PROVE SdkFlagsOK'
  <2>1. CASE AuthorizeAnswer(n) \/ HandleTokenExchange(n)
    BY <2>1 DEF AuthorizeAnswer, HandleTokenExchange
  <2>2. CASE UpdateAnswer(n)
    BY <2>2 DEF UpdateAnswer
  <2>3. CASE CreateAnswer(n) \/ PresenceAnswer(n)
             \/ AcceptAnswer(n) \/ LeaveAnswer(n)
    BY <2>3 DEF CreateAnswer, PresenceAnswer, AcceptAnswer,
       LeaveAnswer
  <2>4. CASE InviteAnswer(n) \/ ChatAnswer(n)
             \/ RelationshipAnswer(n)
    BY <2>4 DEF InviteAnswer, ChatAnswer, RelationshipAnswer,
       Answered
  <2> QED
    BY <1>3, <2>1, <2>2, <2>3, <2>4 DEF SdkAnswers
<1>4. CASE UNCHANGED bridgeVars
  BY <1>4 DEF bridgeVars
<1> QED
  BY <1>1, <1>2, <1>3, <1>4 DEF BridgeNext

LEMMA SdkNames ==
  ChainInv /\ SdkNamesOK /\ [BridgeNext]_bridgeVars => SdkNamesOK'
<1> SUFFICES ASSUME ChainInv, SdkNamesOK, [BridgeNext]_bridgeVars
             PROVE  SdkNamesOK'
  OBVIOUS
<1> USE ChainsAssumption DEF SdkNamesOK, activityVars, authVars, sdkVars
<1>1. /\ chains \in Nat
      /\ at \in [1..MaxChains -> Requests \union {"none", "done"}]
      /\ \A n \in 1..MaxChains : at[n] # "none" => n \in 1..chains
      /\ 1..chains \subseteq 1..MaxChains
  BY DEF ChainInv
\* A new chain.
<1>2. ASSUME NEW request, Ask(request)
      PROVE  /\ chains' = chains + 1 /\ chains' \in 1..chains'
             /\ 1..chains \subseteq 1..chains'
             /\ 0..chains \subseteq 0..chains'
             /\ at'[chains'] = request
             /\ \A n \in 1..chains : at'[n] = at[n]
  BY <1>1, <1>2 DEF Ask, ChainInv
\* A chain that goes on.
<1>3. ASSUME NEW n \in 1..MaxChains, NEW request, Goes(n, request)
      PROVE  /\ at'[n] = request
             /\ \A m \in 1..chains : m # n => at'[m] = at[m]
  BY <1>1, <1>3 DEF Goes
<1>4. CASE Authorize \/ RestoreSession
  <2>1. PICK request \in {"authorize", "refresh"} :
                 StartAuthentication(request)
    BY <1>4 DEF Authorize, RestoreSession
  <2>2. /\ Ask(request)
        /\ waiting' = waiting \union {chains'} /\ pending' = chains'
        /\ UNCHANGED <<activeLobby, secret, call, presence>>
    BY <1>4, <2>1 DEF Authorize, RestoreSession,
                      StartAuthentication
  <2> QED
    BY <1>2, <2>1, <2>2
<1>5. CASE Disconnect
  BY <1>1, <1>5 DEF Disconnect, ResetSession, None
<1>6. CASE StatusReady \/ StatusDisconnected
  BY <1>1, <1>6 DEF StatusReady, StatusDisconnected, None,
     AnswerPending, CompleteAuthentication, FailAuthentication
<1>7. CASE RefreshExpiringToken
  <2>1. CASE refreshing \/ ~grant
    <3>1. NotifyAuthenticationExpired /\ UNCHANGED <<chains, at>>
      BY <1>7, <2>1 DEF RefreshExpiringToken
    <3> QED
      BY <1>1, <3>1 DEF NotifyAuthenticationExpired, ResetSession,
                        None
  <2>2. CASE ~(refreshing \/ ~grant)
    <3>1. Ask("expiring")
          /\ UNCHANGED <<waiting, pending, activeLobby, secret, call,
                         presence>>
      BY <1>7, <2>2 DEF RefreshExpiringToken
    <3> QED
      BY <1>2, <3>1
  <2> QED
    BY <2>1, <2>2
<1>8. ASSUME NEW request, Ask(request),
             waiting' = waiting \union {chains'},
             UNCHANGED <<pending, activeLobby, call, presence>>,
             secret' = secret \/ secret' = chains'
      PROVE  SdkNamesOK'
  <2>1. waiting' \subseteq 1..chains' /\ pending' \in waiting' \union {0}
    BY <1>2, <1>8
  <2>2. pending' # 0 => at'[pending'] = at[pending]
    BY <1>2, <1>8
  <2>3. activeLobby' \in 0..chains' /\ call' \in 0..chains'
        /\ presence' \in [lobby : 0..chains', secret : 0..chains']
    BY <1>2, <1>8
  <2>4. secret' \in 0..chains'
    BY <1>2, <1>8, 1..chains' \subseteq 0..chains'
  <2> QED
    BY <1>8, <2>1, <2>2, <2>3, <2>4
<1>9. CASE SendInvite
  BY <1>8, <1>9 DEF SendInvite
<1>10. CASE AcceptInvite \/ Leave
  BY <1>8, <1>10 DEF AcceptInvite, Leave
<1>11. CASE AskChat \/ AskRelationship
  BY <1>8, <1>11 DEF AskChat, AskRelationship, Relay
<1>12. CASE StartCall
  BY <1>12 DEF StartCall
<1>13. ASSUME NEW n \in 1..MaxChains, SdkAnswers(n) PROVE SdkNamesOK'
  <2>1. CASE AuthorizeAnswer(n)
    BY <1>1, <1>3, <2>1 DEF AuthorizeAnswer, FailAuthentication,
       AnswerPending, None
  <2>2. CASE HandleTokenExchange(n)
    <3>1. chains' = chains
      BY <2>2 DEF HandleTokenExchange
    <3>2. CASE /\ Goes(n, IF Background(n) THEN "updateExpiring"
                              ELSE "update")
               /\ UNCHANGED <<waiting, pending, activityVars, call>>
      BY <1>1, <1>3, <2>2, <3>1, <3>2
         DEF HandleTokenExchange, Background
    <3>3. CASE Goes(n, "done") /\ NotifyAuthenticationExpired
      BY <1>1, <1>3, <3>1, <3>3
         DEF NotifyAuthenticationExpired, ResetSession, None
    <3>4. CASE FailAuthentication /\ UNCHANGED <<activityVars, call>>
      BY <1>1, <3>1, <3>4
         DEF FailAuthentication, AnswerPending, None
    <3> QED
      BY <2>2, <3>2, <3>3, <3>4 DEF HandleTokenExchange
  <2>3. CASE UpdateAnswer(n)
    <3>1. chains' = chains /\ Goes(n, "done")
      BY <2>3 DEF UpdateAnswer
    <3>2. CASE UNCHANGED <<waiting, pending, activityVars, call>>
      BY <1>1, <1>3, <3>1, <3>2
    <3>3. CASE NotifyAuthenticationExpired
      BY <1>1, <1>3, <3>1, <3>3
         DEF NotifyAuthenticationExpired, ResetSession, None
    <3>4. CASE AnswerPending(TRUE) /\ UNCHANGED <<activityVars, call>>
      BY <1>1, <3>1, <3>4 DEF AnswerPending, None
    <3>5. CASE FailAuthentication /\ UNCHANGED <<activityVars, call>>
      BY <1>1, <3>1, <3>5
         DEF FailAuthentication, AnswerPending, None
    <3> QED
      BY <2>3, <3>2, <3>3, <3>4, <3>5
         DEF UpdateAnswer, CompleteAuthentication
  \* The answers that are no authentication's end calls that do not sign in.
  <2>4. ASSUME NEW request, Goes(n, request), chains' = chains,
               at[n] \in {"create", "presence", "accept", "join", "leave",
                          "chat", "relationship", "invite"},
               waiting' = waiting \/ waiting' = waiting \ {n},
               pending' = pending, activeLobby' \in {activeLobby, n, 0},
               secret' \in {secret, n, 0}, call' \in {call, 0},
               presence' = presence
                   \/ presence' = [lobby |-> n, secret |-> secret]
        PROVE  SdkNamesOK'
    <3>1. n \in 1..chains /\ n # pending
      BY <1>1, <2>4
    <3>2. pending' \in waiting' \union {0} /\ waiting' \subseteq 1..chains'
      BY <2>4, <3>1
    <3>3. pending' # 0 => at'[pending'] = at[pending]
      BY <1>3, <2>4, <3>1
    <3>4. /\ activeLobby' \in 0..chains' /\ secret' \in 0..chains'
          /\ call' \in 0..chains'
          /\ presence' \in [lobby : 0..chains', secret : 0..chains']
      BY <1>1, <2>4, <3>1
    <3> QED
      BY <2>4, <3>2, <3>3, <3>4
  <2>5. CASE CreateAnswer(n)
    BY <2>4, <2>5 DEF CreateAnswer, None
  <2>6. CASE PresenceAnswer(n)
    BY <2>4, <2>6 DEF PresenceAnswer, None
  <2>7. CASE AcceptAnswer(n)
    BY <2>4, <2>7 DEF AcceptAnswer
  <2>8. CASE LeaveAnswer(n)
    BY <2>4, <2>8 DEF LeaveAnswer, None
  <2>9. CASE InviteAnswer(n) \/ ChatAnswer(n)
             \/ RelationshipAnswer(n)
    BY <2>4, <2>9 DEF InviteAnswer, ChatAnswer,
       RelationshipAnswer, Answered
  <2> QED
    BY <1>13, <2>1, <2>2, <2>3, <2>5, <2>6, <2>7, <2>8, <2>9
       DEF SdkAnswers
<1>14. CASE UNCHANGED bridgeVars
  BY <1>14 DEF bridgeVars
<1> QED
  BY <1>4, <1>5, <1>6, <1>7, <1>9, <1>10, <1>11, <1>12, <1>13, <1>14
     DEF BridgeNext, Chains

\* Every reachable state of the bridge to the Social SDK is well typed, for
\* any number of chains: in particular the authentication that is pending is
\* a method call nobody has answered, whatever the SDK answers in between.
THEOREM SdkTypeCorrect == BridgeSpec => []BridgeTypeOK
<1>1. BridgeInit => ChainInv /\ SdkFlagsOK /\ SdkNamesOK
  <2> SUFFICES ASSUME BridgeInit PROVE ChainInv /\ SdkFlagsOK /\ SdkNamesOK
    OBVIOUS
  <2>1. ChainInv
    BY ChainsAssumption
    DEF BridgeInit, ChainInv, BusyIsHonest, Chains, Requests
  <2>2. SdkFlagsOK
    BY DEF BridgeInit, SdkFlagsOK
  <2>3. SdkNamesOK
    BY DEF BridgeInit, SdkNamesOK, None
  <2> QED
    BY <2>1, <2>2, <2>3
<1>2. ChainInv /\ SdkFlagsOK /\ SdkNamesOK => BridgeTypeOK
  BY DEF ChainInv, SdkFlagsOK, SdkNamesOK, BridgeTypeOK, Chains, None
<1> QED
  BY <1>1, <1>2, ChainsGoOn, SdkFlags, SdkNames, PTL DEF BridgeSpec

=============================================================================
