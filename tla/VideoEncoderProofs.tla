------------------------- MODULE VideoEncoderProofs -------------------------
(* What holds of VideoEncoder for any sources and any number of slots.     *)
EXTENDS VideoEncoder, FiniteSetTheorems, TLAPS

-----------------------------------------------------------------------------
(* The close, the capture thread and the cleanup thread                     *)

\* Only a capture thread that left is finished, no callback runs behind the
\* gate, and what the handle keeps goes at the end of the finish.
ControlInv ==
    /\ close \in {"none", "failed", "open", "wait", "finish", "gate",
                  "closed"}
    /\ finish \in {"none", "drain", "deliver", "callback", "free", "done"}
    /\ at = "none" <=> close \in {"none", "failed"}
    /\ exited <=> at = "exited"
    /\ gate => close = "closed"
    /\ close = "open" => running
    /\ close = "closed" => gate \/ exited
    /\ at \in {"callback", "endcall"} => ~gate
    /\ back \in {"none", "pump", "await", "drain"}
    /\ at \in {"deliver", "callback"} => back # "none"
    /\ finish # "none" => exited /\ close \in {"finish", "closed"}
    /\ finish = "callback" => close = "finish"
    /\ close = "finish" => finish # "none"
    /\ cleanup => close = "closed" /\ finish = "none"
    /\ close = "closed" /\ ~gate => finish = "done"
    /\ media <=> close \notin {"none", "failed"} /\ finish # "done"

LEMMA ControlInvariant == Spec => []ControlInv
<1>1. Init => ControlInv
  BY DEF Init, ControlInv
<1>2. ControlInv /\ [Next]_vars => ControlInv'
  <2> SUFFICES ASSUME ControlInv, [Next]_vars PROVE ControlInv'
    OBVIOUS
  <2> USE DEF ControlInv, Go, closeVars, threadVars, ownerVars
  <2>1. CASE Open
    BY <2>1 DEF Open
  <2>2. CASE OpenFails \/ RequestKeyframe \/ SetPaused
    BY <2>2 DEF OpenFails, RequestKeyframe, SetPaused
  <2>3. CASE Close
    BY <2>3 DEF Close
  <2>4. CASE WorkerOut \/ Answer \/ Deadline
    BY <2>4 DEF WorkerOut, Answer, Deadline
  <2>5. CASE CloseGate
    BY <2>5 DEF CloseGate
  <2>6. CASE CleanUp
    BY <2>6 DEF CleanUp
  <2>7. CASE FinishEncoderClose
    BY <2>7 DEF FinishEncoderClose, DrainLast, DeliverLast, Free
  <2>8. CASE NeedInput \/ HaveOutput
    BY <2>8 DEF NeedInput, HaveOutput
  <2>9. CASE CaptureLoop
    <3>1. CASE LoopTop \/ TakeFrame \/ ReopenDuplication
      BY <3>1 DEF LoopTop, TakeFrame, ReopenDuplication
    <3>2. CASE AnnounceCaptureEnd
      BY <3>2 DEF AnnounceCaptureEnd
    <3>3. CASE Announce
      BY <3>3 DEF Announce
    <3>4. CASE EncodeNv12 \/ Offer
      BY <3>4 DEF EncodeNv12, Offer
    <3>5. CASE PumpEncoderEvents
      BY <3>5 DEF PumpEncoderEvents, Pumped, ConsumeEncoderOutput
    <3>6. CASE AwaitEncoderInput
      BY <3>6 DEF AwaitEncoderInput, ConsumeEncoderOutput
    <3>7. CASE ProcessInput \/ ProcessInputFails
      BY <3>7 DEF ProcessInput, ProcessInputFails
    <3>8. CASE DrainEncoder
      BY <3>8 DEF DrainEncoder
    <3>9. CASE DeliverEncodedSample
      BY <3>9 DEF DeliverEncodedSample
    <3> QED
      BY <2>9, <3>1, <3>2, <3>3, <3>4, <3>5, <3>6, <3>7, <3>8, <3>9
         DEF CaptureLoop
  <2>10. CASE UNCHANGED vars
    BY <2>10 DEF vars
  <2> QED
    BY <2>1, <2>2, <2>3, <2>4, <2>5, <2>6, <2>7, <2>8, <2>9, <2>10
       DEF Next, Closing
<1> QED
  BY <1>1, <1>2, PTL DEF Spec

\* Every step of the encoder is a step of the close contract or leaves what
\* the contract speaks of as it was.
THEOREM EncoderKeepsContract == Spec => Contract!Spec
<1>1. Init => Contract!Init
  BY DEF Init, Contract!Init
<1>2. ControlInv /\ [Next]_vars => [Contract!Next]_(Contract!vars)
  <2> SUFFICES ASSUME ControlInv, [Next]_vars
               PROVE  Contract!Next \/ UNCHANGED Contract!vars
    OBVIOUS
  <2> USE DEF ControlInv, Contract!vars
  <2>1. CASE Open
    BY <2>1 DEF Open, Contract!Next, Contract!Open
  <2>2. CASE OpenFails \/ RequestKeyframe \/ SetPaused
    BY <2>2 DEF OpenFails, RequestKeyframe, SetPaused, closeVars, threadVars
  <2>3. CASE Close
    BY <2>3 DEF Close, threadVars, Contract!Next, Contract!Close
  <2>4. CASE WorkerOut \/ Deadline
    BY <2>4 DEF WorkerOut, Deadline, threadVars
  <2>5. CASE Answer
    BY <2>5 DEF Answer, threadVars, Contract!Next, Contract!Answer
  <2>6. CASE CloseGate
    BY <2>6 DEF CloseGate, threadVars, Contract!Next, Contract!Answer
  <2>7. CASE CleanUp
    BY <2>7 DEF CleanUp, threadVars
  <2>8. CASE DrainLast
    BY <2>8 DEF DrainLast, threadVars
  <2>9. CASE DeliverLast
    <3>1. CASE finish' = "callback"
      BY <2>9, <3>1 DEF DeliverLast, threadVars, Contract!Next,
                        Contract!Enter
    <3>2. CASE finish = "callback"
      BY <2>9, <3>2 DEF DeliverLast, threadVars, Contract!Next,
                        Contract!Leave
    <3>3. CASE finish = "deliver" /\ finish' # "callback"
      BY <2>9, <3>3 DEF DeliverLast, threadVars
    <3> QED
      BY <2>9, <3>1, <3>2, <3>3 DEF DeliverLast
  <2>10. CASE Free
    BY <2>10 DEF Free, threadVars, Contract!Next, Contract!Free
  <2>11. CASE NeedInput \/ HaveOutput
    BY <2>11 DEF NeedInput, HaveOutput, closeVars, threadVars
  <2>12. CASE CaptureLoop
    <3>1. CASE LoopTop \/ TakeFrame \/ ReopenDuplication
      BY <3>1 DEF LoopTop, TakeFrame, ReopenDuplication, Go, closeVars
    <3>2. CASE AnnounceCaptureEnd
      <4>1. CASE at' = "endcall"
        BY <3>2, <4>1 DEF AnnounceCaptureEnd, Go, closeVars, Contract!Next,
                          Contract!Enter
      <4>2. CASE at = "endcall"
        BY <3>2, <4>2 DEF AnnounceCaptureEnd, Go, closeVars, Contract!Next,
                          Contract!Leave
      <4>3. CASE at # "endcall" /\ at' # "endcall"
        BY <3>2, <4>3 DEF AnnounceCaptureEnd, Go, closeVars
      <4> QED
        BY <4>1, <4>2, <4>3
    <3>3. CASE Announce
      BY <3>3 DEF Announce, Go
    <3>4. CASE EncodeNv12 \/ Offer
      BY <3>4 DEF EncodeNv12, Offer, Go, closeVars
    <3>5. CASE PumpEncoderEvents \/ AwaitEncoderInput
      BY <3>5 DEF PumpEncoderEvents, AwaitEncoderInput, Pumped,
                  ConsumeEncoderOutput, Go, closeVars
    <3>6. CASE ProcessInput \/ ProcessInputFails \/ DrainEncoder
      BY <3>6 DEF ProcessInput, ProcessInputFails, DrainEncoder, Go,
                  closeVars
    <3>7. CASE DeliverEncodedSample
      <4>1. CASE at' = "callback"
        BY <3>7, <4>1 DEF DeliverEncodedSample, closeVars, Contract!Next,
                          Contract!Enter
      <4>2. CASE at = "callback" /\ at' # "callback"
        BY <3>7, <4>2 DEF DeliverEncodedSample, closeVars, Contract!Next,
                          Contract!Leave
      <4>3. CASE at # "callback" /\ at' # "callback"
        BY <3>7, <4>3 DEF DeliverEncodedSample, closeVars
      <4> QED
        BY <4>1, <4>2, <4>3
    <3> QED
      BY <2>12, <3>1, <3>2, <3>3, <3>4, <3>5, <3>6, <3>7 DEF CaptureLoop
  <2>13. CASE UNCHANGED vars
    BY <2>13 DEF vars, closeVars, threadVars
  <2> QED
    BY <2>1, <2>2, <2>3, <2>4, <2>5, <2>6, <2>7, <2>8, <2>9, <2>10, <2>11,
       <2>12, <2>13 DEF Next, Closing, FinishEncoderClose
<1> QED
  BY <1>1, <1>2, ControlInvariant, PTL DEF Spec, Contract!Spec

-----------------------------------------------------------------------------
(* The last word                                                            *)

\* On the way out of a handle nobody closed the reason is on record, and the
\* callback's end has been told when the capture thread leaves it.
EndInv ==
    close = "open" =>
        /\ at \in {"end", "endgate", "endcall"} => stage # "none"
        /\ at = "endcall" => told = TRUE
        /\ at \in {"leave", "exited"} =>
              source = "camera" \/ (told = TRUE /\ stage # "none")

LEMMA EndInvariant == Spec => []EndInv
<1>1. Init => EndInv
  BY DEF Init, EndInv
<1>2. ControlInv /\ EndInv /\ [Next]_vars => EndInv'
  <2> SUFFICES ASSUME ControlInv, EndInv, [Next]_vars PROVE EndInv'
    OBVIOUS
  <2> USE DEF EndInv
  <2>1. CASE Open \/ OpenFails \/ Close
    BY <2>1 DEF Open, OpenFails, Close
  <2>2. CASE RequestKeyframe \/ SetPaused
    BY <2>2 DEF RequestKeyframe, SetPaused, ownerVars, closeVars, threadVars,
                wordVars
  <2>3. CASE WorkerOut \/ Answer \/ Deadline \/ CloseGate
    BY <2>3 DEF WorkerOut, Answer, Deadline, CloseGate
  <2>4. CASE CleanUp \/ FinishEncoderClose
    BY <2>4 DEF ControlInv, CleanUp, FinishEncoderClose, DrainLast,
                DeliverLast, Free, ownerVars, threadVars, wordVars
  <2>5. CASE NeedInput \/ HaveOutput
    BY <2>5 DEF NeedInput, HaveOutput, ownerVars, closeVars, threadVars,
                wordVars
  <2>6. CASE CaptureLoop
    <3> USE DEF Go, ownerVars, closeVars, wordVars
    <3>1. CASE LoopTop \/ TakeFrame
      BY <3>1 DEF ControlInv, LoopTop, TakeFrame, WindowIsGone
    <3>2. CASE ReopenDuplication
      BY <3>2 DEF ControlInv, ReopenDuplication, OpenDuplicationFails
    <3>3. CASE AnnounceCaptureEnd
      BY <3>3 DEF ControlInv, AnnounceCaptureEnd
    <3>4. CASE Announce
      BY <3>4 DEF Announce
    <3>5. CASE EncodeNv12 \/ Offer \/ ProcessInput \/ ProcessInputFails
      BY <3>5 DEF EncodeNv12, Offer, ProcessInput, ProcessInputFails
    <3>6. CASE PumpEncoderEvents \/ AwaitEncoderInput \/ DrainEncoder
      BY <3>6 DEF PumpEncoderEvents, AwaitEncoderInput, DrainEncoder, Pumped,
                  ConsumeEncoderOutput
    <3>7. CASE DeliverEncodedSample
      BY <3>7 DEF ControlInv, DeliverEncodedSample
    <3> QED
      BY <2>6, <3>1, <3>2, <3>3, <3>4, <3>5, <3>6, <3>7 DEF CaptureLoop
  <2>7. CASE UNCHANGED vars
    BY <2>7 DEF vars, ownerVars, closeVars, threadVars, wordVars
  <2> QED
    BY <2>1, <2>2, <2>3, <2>4, <2>5, <2>6, <2>7 DEF Next, Closing
<1> QED
  BY <1>1, <1>2, ControlInvariant, PTL DEF Spec

\* A display or a window whose capture ends by itself says so and says why,
\* at whatever point of the loop the source went away.
THEOREM EncoderTellsItsEnd == Spec => []EndIsTold
<1>1. EndInv => EndIsTold
  BY DEF EndInv, EndIsTold
<1> QED
  BY <1>1, EndInvariant, PTL

-----------------------------------------------------------------------------
(* The keyframe that is owed                                                *)

\* A wish for a keyframe is with the encoder's next frame or still there,
\* also before the handle is open and after its encoder went.
WishInv ==
    /\ keyframe_requested \in BOOLEAN /\ owed \in BOOLEAN /\ force \in BOOLEAN
    /\ owed = TRUE =>
          keyframe_requested = TRUE \/ (at = "input" /\ force = TRUE)

\* The software encoder that takes over starts with a keyframe of its own.
LEMMA WishInvariant == ASSUME ~FallbackMayFail PROVE Spec => []WishInv
<1>1. Init => WishInv
  BY DEF Init, WishInv
<1>2. ControlInv /\ WishInv /\ [Next]_vars => WishInv'
  <2> SUFFICES ASSUME ControlInv, WishInv, [Next]_vars PROVE WishInv'
    OBVIOUS
  <2> USE DEF WishInv
  <2>1. CASE Open \/ OpenFails
    BY <2>1 DEF ControlInv, Open, OpenFails, keyVars, threadVars
  <2>2. CASE RequestKeyframe \/ SetPaused
    BY <2>2 DEF RequestKeyframe, SetPaused, keyVars, threadVars
  <2>3. CASE Close \/ Closing \/ CleanUp
    BY <2>3 DEF Close, Closing, CleanUp, WorkerOut, Answer, Deadline,
                CloseGate, keyVars, threadVars
  <2>4. CASE FinishEncoderClose
    BY <2>4 DEF FinishEncoderClose, DrainLast, DeliverLast, Free, keyVars,
                threadVars
  <2>5. CASE NeedInput \/ HaveOutput
    BY <2>5 DEF NeedInput, HaveOutput, keyVars, threadVars
  <2>6. CASE CaptureLoop
    <3> USE DEF Go, keyVars
    <3>1. CASE LoopTop \/ TakeFrame \/ ReopenDuplication
      BY <3>1 DEF LoopTop, TakeFrame, ReopenDuplication
    <3>2. CASE AnnounceCaptureEnd \/ Announce \/ EncodeNv12
      BY <3>2 DEF AnnounceCaptureEnd, Announce, EncodeNv12
    <3>3. CASE PumpEncoderEvents \/ AwaitEncoderInput \/ DrainEncoder
      BY <3>3 DEF PumpEncoderEvents, AwaitEncoderInput, DrainEncoder, Pumped,
                  ConsumeEncoderOutput
    <3>4. CASE Offer
      BY <3>4 DEF Offer
    <3>5. CASE ProcessInput
      BY <3>5 DEF ProcessInput
    <3>6. CASE ProcessInputFails
      <4>1. encoder' = TRUE /\ keyframe_requested' = TRUE
        BY <3>6, FallbackAssumption
           DEF ProcessInputFails, RecoverEncoder, ConfigureSoftwareEncoder
      <4> QED
        BY <3>6, <4>1 DEF ProcessInputFails, RecoverEncoder
    <3>7. CASE DeliverEncodedSample
      BY <3>7 DEF ControlInv, DeliverEncodedSample
    <3> QED
      BY <2>6, <3>1, <3>2, <3>3, <3>4, <3>5, <3>6, <3>7 DEF CaptureLoop
  <2>7. CASE UNCHANGED vars
    BY <2>7 DEF vars, keyVars, threadVars
  <2> QED
    BY <2>1, <2>2, <2>3, <2>4, <2>5, <2>6, <2>7 DEF Next
<1> QED
  BY <1>1, <1>2, ControlInvariant, PTL DEF Spec

\* No dropped frame, full encoder, lost request or change of encoder loses a
\* keyframe that was asked for, where the software encoder can be had.
THEOREM EncoderOwesKeyframe ==
  ASSUME ~FallbackMayFail PROVE Spec => []KeyframeOwed
<1>1. WishInv => KeyframeOwed
  BY DEF WishInv, KeyframeOwed
<1> QED
  BY <1>1, WishInvariant, PTL

-----------------------------------------------------------------------------
(* The requests for input                                                   *)

\* A request for input waits to be read.
HasNeed == \E i \in DOMAIN events : events[i] = "need"

\* What is left of a queue whose head is read, and what is added at its end.
LEMMA RestOfEvents ==
  ASSUME NEW q \in Seq({"need", "have"}), q # <<>>
  PROVE  /\ Tail(q) \in Seq({"need", "have"})
         /\ Head(q) = "have" /\ (\E i \in DOMAIN q : q[i] = "need")
              => \E i \in DOMAIN Tail(q) : Tail(q)[i] = "need"
<1>1. Tail(q) \in Seq({"need", "have"})
  OBVIOUS
<1>2. ASSUME Head(q) = "have", NEW i \in DOMAIN q, q[i] = "need"
      PROVE  \E j \in DOMAIN Tail(q) : Tail(q)[j] = "need"
  <2>1. i # 1 /\ i - 1 \in DOMAIN Tail(q)
    BY <1>2
  <2>2. Tail(q)[i - 1] = "need"
    BY <1>2, <2>1
  <2> QED
    BY <2>1, <2>2
<1> QED
  BY <1>1, <1>2

LEMMA MoreEvents ==
  ASSUME NEW q \in Seq({"need", "have"}), NEW e \in {"need", "have"}
  PROVE  /\ Append(q, e) \in Seq({"need", "have"})
         /\ e = "need" => \E i \in DOMAIN Append(q, e) :
                              Append(q, e)[i] = "need"
         /\ (\E i \in DOMAIN q : q[i] = "need")
              => \E i \in DOMAIN Append(q, e) : Append(q, e)[i] = "need"
<1>1. Append(q, e) \in Seq({"need", "have"})
  OBVIOUS
<1>2. Append(q, e)[Len(q) + 1] = e /\ Len(q) + 1 \in DOMAIN Append(q, e)
  OBVIOUS
<1>3. \A i \in DOMAIN q :
          i \in DOMAIN Append(q, e) /\ Append(q, e)[i] = q[i]
  OBVIOUS
<1> QED
  BY <1>1, <1>2, <1>3

\* With every slot's request out, the capture thread has one it was given or
\* will read one: only the frame in its hands may have used the last.
RequestInv ==
    /\ events \in Seq({"need", "have"})
    /\ requested \in Int /\ requested <= Slots
    /\ busy \in Nat
    /\ async \in BOOLEAN /\ rebuilt \in BOOLEAN
    /\ rebuilt = TRUE => async = FALSE
    /\ at = "none" => rebuilt = FALSE /\ encoder = FALSE /\ requested = 0
    /\ async = TRUE /\ encoder = TRUE /\ at # "input" /\ finish = "none"
       /\ requested = Slots
         => accepts = TRUE \/ HasNeed

\* Frames inside, and outputs not read, are counted in natural numbers.
LEMMA UnreadIsCounted ==
  ASSUME events \in Seq({"need", "have"}) PROVE Unread \in Nat
<1>1. DOMAIN events = 1..Len(events) /\ Len(events) \in Nat
  OBVIOUS
<1>2. IsFiniteSet(1..Len(events))
  BY <1>1, FS_Interval
<1>3. {i \in DOMAIN events : events[i] = "have"} \subseteq 1..Len(events)
  BY <1>1
<1> QED
  BY <1>2, <1>3, FS_Subset, FS_CardinalityType DEF Unread

LEMMA RequestInvariant == Spec => []RequestInv
<1> USE SlotsAssumption
<1>1. Init => RequestInv
  <2> SUFFICES ASSUME Init PROVE RequestInv
    OBVIOUS
  <2>1. events \in Seq({"need", "have"}) /\ requested = 0 /\ busy = 0
    BY DEF Init
  <2>2. async = FALSE /\ rebuilt = FALSE /\ encoder = FALSE
    BY DEF Init
  <2>3. async \in BOOLEAN /\ rebuilt \in BOOLEAN
    BY <2>2
  <2> QED
    BY <2>1, <2>2, <2>3 DEF RequestInv
<1>2. ControlInv /\ RequestInv /\ [Next]_vars => RequestInv'
  <2> SUFFICES ASSUME ControlInv, RequestInv, [Next]_vars PROVE RequestInv'
    OBVIOUS
  <2> USE DEF RequestInv, HasNeed, Go
  <2>1. CASE Open
    BY <2>1 DEF ControlInv, Open, ConfigureEncoder, SetupEncoderTransform,
                transformVars
  <2>2. CASE OpenFails \/ RequestKeyframe \/ SetPaused
    BY <2>2 DEF OpenFails, RequestKeyframe, SetPaused, kindVars,
                transformVars, threadVars, closeVars
  <2>3. CASE Close \/ Closing \/ CleanUp
    BY <2>3 DEF Close, Closing, CleanUp, WorkerOut, Answer, Deadline,
                CloseGate, kindVars, transformVars, threadVars
  <2>4. CASE FinishEncoderClose
    <3>1. CASE DrainLast
      <4>1. finish # "none" /\ finish' # "none"
        BY <3>1 DEF DrainLast
      <4>2. events' \in Seq({"need", "have"})
        BY <3>1, RestOfEvents DEF DrainLast
      <4> QED
        BY <3>1, <4>1, <4>2 DEF DrainLast, kindVars, threadVars
    <3>2. CASE DeliverLast
      BY <3>2 DEF DeliverLast, kindVars, transformVars, threadVars
    <3>3. CASE Free
      <4>1. events' \in Seq({"need", "have"}) /\ requested' = 0 /\ busy' = 0
        BY <3>3 DEF Free
      <4> QED
        BY <3>3, <4>1 DEF Free, threadVars
    <3> QED
      BY <2>4, <3>1, <3>2, <3>3 DEF FinishEncoderClose
  <2>5. CASE NeedInput
    <3>1. requested + 1 <= Slots
      BY <2>5, UnreadIsCounted DEF NeedInput
    <3>2. events' \in Seq({"need", "have"}) /\ HasNeed'
      BY <2>5, MoreEvents DEF NeedInput
    <3>3. at # "none"
      BY <2>5 DEF NeedInput
    <3> QED
      BY <2>5, <3>1, <3>2, <3>3
         DEF NeedInput, kindVars, threadVars, closeVars
  <2>6. CASE HaveOutput
    <3>1. events' \in Seq({"need", "have"}) /\ (HasNeed => HasNeed')
      BY <2>6, MoreEvents DEF HaveOutput
    <3> QED
      BY <2>6, <3>1 DEF HaveOutput, kindVars, threadVars, closeVars
  <2>7. ASSUME ConsumeEncoderOutput, at \in {"pump", "await"},
               UNCHANGED <<async, rebuilt, encoder, requested, busy, finish>>
        PROVE  RequestInv'
    <3>1. events' \in Seq({"need", "have"}) /\ (HasNeed => HasNeed')
      BY <2>7, RestOfEvents DEF ConsumeEncoderOutput
    <3>2. at' \notin {"none", "input"} /\ UNCHANGED accepts
      BY <2>7 DEF ConsumeEncoderOutput
    <3> QED
      BY <2>7, <3>1, <3>2
  <2>8. CASE PumpEncoderEvents
    <3>1. UNCHANGED <<async, rebuilt, encoder, requested, busy, finish>>
      BY <2>8 DEF PumpEncoderEvents, closeVars
    <3>2. CASE ConsumeEncoderOutput
      BY <2>7, <2>8, <3>1, <3>2 DEF PumpEncoderEvents
    <3>3. CASE events # <<>> /\ events' = Tail(events) /\ accepts' = TRUE
               /\ Pumped(TRUE)
      BY <2>8, <3>1, <3>3, RestOfEvents DEF Pumped
    <3>4. CASE events = <<>> /\ Pumped(accepts)
               /\ UNCHANGED <<events, accepts>>
      BY <2>8, <3>1, <3>4 DEF PumpEncoderEvents, Pumped
    <3> QED
      BY <2>8, <3>2, <3>3, <3>4 DEF PumpEncoderEvents
  <2>9. CASE AwaitEncoderInput
    <3>1. UNCHANGED <<async, rebuilt, encoder, requested, busy, finish>>
      BY <2>9 DEF AwaitEncoderInput, closeVars
    <3>2. CASE ConsumeEncoderOutput
      BY <2>7, <2>9, <3>1, <3>2 DEF AwaitEncoderInput
    <3>3. CASE events # <<>> /\ events' = Tail(events) /\ accepts' = TRUE
               /\ at' = "offer"
      BY <2>9, <3>1, <3>3, RestOfEvents
    <3>4. CASE at' = "top" /\ UNCHANGED <<events, accepts>>
      BY <2>9, <3>1, <3>4 DEF AwaitEncoderInput
    <3> QED
      BY <2>9, <3>2, <3>3, <3>4 DEF AwaitEncoderInput
  <2>10. CASE Offer
    BY <2>10 DEF Offer, transformVars, closeVars
  <2>11. CASE ProcessInput
    BY <2>11 DEF ProcessInput, kindVars, closeVars
  <2>12. CASE ProcessInputFails
    <3>1. CASE rebuilt = TRUE
      BY <2>12, <3>1 DEF ProcessInputFails, RecoverEncoder, kindVars,
                         transformVars, closeVars
    <3>2. CASE rebuilt = FALSE
      <4>1. events' \in Seq({"need", "have"}) /\ requested' = 0 /\ busy' = 0
        BY <2>12, <3>2 DEF ProcessInputFails, RecoverEncoder
      <4>2. async' = FALSE /\ rebuilt' = TRUE /\ at' = "top"
        BY <2>12, <3>2
           DEF ProcessInputFails, RecoverEncoder, ConfigureSoftwareEncoder
      <4>3. async' \in BOOLEAN /\ rebuilt' \in BOOLEAN
        BY <4>2
      <4> QED
        BY <4>1, <4>2, <4>3
    <3> QED
      BY <3>1, <3>2
  <2>13. CASE DrainEncoder
    BY <2>13 DEF DrainEncoder, kindVars, closeVars
  <2>14. CASE DeliverEncodedSample
    BY <2>14 DEF ControlInv, DeliverEncodedSample, kindVars, transformVars,
                 closeVars
  <2>15. CASE LoopTop \/ TakeFrame \/ ReopenDuplication
              \/ AnnounceCaptureEnd \/ Announce \/ EncodeNv12
    BY <2>15 DEF LoopTop, TakeFrame, ReopenDuplication, AnnounceCaptureEnd,
                 Announce, EncodeNv12, kindVars, transformVars, closeVars
  <2>16. CASE UNCHANGED vars
    BY <2>16 DEF vars, kindVars, transformVars, threadVars, closeVars
  <2> QED
    BY <2>1, <2>2, <2>3, <2>4, <2>5, <2>6, <2>8, <2>9, <2>10, <2>11, <2>12,
       <2>13, <2>14, <2>15, <2>16 DEF Next, CaptureLoop
<1> QED
  BY <1>1, <1>2, ControlInvariant, PTL DEF Spec

\* The capture thread is never left without a request that still comes: for
\* any number of slots, requests folded into one flag and frames dropped.
THEOREM EncoderNeverStarves == Spec => []NeverStarves
<1>1. RequestInv => NeverStarves
  BY SlotsAssumption DEF RequestInv, HasNeed, NeverStarves
<1> QED
  BY <1>1, RequestInvariant, PTL

-----------------------------------------------------------------------------
(* Types                                                                    *)

\* The requests for input in an event queue.
Asks(q) == {i \in DOMAIN q : q[i] = "need"}

LEMMA AsksAreCounted ==
  ASSUME NEW q \in Seq({"need", "have"})
  PROVE  IsFiniteSet(Asks(q)) /\ Cardinality(Asks(q)) \in Nat
<1>1. DOMAIN q = 1..Len(q) /\ Len(q) \in Nat
  OBVIOUS
<1>2. IsFiniteSet(1..Len(q))
  BY <1>1, FS_Interval
<1>3. Asks(q) \subseteq 1..Len(q)
  BY <1>1 DEF Asks
<1> QED
  BY <1>2, <1>3, FS_Subset, FS_CardinalityType

\* Reading an event takes at most a request out of the queue.
LEMMA AsksRead ==
  ASSUME NEW q \in Seq({"need", "have"}), q # <<>>
  PROVE  /\ Cardinality(Asks(Tail(q))) <= Cardinality(Asks(q))
         /\ Head(q) = "need"
              => Cardinality(Asks(Tail(q))) <= Cardinality(Asks(q)) - 1
<1> DEFINE f == [i \in Asks(Tail(q)) |-> i + 1]
           rest == Asks(q) \ {1}
<1>1. Tail(q) \in Seq({"need", "have"}) /\ 1 \in DOMAIN q
  OBVIOUS
<1>2. \A i \in DOMAIN Tail(q) :
          i \in Nat /\ i # 0 /\ i + 1 \in DOMAIN q /\ Tail(q)[i] = q[i + 1]
  OBVIOUS
<1>3. \A i \in Asks(Tail(q)) : i \in Nat /\ i # 0 /\ i + 1 \in rest
  BY <1>2 DEF Asks
<1>4. f \in [Asks(Tail(q)) -> rest]
  BY <1>3
<1>5. \A i, j \in Asks(Tail(q)) : f[i] = f[j] => i = j
  BY <1>3
<1>6. f \in Injection(Asks(Tail(q)), rest)
  BY <1>4, <1>5 DEF Injection, IsInjective
<1>7. IsFiniteSet(rest) /\ Cardinality(rest) \in Nat
      /\ Cardinality(rest) = IF 1 \in Asks(q) THEN Cardinality(Asks(q)) - 1
                             ELSE Cardinality(Asks(q))
  BY AsksAreCounted, FS_RemoveElement, FS_CardinalityType
<1>8. Cardinality(Asks(Tail(q))) <= Cardinality(rest)
  BY <1>6, <1>7, FS_Injection
<1>9. Head(q) = "need" => 1 \in Asks(q)
  BY <1>1 DEF Asks
<1>10. Cardinality(Asks(Tail(q))) \in Nat /\ Cardinality(Asks(q)) \in Nat
  BY <1>1, AsksAreCounted
<1> QED
  BY <1>7, <1>8, <1>9, <1>10

LEMMA AsksAdded ==
  ASSUME NEW q \in Seq({"need", "have"}), NEW e \in {"need", "have"}
  PROVE  /\ Cardinality(Asks(Append(q, e))) <= Cardinality(Asks(q)) + 1
         /\ e = "have"
              => Cardinality(Asks(Append(q, e))) <= Cardinality(Asks(q))
<1> DEFINE n == Len(q) + 1
<1>1. \A i \in DOMAIN Append(q, e) :
          i = n \/ (i \in DOMAIN q /\ Append(q, e)[i] = q[i])
  OBVIOUS
<1>2. Append(q, e)[n] = e
  OBVIOUS
<1>3. Asks(Append(q, e)) \subseteq Asks(q) \union {n}
  BY <1>1 DEF Asks
<1>4. e = "have" => Asks(Append(q, e)) \subseteq Asks(q)
  BY <1>1, <1>2 DEF Asks
<1>5. IsFiniteSet(Asks(q)) /\ Cardinality(Asks(q)) \in Nat
  BY AsksAreCounted
<1>6. IsFiniteSet(Asks(q) \union {n})
      /\ Cardinality(Asks(q) \union {n}) <= Cardinality(Asks(q)) + 1
  <2>1. IsFiniteSet(Asks(q) \union {n})
        /\ Cardinality(Asks(q) \union {n})
             = IF n \in Asks(q) THEN Cardinality(Asks(q))
               ELSE Cardinality(Asks(q)) + 1
    BY <1>5, FS_AddElement
  <2> HIDE DEF n
  <2> QED
    BY <1>5, <2>1
<1>7. Cardinality(Asks(Append(q, e))) <= Cardinality(Asks(q) \union {n})
  BY <1>3, <1>6, FS_Subset
<1>8. e = "have"
        => Cardinality(Asks(Append(q, e))) <= Cardinality(Asks(q))
  BY <1>4, <1>5, FS_Subset
<1>9. Append(q, e) \in Seq({"need", "have"})
  OBVIOUS
<1>10. Cardinality(Asks(Append(q, e))) \in Nat
  BY <1>9, AsksAreCounted
<1>11. Cardinality(Asks(q) \union {n}) \in Nat
  BY <1>6, FS_CardinalityType
<1> QED
  BY <1>5, <1>6, <1>7, <1>8, <1>10, <1>11

\* Each request the capture thread has read, or used up with the frame in its
\* hands, is still to be answered: input is never given unasked.
AskedInv ==
    /\ accepts \in BOOLEAN
    /\ requested >= 0
    /\ at = "none" => events = <<>>
    /\ async = TRUE /\ encoder = TRUE =>
           /\ Cardinality(Asks(events)) <= requested
           /\ accepts = TRUE \/ at = "input"
                => Cardinality(Asks(events)) + 1 <= requested
           /\ at = "input" => accepts = FALSE
           /\ at = "offer" => accepts = TRUE

LEMMA AskedInvariant == Spec => []AskedInv
<1>0. Cardinality(Asks(<<>>)) = 0
  <2>1. Asks(<<>>) = {}
    BY DEF Asks
  <2> QED
    BY <2>1, FS_EmptySet
<1>1. Init => AskedInv
  BY DEF Init, AskedInv
<1>2. ControlInv /\ RequestInv /\ AskedInv /\ [Next]_vars => AskedInv'
  <2> SUFFICES ASSUME ControlInv, RequestInv, AskedInv, [Next]_vars
               PROVE  AskedInv'
    OBVIOUS
  <2>a. /\ events \in Seq({"need", "have"}) /\ requested \in Int
        /\ rebuilt = TRUE => async = FALSE
        /\ rebuilt \in BOOLEAN /\ async \in BOOLEAN
        /\ at = "none" => requested = 0
    BY DEF RequestInv
  <2>b. Cardinality(Asks(events)) \in Nat
    BY <2>a, AsksAreCounted
  <2> USE <2>a, <2>b DEF AskedInv, Go
  <2>1. CASE Open
    <3>1. events = <<>> /\ requested = 0 /\ UNCHANGED <<events, requested>>
      BY <2>1 DEF ControlInv, Open, transformVars
    <3>2. async' \in BOOLEAN /\ accepts' = ~async' /\ at' = "top"
      BY <2>1 DEF Open, ConfigureEncoder, SetupEncoderTransform
    <3> QED
      BY <1>0, <3>1, <3>2
  <2>2. CASE OpenFails \/ RequestKeyframe \/ SetPaused
    BY <2>2 DEF OpenFails, RequestKeyframe, SetPaused, kindVars,
                transformVars, threadVars
  <2>3. CASE Close \/ Closing \/ CleanUp
    BY <2>3 DEF Close, Closing, CleanUp, WorkerOut, Answer, Deadline,
                CloseGate, kindVars, transformVars, threadVars
  <2>4. CASE FinishEncoderClose
    <3>1. CASE DrainLast
      <4>1. UNCHANGED <<requested, async, encoder, accepts, at>>
            /\ at = "exited"
        BY <3>1 DEF DrainLast, kindVars, threadVars, ControlInv
      <4>2. events' = events \/ (events # <<>> /\ events' = Tail(events))
        BY <3>1 DEF DrainLast
      <4>3. CASE events # <<>> /\ events' = Tail(events)
        <5>1. Cardinality(Asks(events')) <= Cardinality(Asks(events))
          BY <4>3, AsksRead
        <5>2. events' \in Seq({"need", "have"})
          BY <4>3
        <5>3. Cardinality(Asks(events')) \in Nat
          BY <5>2, AsksAreCounted
        <5> QED
          BY <4>1, <5>1, <5>3
      <4> QED
        BY <4>1, <4>2, <4>3
    <3>2. CASE DeliverLast
      BY <3>2 DEF DeliverLast, kindVars, transformVars, threadVars
    <3>3. CASE Free
      BY <3>3 DEF Free, threadVars
    <3> QED
      BY <2>4, <3>1, <3>2, <3>3 DEF FinishEncoderClose
  <2>5. CASE NeedInput
    <3>1. /\ events' = Append(events, "need") /\ requested' = requested + 1
          /\ UNCHANGED <<async, encoder, accepts, at>>
          /\ encoder = TRUE
      BY <2>5 DEF NeedInput, kindVars, threadVars
    <3>2. at # "none"
      BY <3>1 DEF RequestInv
    <3>3. Cardinality(Asks(events')) <= Cardinality(Asks(events)) + 1
      BY <3>1, AsksAdded
    <3>4. events' \in Seq({"need", "have"})
      BY <3>1
    <3>5. Cardinality(Asks(events')) \in Nat
      BY <3>4, AsksAreCounted
    <3> QED
      BY <3>1, <3>2, <3>3, <3>5
  <2>6. CASE HaveOutput
    <3>1. /\ events' = Append(events, "have")
          /\ UNCHANGED <<requested, async, encoder, accepts, at>>
          /\ encoder = TRUE
      BY <2>6 DEF HaveOutput, kindVars, threadVars
    <3>2. at # "none"
      BY <3>1 DEF RequestInv
    <3>3. Cardinality(Asks(events')) <= Cardinality(Asks(events))
      BY <3>1, AsksAdded
    <3>4. events' \in Seq({"need", "have"})
      BY <3>1
    <3>5. Cardinality(Asks(events')) \in Nat
      BY <3>4, AsksAreCounted
    <3> QED
      BY <3>1, <3>2, <3>3, <3>5
  <2>7. ASSUME ConsumeEncoderOutput, at \in {"pump", "await"},
               UNCHANGED <<async, encoder, requested>>
        PROVE  AskedInv'
    <3>1. /\ events # <<>> /\ events' = Tail(events) /\ UNCHANGED accepts
          /\ at' \in {"pump", "await", "deliver"}
      BY <2>7 DEF ConsumeEncoderOutput
    <3>2. Cardinality(Asks(events')) <= Cardinality(Asks(events))
      BY <3>1, AsksRead
    <3>3. events' \in Seq({"need", "have"})
      BY <3>1
    <3>4. Cardinality(Asks(events')) \in Nat
      BY <3>3, AsksAreCounted
    <3> QED
      BY <2>7, <3>1, <3>2, <3>4
  <2>8. ASSUME events # <<>>, Head(events) = "need",
               events' = Tail(events), accepts' = TRUE,
               at' \in {"top", "offer"},
               UNCHANGED <<async, encoder, requested>>
        PROVE  AskedInv'
    <3>1. Cardinality(Asks(events')) <= Cardinality(Asks(events)) - 1
      BY <2>8, AsksRead
    <3>2. events' \in Seq({"need", "have"})
      BY <2>8
    <3>3. Cardinality(Asks(events')) \in Nat
      BY <3>2, AsksAreCounted
    <3> QED
      BY <2>8, <3>1, <3>3
  <2>9. CASE PumpEncoderEvents
    <3>1. at = "pump" /\ UNCHANGED <<async, encoder, requested>>
      BY <2>9 DEF PumpEncoderEvents
    <3>2. CASE ConsumeEncoderOutput
      BY <2>7, <3>1, <3>2
    <3>3. CASE events # <<>> /\ Head(events) = "need"
               /\ events' = Tail(events) /\ accepts' = TRUE /\ Pumped(TRUE)
      <4>1. at' \in {"top", "offer"}
        BY <3>3 DEF Pumped
      <4> QED
        BY <2>8, <3>1, <3>3, <4>1
    <3>4. CASE events = <<>> /\ Pumped(accepts)
               /\ UNCHANGED <<events, accepts>>
      BY <3>1, <3>4 DEF Pumped
    <3> QED
      BY <2>9, <3>2, <3>3, <3>4 DEF PumpEncoderEvents
  <2>10. CASE AwaitEncoderInput
    <3>1. at = "await" /\ UNCHANGED <<async, encoder, requested>>
      BY <2>10 DEF AwaitEncoderInput
    <3>2. CASE ConsumeEncoderOutput
      BY <2>7, <3>1, <3>2
    <3>3. CASE events # <<>> /\ Head(events) = "need"
               /\ events' = Tail(events) /\ accepts' = TRUE
               /\ at' = "offer"
      BY <2>8, <3>1, <3>3
    <3>4. CASE at' = "top" /\ UNCHANGED <<events, accepts>>
      BY <3>1, <3>4
    <3> QED
      BY <2>10, <3>2, <3>3, <3>4 DEF AwaitEncoderInput
  <2>11. CASE Offer
    BY <2>11 DEF Offer, transformVars
  <2>12. CASE ProcessInput
    <3>1. /\ at = "input" /\ encoder = TRUE
          /\ requested' = IF async THEN requested - 1 ELSE requested
          /\ UNCHANGED <<async, accepts, encoder, events>>
          /\ at' \in {"pump", "drain"}
      BY <2>12 DEF ProcessInput, kindVars, RequestInv, ControlInv
    <3> QED
      BY <3>1
  <2>13. CASE ProcessInputFails
    <3>1. CASE rebuilt = TRUE
      BY <2>13, <3>1 DEF ProcessInputFails, RecoverEncoder, kindVars,
                         transformVars
    <3>2. CASE rebuilt = FALSE
      BY <2>13, <3>2
         DEF ProcessInputFails, RecoverEncoder, ConfigureSoftwareEncoder
    <3> QED
      BY <3>1, <3>2
  <2>14. CASE EncodeNv12
    BY <2>14 DEF EncodeNv12, kindVars, transformVars
  <2>15. CASE DrainEncoder
    BY <2>15 DEF DrainEncoder, kindVars
  <2>16. CASE DeliverEncodedSample
    BY <2>16 DEF ControlInv, DeliverEncodedSample, kindVars, transformVars
  <2>17. CASE LoopTop \/ TakeFrame \/ ReopenDuplication
              \/ AnnounceCaptureEnd \/ Announce
    BY <2>17 DEF LoopTop, TakeFrame, ReopenDuplication, AnnounceCaptureEnd,
                 Announce, kindVars, transformVars
  <2>18. CASE UNCHANGED vars
    BY <2>18 DEF vars, kindVars, transformVars, threadVars
  <2> QED
    BY <2>1, <2>2, <2>3, <2>4, <2>5, <2>6, <2>9, <2>10, <2>11, <2>12,
       <2>13, <2>14, <2>15, <2>16, <2>17, <2>18 DEF Next, CaptureLoop
<1> QED
  BY <1>1, <1>2, ControlInvariant, RequestInvariant, PTL DEF Spec

FlagsOK ==
    /\ {running, paused, keyframe_requested, owed, encoder, answered, force,
        told, gate, exited, cleanup, media} \subseteq BOOLEAN
    /\ FallbackMayFail \in BOOLEAN

WordsOK ==
    /\ source \in Sources \union {"none"}
    /\ at \in {"none", "top", "take", "reopen", "end", "endgate", "endcall",
               "leave", "exited", "encode", "pump", "await", "offer", "input",
               "drain", "deliver", "callback"}
    /\ back \in {"none", "pump", "await", "drain"}
    /\ stage \in {"none", "display", "camera", "capture", "closed", "encode",
                  "stopJoin"}

LEMMA FlagsInvariant == Spec => []FlagsOK
<1>1. Init => FlagsOK
  BY FallbackAssumption DEF Init, FlagsOK
<1>2. FlagsOK /\ [Next]_vars => FlagsOK'
  <2> SUFFICES ASSUME FlagsOK, [Next]_vars PROVE FlagsOK'
    OBVIOUS
  <2> USE DEF FlagsOK, Go, ownerVars, keyVars, kindVars, threadVars,
              wordVars, closeVars
  <2>1. CASE Open \/ OpenFails \/ RequestKeyframe \/ SetPaused \/ Close
    BY <2>1 DEF Open, ConfigureEncoder, SetupEncoderTransform, OpenFails,
                RequestKeyframe, SetPaused, Close
  <2>2. CASE Closing \/ CleanUp \/ FinishEncoderClose
    BY <2>2 DEF Closing, WorkerOut, Answer, Deadline, CloseGate, CleanUp,
                FinishEncoderClose, DrainLast, DeliverLast, Free
  <2>3. CASE NeedInput \/ HaveOutput \/ LoopTop \/ TakeFrame
             \/ ReopenDuplication
    BY <2>3 DEF NeedInput, HaveOutput, LoopTop, TakeFrame, ReopenDuplication
  <2>4. CASE AnnounceCaptureEnd \/ Announce \/ EncodeNv12 \/ Offer
    BY <2>4 DEF AnnounceCaptureEnd, Announce, EncodeNv12, Offer
  <2>5. CASE PumpEncoderEvents \/ AwaitEncoderInput
    BY <2>5 DEF PumpEncoderEvents, AwaitEncoderInput, Pumped,
                ConsumeEncoderOutput
  <2>6. CASE ProcessInput \/ DrainEncoder \/ DeliverEncodedSample
    BY <2>6 DEF ProcessInput, DrainEncoder, DeliverEncodedSample
  <2>7. CASE ProcessInputFails
    BY <2>7 DEF ProcessInputFails, RecoverEncoder, ConfigureSoftwareEncoder
  <2>8. CASE UNCHANGED vars
    BY <2>8 DEF vars
  <2> QED
    BY <2>1, <2>2, <2>3, <2>4, <2>5, <2>6, <2>7, <2>8 DEF Next, CaptureLoop
<1> QED
  BY <1>1, <1>2, PTL DEF Spec

LEMMA WordsInvariant == Spec => []WordsOK
<1>1. Init => WordsOK
  BY DEF Init, WordsOK
<1>2. WordsOK /\ [Next]_vars => WordsOK'
  <2> SUFFICES ASSUME WordsOK, [Next]_vars PROVE WordsOK'
    OBVIOUS
  <2> USE DEF WordsOK, Go, ownerVars, threadVars, wordVars
  <2>1. CASE Open \/ OpenFails \/ RequestKeyframe \/ SetPaused \/ Close
    BY <2>1 DEF Open, OpenFails, OpenDuplicationFails, OpenCameraReaderFails,
                WindowStartFails, RequestKeyframe, SetPaused, Close
  <2>2. CASE Closing \/ CleanUp \/ FinishEncoderClose
    BY <2>2 DEF Closing, WorkerOut, Answer, Deadline, CloseGate, CleanUp,
                FinishEncoderClose, DrainLast, DeliverLast, Free
  <2>3. CASE NeedInput \/ HaveOutput \/ LoopTop \/ TakeFrame
             \/ ReopenDuplication
    BY <2>3 DEF NeedInput, HaveOutput, LoopTop, TakeFrame, ReopenDuplication,
                WindowIsGone, OpenDuplicationFails
  <2>4. CASE AnnounceCaptureEnd \/ Announce \/ EncodeNv12 \/ Offer
    BY <2>4 DEF AnnounceCaptureEnd, Announce, EncodeNv12, Offer
  <2>5. CASE PumpEncoderEvents \/ AwaitEncoderInput
    BY <2>5 DEF PumpEncoderEvents, AwaitEncoderInput, Pumped,
                ConsumeEncoderOutput
  <2>6. CASE ProcessInput \/ DrainEncoder \/ DeliverEncodedSample
    BY <2>6 DEF ProcessInput, DrainEncoder, DeliverEncodedSample
  <2>7. CASE ProcessInputFails
    BY <2>7 DEF ProcessInputFails
  <2>8. CASE UNCHANGED vars
    BY <2>8 DEF vars
  <2> QED
    BY <2>1, <2>2, <2>3, <2>4, <2>5, <2>6, <2>7, <2>8 DEF Next, CaptureLoop
<1> QED
  BY <1>1, <1>2, PTL DEF Spec

\* Every reachable state of the encoder is well typed, for any number of
\* slots: in particular the requests no frame has answered are never fewer
\* than none, so that no frame goes into a hardware encoder unasked.
THEOREM TypeCorrect == Spec => []TypeOK
<1>1. ControlInv /\ RequestInv /\ AskedInv /\ FlagsOK /\ WordsOK => TypeOK
  BY SlotsAssumption
     DEF ControlInv, RequestInv, AskedInv, FlagsOK, WordsOK, TypeOK
<1> QED
  BY <1>1, ControlInvariant, RequestInvariant, AskedInvariant,
     FlagsInvariant, WordsInvariant, PTL

=============================================================================
