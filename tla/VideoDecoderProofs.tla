------------------------- MODULE VideoDecoderProofs -------------------------
(* What holds of VideoDecoder for every value of its constants.            *)
EXTENDS VideoDecoder, TLAPS

-----------------------------------------------------------------------------
(* The close and the decode thread                                          *)

\* What the threads know of each other, whatever is in the queue: the decode
\* thread runs from the open to its exit word, no callback runs once the gate
\* is closed, and the object stays until the exit word is there.
ControlInv ==
    /\ close \in {"none", "failed", "open", "gate", "stop", "wait", "answer",
                  "closed"}
    /\ at \in {"none", "wait", "input", "retry", "drain", "deliver",
               "callback", "released", "exited"}
    /\ after \in {"wait", "retry"}
    /\ at = "none" <=> close \in {"none", "failed"}
    /\ exited <=> at = "exited"
    /\ gate <=> close \in {"stop", "wait", "answer", "closed"}
    /\ stopping <=> close \in {"wait", "answer", "closed"}
    /\ at \in {"released", "exited"} => stopping /\ ~surface /\ inside = {}
    /\ at = "callback" => ~gate
    /\ close \in {"none", "failed"} => ~media
    /\ close \in {"open", "gate", "stop", "wait"} => media
    /\ close = "answer" => ~media
    /\ cleanup => close = "closed"
    /\ close = "closed" => (media <=> cleanup)
    /\ ~media => close \in {"none", "failed"} \/ exited

LEMMA ControlInvariant == Spec => []ControlInv
<1>1. Init => ControlInv
  BY DEF Init, ControlInv
<1>2. ControlInv /\ [Next]_vars => ControlInv'
  <2> SUFFICES ASSUME ControlInv, [Next]_vars PROVE ControlInv'
    OBVIOUS
  <2> USE DEF ControlInv
  <2>1. CASE Open
    BY <2>1 DEF Open
  <2>2. CASE OpenFails
    BY <2>2 DEF OpenFails, drainVars, pictureVars
  <2>3. CASE Submit
    BY <2>3 DEF Submit, drainVars, pictureVars, closeVars
  <2>4. CASE Close
    BY <2>4 DEF Close, drainVars, pictureVars
  <2>5. CASE Closing
    <3>1. CASE CloseGate \/ Stop
      BY <3>1 DEF CloseGate, Stop, drainVars, pictureVars
    <3>2. CASE FinishDecoderClose
      BY <3>2 DEF FinishDecoderClose, drainVars, pictureVars
    <3>3. CASE Answer \/ Deadline
      BY <3>3 DEF Answer, Deadline, drainVars, pictureVars
    <3> QED
      BY <2>5, <3>1, <3>2, <3>3 DEF Closing
  <2>6. CASE CleanUp
    BY <2>6 DEF CleanUp, drainVars, pictureVars
  <2>7. CASE DecoderLoop
    <3>1. CASE Take
      BY <3>1 DEF Take, closeVars
    <3>2. CASE SubmitToTransform
      BY <3>2 DEF SubmitToTransform, Accepted, NotAccepting, Refused,
                  closeVars, pictureVars
    <3>3. CASE DrainDone
      BY <3>3 DEF DrainDone, closeVars, pictureVars
    <3>4. CASE StreamChange
      BY <3>4 DEF StreamChange, closeVars, pictureVars
    <3>5. CASE \E n \in inside : Output(n)
      BY <3>5 DEF Output, DeliverPicture, closeVars
    <3>6. CASE Deliver \/ CallbackReturns
      BY <3>6 DEF Deliver, CallbackReturns, closeVars, drainVars, pictureVars
    <3>7. CASE ReleaseDecoder \/ Announce
      BY <3>7 DEF ReleaseDecoder, Announce, drainVars, pictureVars
    <3> QED
      BY <2>7, <3>1, <3>2, <3>3, <3>4, <3>5, <3>6, <3>7 DEF DecoderLoop
  <2>8. CASE UNCHANGED vars
    BY <2>8 DEF vars, drainVars, pictureVars, closeVars
  <2> QED
    BY <2>1, <2>2, <2>3, <2>4, <2>5, <2>6, <2>7, <2>8 DEF Next
<1> QED
  BY <1>1, <1>2, PTL DEF Spec

\* The decode thread never runs on a decoder that was freed, and leaves with
\* the surface given back: for every queue, every deadline and every order of
\* the close and the thread.
THEOREM DecoderFreedAfterWorker == Spec => []FreedAfterWorker
<1>1. ControlInv => FreedAfterWorker
  BY DEF ControlInv, FreedAfterWorker
<1> QED
  BY <1>1, ControlInvariant, PTL

\* Every step of the decoder is a step of the close contract or leaves what
\* the contract speaks of as it was.
THEOREM DecoderKeepsContract == Spec => Contract!Spec
<1> DEFINE Handle == IF close \in {"none", "failed"} THEN "none"
                     ELSE IF close \in {"open", "closed"} THEN close
                     ELSE "closing"
<1>1. Init => Contract!Init
  BY DEF Init, Contract!Init
<1>2. ControlInv /\ [Next]_vars => [Contract!Next]_(Contract!vars)
  <2> SUFFICES ASSUME ControlInv, [Next]_vars
               PROVE  Contract!Next \/ UNCHANGED <<Handle, at = "callback", media>>
    BY DEF Contract!vars
  <2> USE DEF ControlInv
  <2>1. CASE Open
    BY <2>1 DEF Open, Contract!Next, Contract!Open
  <2>2. CASE OpenFails
    BY <2>2 DEF OpenFails
  <2>3. CASE Submit
    BY <2>3 DEF Submit, closeVars
  <2>4. CASE Close
    BY <2>4 DEF Close, Contract!Next, Contract!Close
  <2>5. CASE CloseGate \/ Stop
    BY <2>5 DEF CloseGate, Stop
  <2>6. CASE FinishDecoderClose
    BY <2>6 DEF FinishDecoderClose, Contract!Next, Contract!Free
  <2>7. CASE Answer \/ Deadline
    BY <2>7 DEF Answer, Deadline, Contract!Next, Contract!Answer
  <2>8. CASE CleanUp
    BY <2>8 DEF CleanUp, Contract!Next, Contract!Free
  <2>9. CASE DecoderLoop
    <3>1. CASE Take
      BY <3>1 DEF Take, closeVars
    <3>2. CASE SubmitToTransform
      BY <3>2 DEF SubmitToTransform, Accepted, NotAccepting, Refused,
                  closeVars
    <3>3. CASE DrainDone \/ StreamChange
      BY <3>3 DEF DrainDone, StreamChange, closeVars
    <3>4. CASE \E n \in inside : Output(n)
      BY <3>4 DEF Output, DeliverPicture, closeVars
    <3>5. CASE Deliver
      <4>1. CASE gate
        BY <3>5, <4>1 DEF Deliver, closeVars
      <4>2. CASE ~gate
        BY <3>5, <4>2 DEF Deliver, closeVars, Contract!Next, Contract!Enter
      <4> QED
        BY <4>1, <4>2
    <3>6. CASE CallbackReturns
      BY <3>6 DEF CallbackReturns, closeVars, Contract!Next, Contract!Leave
    <3>7. CASE ReleaseDecoder \/ Announce
      BY <3>7 DEF ReleaseDecoder, Announce
    <3> QED
      BY <2>9, <3>1, <3>2, <3>3, <3>4, <3>5, <3>6, <3>7 DEF DecoderLoop
  <2>10. CASE UNCHANGED vars
    BY <2>10 DEF vars, closeVars
  <2> QED
    BY <2>1, <2>2, <2>3, <2>4, <2>5, <2>6, <2>7, <2>8, <2>9, <2>10
       DEF Next, Closing
<1> QED
  BY <1>1, <1>2, ControlInvariant, PTL DEF Spec, Contract!Spec

-----------------------------------------------------------------------------
(* The hold                                                                 *)

\* The access unit in the decode thread's hands is not with the transform.
Undecided ==
    \/ at \in {"input", "retry"}
    \/ at \in {"drain", "deliver", "callback"} /\ after = "retry"

\* The decode thread takes what comes out from From on for whole.
Mended == ~holding \/ mends_at # -1
From == IF holding THEN mends_at ELSE 0

\* Where the units are: shown and accepted ones behind the queue, and the one
\* in hand between them.
OrderInv ==
    /\ submitted \in Nat /\ first \in Nat /\ last \in Nat /\ shown \in Nat
    /\ unit \in Nat /\ mends_at \in Int
    /\ broken \in BOOLEAN /\ holding \in BOOLEAN
    /\ first <= submitted + 1
    /\ last < first /\ shown <= last
    /\ inside \subseteq 1..last
    /\ cut \subseteq 1..last
    /\ dropped \subseteq 1..(first - 1)
    /\ mends_at >= -1
    /\ Undecided => last < unit /\ unit < first /\ unit \notin dropped

\* A drop the decode thread does not know of is still announced, and what it
\* takes for whole is.
HoldInv ==
    /\ Undecided => \A m \in dropped : unit < m => broken
    /\ Mended /\ Undecided =>
          \A m \in dropped : ~(last < m /\ m < unit)
    /\ Mended /\ ~Undecided => \A m \in dropped : last < m => broken
    /\ Mended => last \notin cut
    /\ Mended => \A n \in inside : From <= n => n \notin cut
    /\ shown \notin cut

WholeInv == OrderInv /\ HoldInv

LEMMA WholeInvariant ==
  ASSUME Stamped PROVE Spec => []WholeInv
<1>1. Init => WholeInv
  <2> SUFFICES ASSUME Init PROVE WholeInv
    OBVIOUS
  <2>1. OrderInv
    <3>1. /\ submitted = 0 /\ first = 1 /\ last = 0 /\ shown = 0 /\ unit = 0
          /\ mends_at = -1 /\ broken = FALSE /\ holding = FALSE
          /\ Undecided = FALSE
      BY DEF Init, Undecided, None
    <3>2. inside = {} /\ cut = {} /\ dropped = {}
      BY DEF Init
    <3>3. broken \in BOOLEAN /\ holding \in BOOLEAN
      BY <3>1
    <3>4. /\ first = submitted + 1 /\ last < first /\ shown <= last
          /\ mends_at \in Int /\ mends_at >= -1
          /\ submitted \in Nat /\ first \in Nat /\ last \in Nat
          /\ shown \in Nat /\ unit \in Nat
      BY <3>1
    <3>5. first <= submitted + 1
      BY <3>4
    <3> QED
      BY <3>1, <3>2, <3>3, <3>4, <3>5, Zenon DEF OrderInv
  <2>2. HoldInv
    BY DEF Init, HoldInv, Undecided
  <2> QED
    BY <2>1, <2>2 DEF WholeInv
<1>2. ControlInv /\ WholeInv /\ [Next]_vars => WholeInv'
  <2> SUFFICES ASSUME ControlInv, WholeInv, [Next]_vars PROVE WholeInv'
    OBVIOUS
  <2> USE Stamped
  <2> USE DEF WholeInv, OrderInv, HoldInv, Undecided, Mended, From
  <2>q. ASSUME UNCHANGED <<queueVars, pictureVars, unit>>,
               Undecided' = Undecided
        PROVE  WholeInv'
    BY <2>q DEF queueVars, pictureVars
  <2>1. CASE Open
    BY <2>1, <2>q DEF Open, ControlInv
  <2>2. CASE OpenFails \/ Close \/ Closing \/ CleanUp
    BY <2>2, <2>q DEF OpenFails, Close, Closing, CloseGate, Stop,
                FinishDecoderClose, Answer, Deadline, CleanUp, drainVars
  <2>3. CASE Submit
    <3>1. CASE UNCHANGED <<first, dropped, broken>>
      BY <2>3, <3>1 DEF Submit, drainVars, pictureVars
    <3>2. CASE first' = first + 1 /\ dropped' = dropped \union {first}
               /\ broken' = TRUE /\ submitted + 1 - first >= Capacity
      BY <2>3, <3>2, CapacityAssumption DEF Submit, drainVars, pictureVars
    <3> QED
      BY <2>3, <3>1, <3>2 DEF Submit
  <2>4. CASE Take
    <3>1. ~Undecided /\ Undecided'
      BY <2>4 DEF Take
    <3>2. OrderInv'
      <4>1. /\ first \in Nat /\ first <= submitted /\ unit' = first
            /\ first' = first + 1
            /\ UNCHANGED <<submitted, last, shown, inside, cut, dropped>>
        BY <2>4 DEF Take
      <4>2. first \notin dropped /\ dropped' \subseteq 1..(first' - 1)
        BY <4>1
      <4>3. /\ broken' \in BOOLEAN /\ holding' \in BOOLEAN
            /\ mends_at' \in Int /\ mends_at' >= -1
        <5>1. CASE broken
          <6>1. broken' = FALSE /\ holding' = TRUE /\ mends_at' = -1
            BY <2>4, <5>1 DEF Take
          <6>2. mends_at' \in Int /\ mends_at' >= -1
            BY <6>1
          <6>3. broken' \in BOOLEAN /\ holding' \in BOOLEAN
            BY <6>1, Zenon
          <6> QED
            BY <6>2, <6>3
        <5>2. CASE ~broken
          <6>1. UNCHANGED <<broken, holding, mends_at>>
            BY <2>4, <5>2 DEF Take
          <6>2. /\ broken \in BOOLEAN /\ holding \in BOOLEAN
                /\ mends_at \in Int /\ mends_at >= -1
            OBVIOUS
          <6> QED
            BY <6>1, <6>2, Zenon
        <5> QED
          BY <5>1, <5>2
      <4> QED
        BY <4>1, <4>2, <4>3, <3>1
    <3>3. CASE broken
      BY <2>4, <3>1, <3>2, <3>3 DEF Take
    <3>4. CASE ~broken
      BY <2>4, <3>1, <3>2, <3>4 DEF Take
    <3> QED
      BY <3>3, <3>4
  <2>5. CASE SubmitToTransform
    <3>1. CASE Accepted
      BY <2>5, <3>1 DEF Accepted, SubmitToTransform, queueVars, Time
    <3>2. CASE NotAccepting
      BY <2>5, <3>2 DEF NotAccepting, SubmitToTransform, queueVars,
                        pictureVars
    <3>3. CASE Refused
      <4>1. Undecided /\ ~Undecided'
        BY <2>5, <3>3 DEF Refused, SubmitToTransform
      <4>2. OrderInv'
        BY <3>3, <4>1 DEF Refused, queueVars, pictureVars, None
      <4>3. \A m \in dropped : m # unit /\ m \in Nat
        BY <4>1
      <4>4. HoldInv'
        BY <3>3, <4>1, <4>3 DEF Refused, queueVars, pictureVars
      <4> QED
        BY <4>2, <4>4
    <3> QED
      BY <2>5, <3>1, <3>2, <3>3 DEF SubmitToTransform
  <2>6. CASE DrainDone
    BY <2>6 DEF DrainDone, queueVars, pictureVars, ControlInv, None
  <2>7. CASE StreamChange
    BY <2>7, <2>q DEF StreamChange
  <2>8. ASSUME NEW n \in inside, Output(n) PROVE WholeInv'
    <3>1. /\ n \in 1..last /\ \A m \in inside : n <= m
          /\ inside' = inside \ {n}
          /\ UNCHANGED <<queueVars, unit, last, cut>>
          /\ Undecided' = Undecided
      BY <2>8 DEF Output, Oldest, DeliverPicture
    <3>2. CASE UNCHANGED <<holding, mends_at, shown>>
      BY <3>1, <3>2 DEF queueVars
    <3>3. CASE DeliverPicture(n)
      <4> DEFINE mends == holding /\ mends_at >= 0 /\ n >= mends_at
      <4>1. /\ holding' = (holding /\ ~mends)
            /\ mends_at' = IF mends THEN -1 ELSE mends_at
            /\ \/ shown' = shown
               \/ ~holding' /\ shown' = n
        BY <3>1, <3>3 DEF DeliverPicture, Time
      <4>2. CASE holding'
        BY <3>1, <4>1, <4>2 DEF DeliverPicture, queueVars
      <4>3. CASE ~holding'
        <5>1. Mended /\ From <= n
          BY <3>1, <4>1, <4>3
        <5>2. Mended' /\ From' = 0
          BY <4>3
        <5>3. \A m \in inside : m \notin cut
          BY <3>1, <5>1
        <5>4. n \notin cut
          BY <2>8, <5>3
        <5>5. OrderInv'
          BY <3>1, <4>1 DEF queueVars
        <5>6. HoldInv'
          BY <3>1, <4>1, <5>1, <5>2, <5>3, <5>4 DEF queueVars
        <5> QED
          BY <5>5, <5>6
      <4> QED
        BY <4>2, <4>3
    <3> QED
      BY <2>8, <3>2, <3>3 DEF Output
  <2>9. CASE Deliver \/ CallbackReturns
    BY <2>9, <2>q DEF Deliver, CallbackReturns, drainVars
  <2>10. CASE ReleaseDecoder \/ Announce
    <3>1. CASE ReleaseDecoder
      BY <3>1 DEF ReleaseDecoder, drainVars, queueVars
    <3>2. CASE Announce
      BY <3>2, <2>q DEF Announce, drainVars
    <3> QED
      BY <2>10, <3>1, <3>2
  <2>11. CASE UNCHANGED vars
    BY <2>11, <2>q DEF vars, drainVars
  <2> QED
    BY <2>1, <2>2, <2>3, <2>4, <2>5, <2>6, <2>7, <2>8, <2>9, <2>10, <2>11
       DEF Next, DecoderLoop
<1> QED
  BY <1>1, <1>2, ControlInvariant, PTL DEF Spec

\* With timestamps, the surface never shows a picture built on an access unit
\* the full queue gave up: for every queue, every run of drops, keyframes and
\* refusals, and a transform that holds pictures back as long as it likes.
THEOREM DecoderShowsWhole ==
  ASSUME Stamped PROVE Spec => []ShownIsWhole
<1>1. WholeInv => ShownIsWhole
  BY DEF WholeInv, HoldInv, ShownIsWhole
<1> QED
  BY <1>1, WholeInvariant, PTL

-----------------------------------------------------------------------------
(* Types                                                                    *)

\* The parts of the type that are numbers and sets, and those that are flags.
NumbersOK ==
    /\ submitted \in Nat /\ first \in 1..(submitted + 1)
    /\ keyframes \subseteq 1..submitted /\ dropped \subseteq 1..submitted
    /\ unit \in 0..submitted /\ changes \in Nat /\ faults \in Nat
    /\ mends_at \in Nat \union {-1}
    /\ inside \subseteq 1..submitted /\ cut \subseteq 1..submitted
    /\ last \in 0..submitted /\ shown \in 0..submitted
    /\ at \in {"input", "retry"} => unit # None
    /\ at = "drain" /\ after = "retry" => unit # None
    /\ at \in {"deliver", "callback"} /\ after = "retry" => unit # None

FlagsOK ==
    {broken, stopping, sized, holding, gate, exited, cleanup, media,
     surface} \subseteq BOOLEAN

LEMMA FlagsInvariant == Spec => []FlagsOK
<1>1. Init => FlagsOK
  BY DEF Init, FlagsOK
<1>2. FlagsOK /\ [Next]_vars => FlagsOK'
  <2> SUFFICES ASSUME FlagsOK, [Next]_vars PROVE FlagsOK'
    OBVIOUS
  <2> USE DEF FlagsOK
  <2>1. CASE Open \/ OpenFails \/ Submit \/ Close \/ CleanUp
    BY <2>1 DEF Open, OpenFails, Submit, Close, CleanUp, queueVars, drainVars,
                pictureVars, closeVars
  <2>2. CASE Closing
    BY <2>2 DEF Closing, CloseGate, Stop, FinishDecoderClose, Answer, Deadline,
                queueVars, drainVars, pictureVars
  <2>3. CASE Take
    BY <2>3 DEF Take, closeVars
  <2>4. CASE SubmitToTransform \/ DrainDone \/ StreamChange \/ Deliver
             \/ CallbackReturns
    BY <2>4 DEF SubmitToTransform, Accepted, NotAccepting, Refused, DrainDone,
                StreamChange, Deliver, CallbackReturns, queueVars, drainVars,
                pictureVars, closeVars
  <2>5. ASSUME NEW n \in inside, Output(n) PROVE FlagsOK'
    BY <2>5 DEF Output, DeliverPicture, queueVars, closeVars
  <2>6. CASE ReleaseDecoder \/ Announce
    BY <2>6 DEF ReleaseDecoder, Announce, queueVars, drainVars, pictureVars
  <2>7. CASE UNCHANGED vars
    BY <2>7 DEF vars, queueVars, drainVars, pictureVars, closeVars
  <2> QED
    BY <2>1, <2>2, <2>3, <2>4, <2>5, <2>6, <2>7 DEF Next, DecoderLoop
<1> QED
  BY <1>1, <1>2, PTL DEF Spec

LEMMA NumbersInvariant == Spec => []NumbersOK
<1>1. Init => NumbersOK
  BY DEF Init, NumbersOK, None
<1>2. ControlInv /\ NumbersOK /\ [Next]_vars => NumbersOK'
  <2> SUFFICES ASSUME ControlInv, NumbersOK, [Next]_vars PROVE NumbersOK'
    OBVIOUS
  <2> USE DEF NumbersOK, None
  <2>0. \A n \in 0..submitted : Time(n) \in Nat
    BY DEF Time
  <2>1. CASE Open
    BY <2>1 DEF Open, queueVars, pictureVars
  <2>2. CASE OpenFails \/ Close \/ Closing \/ CleanUp
    BY <2>2 DEF OpenFails, Close, Closing, CloseGate, Stop,
                FinishDecoderClose, Answer, Deadline, CleanUp, queueVars,
                drainVars, pictureVars
  <2>3. CASE Submit
    <3>0. /\ submitted' = submitted + 1
          /\ UNCHANGED <<at, drainVars, pictureVars, faults>>
          /\ \/ keyframes' = keyframes \union {submitted + 1}
             \/ keyframes' = keyframes
      BY <2>3 DEF Submit
    <3>a. keyframes \subseteq 1..submitted /\ submitted \in Nat
      OBVIOUS
    <3>b. keyframes' \subseteq 1..(submitted + 1)
      <4>1. \A n \in keyframes' : n \in keyframes \/ n = submitted + 1
        BY <3>0
      <4>2. \A n \in 1..submitted : n \in 1..(submitted + 1)
        BY <3>a
      <4>3. submitted + 1 \in 1..(submitted + 1)
        BY <3>a
      <4> HIDE DEF NumbersOK
      <4> QED
        BY <3>a, <4>1, <4>2, <4>3
    <3>1. submitted' = submitted + 1 /\ keyframes' \subseteq 1..submitted'
          /\ UNCHANGED <<at, drainVars, pictureVars, faults>>
      BY <3>0, <3>b
    <3>2. CASE submitted + 1 - first >= Capacity
      <4>1. first' = first + 1 /\ dropped' = dropped \union {first}
        BY <2>3, <3>2 DEF Submit
      <4>2. first' \in 1..(submitted' + 1) /\ dropped' \subseteq 1..submitted'
        BY <3>1, <3>2, <4>1, CapacityAssumption
      <4> QED
        BY <3>1, <4>2 DEF drainVars, pictureVars
    <3>3. CASE ~(submitted + 1 - first >= Capacity)
      <4>1. UNCHANGED <<first, dropped>>
        BY <2>3, <3>3 DEF Submit
      <4> QED
        BY <3>1, <4>1 DEF drainVars, pictureVars
    <3> QED
      BY <3>2, <3>3
  <2>4. CASE Take
    BY <2>4 DEF Take
  <2>5. CASE SubmitToTransform
    <3>1. CASE Accepted
      <4>1. at \in {"input", "retry"}
        BY <2>5 DEF SubmitToTransform
      <4>2. unit \in 1..submitted
        BY <4>1
      <4>3. cut' \subseteq 1..submitted /\ inside' \subseteq 1..submitted
        BY <3>1, <4>2 DEF Accepted
      <4>4. mends_at' \in Nat \union {-1}
        BY <2>0, <3>1 DEF Accepted
      <4> QED
        BY <3>1, <4>2, <4>3, <4>4 DEF Accepted, queueVars
    <3>2. CASE NotAccepting /\ at = "input"
      BY <3>2 DEF NotAccepting, queueVars, pictureVars
    <3>3. CASE Refused
      BY <3>3 DEF Refused, queueVars, pictureVars
    <3> QED
      BY <2>5, <3>1, <3>2, <3>3 DEF SubmitToTransform
  <2>6. CASE DrainDone
    BY <2>6 DEF DrainDone, ControlInv, queueVars, pictureVars
  <2>7. CASE StreamChange
    BY <2>7 DEF StreamChange, queueVars, pictureVars
  <2>8. ASSUME NEW n \in inside, Output(n) PROVE NumbersOK'
    <3>1. n \in 1..submitted
      OBVIOUS
    <3>2. shown' \in 0..submitted /\ faults' \in Nat
          /\ mends_at' \in Nat \union {-1} /\ at' \in {"drain", "deliver"}
      BY <2>8, <3>1 DEF Output, DeliverPicture
    <3>3. at = "drain" /\ changes' = 0 /\ inside' \subseteq 1..submitted
          /\ UNCHANGED <<queueVars, after, unit, last, cut>>
      BY <2>8 DEF Output
    <3> QED
      BY <3>2, <3>3 DEF queueVars
  <2>9. CASE Deliver \/ CallbackReturns
    BY <2>9 DEF Deliver, CallbackReturns, queueVars, drainVars, pictureVars
  <2>10. CASE ReleaseDecoder \/ Announce
    BY <2>10 DEF ReleaseDecoder, Announce, queueVars, drainVars, pictureVars
  <2>11. CASE UNCHANGED vars
    BY <2>11 DEF vars, queueVars, drainVars, pictureVars
  <2> QED
    BY <2>1, <2>2, <2>3, <2>4, <2>5, <2>6, <2>7, <2>8, <2>9, <2>10, <2>11
       DEF Next, DecoderLoop
<1> QED
  BY <1>1, <1>2, ControlInvariant, PTL DEF Spec

\* Whatever the caller submits and the transform answers, with timestamps or
\* without, the decoder stays well typed: the queue is a run of what was
\* submitted, and what it accepted, cut or shows was submitted too.
THEOREM TypeCorrect == Spec => []TypeOK
<1>1. FlagsOK /\ NumbersOK /\ ControlInv => TypeOK
  BY DEF FlagsOK, NumbersOK, ControlInv, TypeOK
<1> QED
  BY <1>1, FlagsInvariant, NumbersInvariant, ControlInvariant, PTL

=============================================================================
